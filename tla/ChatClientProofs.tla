-------------------------- MODULE ChatClientProofs --------------------------
(***************************************************************************)
(* The chat client's lists catch up, for any numbers of friends and        *)
(* groups, sockets of any length and any number of lines.                  *)
(*                                                                         *)
(* ListsCaughtUp speaks of the moments when nothing is on its way, and no  *)
(* step leads from one of them to the next.  Underway says what holds in   *)
(* between: a list that no other client changed is asked for already, or   *)
(* will be because of a message on its way, or the newest list among the   *)
(* messages and the one shown is what the server's files say.              *)
(***************************************************************************)
EXTENDS ChatClient, TLAPS

Name == Friend \cup Group \cup {NoName}

Text == Name \cup SUBSET Name

Request == [type : {"register", "login"}, kind : {"none"}, name : Name]
             \cup [type : {"list", "add", "remove", "chat"}, kind : Kind, name : Name]

Answer == [type : {"resp", "deliver"}, kind : Kind \cup {"none"}, name : Text]
            \cup [type : {"list_resp", "add_resp", "remove_resp"}, kind : Kind, name : Text]

TypeOK ==
    /\ up \in Seq(Request) /\ down \in Seq(Answer)
    /\ server = << >> \/ \E m \in Answer : server = <<m>>
    /\ receiver \in Kind \cup {"recv"} /\ g_target \in Name
    /\ lists \in [Kind -> SUBSET Name] /\ shown \in [Kind -> Text]
    /\ foreign \subseteq Kind

\* Message m is the list of kind k.
IsList(m, k) == m.type = "list_resp" /\ m.kind = k

HasList(s, k) == \E i \in 1 .. Len(s) : IsList(s[i], k)

\* The last list of kind k in s is v.
LastIs(s, k, v) ==
    \E i \in 1 .. Len(s) :
        IsList(s[i], k) /\ s[i].name = v /\ \A j \in i + 1 .. Len(s) : ~IsList(s[j], k)

\* After message m the client asks for the list of kind k.
IsPrompt(m, k) == m.type \in {"add_resp", "remove_resp"} /\ m.kind = k

Prompts(s, k) == \E i \in 1 .. Len(s) : IsPrompt(s[i], k)

Wanted(s, k) == \E i \in 1 .. Len(s) : s[i].type = "list" /\ s[i].kind = k

Asked(k) == Wanted(up, k) \/ receiver = k \/ Prompts(down, k) \/ Prompts(server, k)

\* The newest list of kind k that left the server is what its files say.
Fresh(k) ==
    \/ LastIs(server, k, lists[k])
    \/ ~HasList(server, k) /\ LastIs(down, k, lists[k])
    \/ ~HasList(server, k) /\ ~HasList(down, k) /\ shown[k] = lists[k]

Underway == \A k \in Kind \ foreign : Asked(k) \/ Fresh(k)

-----------------------------------------------------------------------------
(* What is in a sequence of messages with one more or one less.             *)

LEMMA EmptySequence ==
    ASSUME NEW k, NEW v
    PROVE  ~HasList(<< >>, k) /\ ~LastIs(<< >>, k, v) /\ ~Prompts(<< >>, k) /\ ~Wanted(<< >>, k)
BY DEF HasList, LastIs, Prompts, Wanted

LEMMA OneMessage ==
    ASSUME NEW m, NEW k, NEW v
    PROVE  /\ HasList(<<m>>, k) <=> IsList(m, k)
           /\ LastIs(<<m>>, k, v) <=> IsList(m, k) /\ m.name = v
           /\ Prompts(<<m>>, k) <=> IsPrompt(m, k)
<1>1. Len(<<m>>) = 1 /\ <<m>>[1] = m
    OBVIOUS
<1> QED
    BY <1>1 DEF HasList, LastIs, Prompts

LEMMA OneMore ==
    ASSUME NEW S, NEW s \in Seq(S), NEW m \in S, NEW k, NEW v
    PROVE  /\ HasList(Append(s, m), k) <=> HasList(s, k) \/ IsList(m, k)
           /\ LastIs(Append(s, m), k, v) <=> \/ IsList(m, k) /\ m.name = v
                                             \/ ~IsList(m, k) /\ LastIs(s, k, v)
           /\ Prompts(Append(s, m), k) <=> Prompts(s, k) \/ IsPrompt(m, k)
           /\ Wanted(Append(s, m), k) <=> Wanted(s, k) \/ (m.type = "list" /\ m.kind = k)
<1> DEFINE t == Append(s, m)  n == Len(s)
<1>1. /\ n \in Nat /\ Len(t) = n + 1 /\ t[n + 1] = m
      /\ \A i \in 1 .. n : t[i] = s[i]
    OBVIOUS
<1>2. 1 .. Len(t) = (1 .. n) \cup {n + 1}
    BY <1>1
<1> HIDE DEF t
<1>3. HasList(t, k) <=> HasList(s, k) \/ IsList(m, k)
    BY <1>1, <1>2 DEF HasList
<1>4. Prompts(t, k) <=> Prompts(s, k) \/ IsPrompt(m, k)
    BY <1>1, <1>2 DEF Prompts
<1>5. Wanted(t, k) <=> Wanted(s, k) \/ (m.type = "list" /\ m.kind = k)
    BY <1>1, <1>2 DEF Wanted
<1>6. LastIs(t, k, v) <=> \/ IsList(m, k) /\ m.name = v
                          \/ ~IsList(m, k) /\ LastIs(s, k, v)
    BY SMTT(20), <1>1, <1>2 DEF LastIs
<1> QED
    BY <1>3, <1>4, <1>5, <1>6 DEF t

LEMMA OneLess ==
    ASSUME NEW S, NEW s \in Seq(S), s # << >>, NEW k, NEW v
    PROVE  /\ HasList(s, k) <=> IsList(Head(s), k) \/ HasList(Tail(s), k)
           /\ LastIs(s, k, v) <=> \/ LastIs(Tail(s), k, v)
                                  \/ /\ IsList(Head(s), k) /\ Head(s).name = v
                                     /\ ~HasList(Tail(s), k)
           /\ Prompts(s, k) <=> IsPrompt(Head(s), k) \/ Prompts(Tail(s), k)
           /\ Wanted(s, k) <=> \/ Head(s).type = "list" /\ Head(s).kind = k
                               \/ Wanted(Tail(s), k)
<1> DEFINE t == Tail(s)  n == Len(t)  m == Head(s)
<1>1. /\ n \in Nat /\ Len(s) = n + 1 /\ s[1] = m
      /\ \A i \in 1 .. n : t[i] = s[i + 1]
    OBVIOUS
<1>2. \A i \in 1 .. Len(s) : i = 1 \/ \E j \in 1 .. n : i = j + 1 /\ s[i] = t[j]
    <2> SUFFICES ASSUME NEW i \in 1 .. Len(s), i # 1
                 PROVE  i - 1 \in 1 .. n /\ i = (i - 1) + 1 /\ s[i] = t[i - 1]
        OBVIOUS
    <2> QED
        BY <1>1
<1>3. 1 \in 1 .. Len(s) /\ \A j \in 1 .. n : j + 1 \in 1 .. Len(s)
    BY <1>1
<1> HIDE DEF t, m, n
<1>4. HasList(s, k) <=> IsList(m, k) \/ HasList(t, k)
    BY <1>1, <1>2, <1>3 DEF HasList, n
<1>5. Prompts(s, k) <=> IsPrompt(m, k) \/ Prompts(t, k)
    BY <1>1, <1>2, <1>3 DEF Prompts, n
<1>6. Wanted(s, k) <=> (m.type = "list" /\ m.kind = k) \/ Wanted(t, k)
    BY ZenonT(30), <1>1, <1>2, <1>3 DEF Wanted, n
<1>7. LastIs(t, k, v) => LastIs(s, k, v)
    <2> SUFFICES ASSUME NEW j \in 1 .. n, IsList(t[j], k), t[j].name = v,
                        \A l \in j + 1 .. n : ~IsList(t[l], k)
                 PROVE  LastIs(s, k, v)
        BY DEF LastIs, n
    <2>1. j + 1 \in 1 .. Len(s) /\ s[j + 1] = t[j]
        BY <1>1, <1>3
    <2>2. ASSUME NEW i \in (j + 1) + 1 .. Len(s) PROVE ~IsList(s[i], k)
        <3>1. i - 1 \in j + 1 .. n /\ i - 1 \in 1 .. n /\ s[(i - 1) + 1] = t[i - 1]
            BY <1>1
        <3> QED
            BY <3>1
    <2> QED
        BY <2>1, <2>2 DEF LastIs
<1>8. IsList(m, k) /\ m.name = v /\ ~HasList(t, k) => LastIs(s, k, v)
    BY <1>1, <1>2, <1>3 DEF LastIs, HasList, n
<1>9. LastIs(s, k, v) => LastIs(t, k, v) \/ (IsList(m, k) /\ m.name = v /\ ~HasList(t, k))
    <2> SUFFICES ASSUME NEW i \in 1 .. Len(s), IsList(s[i], k), s[i].name = v,
                        \A l \in i + 1 .. Len(s) : ~IsList(s[l], k)
                 PROVE  LastIs(t, k, v) \/ (IsList(m, k) /\ m.name = v /\ ~HasList(t, k))
        BY DEF LastIs
    <2>1. \A j \in 1 .. n : j + 1 > i => ~IsList(t[j], k)
        BY <1>1, <1>3
    <2>2. CASE i = 1
        BY <1>1, <2>1, <2>2 DEF HasList, n
    <2>3. ASSUME NEW j \in 1 .. n, i = j + 1, s[i] = t[j] PROVE LastIs(t, k, v)
        BY <1>1, <2>1, <2>3 DEF LastIs, n
    <2> QED
        BY <1>2, <2>2, <2>3
<1> QED
    BY <1>4, <1>5, <1>6, <1>7, <1>8, <1>9 DEF t, m

-----------------------------------------------------------------------------
(* Types.                                                                   *)

LEMMA TypeInit == Init => TypeOK
BY DEF Init, TypeOK, Name, Text

\* A line of the user is one request more; it changes nothing the server has.
LEMMA LineTyped ==
    ASSUME TypeOK, NEW m \in Request, Line(m), g_target' \in Name,
           UNCHANGED <<down, receiver, server, lists, shown, foreign>>
    PROVE  TypeOK'
BY DEF TypeOK, Line, send_message

\* What the main thread does is a line or nothing that counts.
LEMMA MainStep ==
    ASSUME TypeOK,
           Register \/ Login \/ AskFriends \/ ChangeList \/ ChatWith \/ EnterGroup \/ Say \/ Back
             \/ Quit
    PROVE  /\ (\E m \in Request : Line(m)) \/ UNCHANGED up
           /\ g_target' \in Name /\ UNCHANGED <<down, receiver, server, lists, shown, foreign>>
<1> USE DEF Kind, Name
<1>1. \A t \in {"list", "add", "remove", "chat"}, k \in Kind, n \in Name :
          Message(t, k, n) \in Request
    BY DEF Message, Request
<1>2. CASE Register \/ Login
    BY <1>2 DEF Register, Login, Message, Request, TypeOK
<1>3. CASE AskFriends
    BY <1>1, <1>3 DEF AskFriends, TypeOK
<1>4. CASE ChangeList
    <2>1. PICK k \in Kind, t \in {"add", "remove"} : \E n \in Names(k) : Line(Message(t, k, n))
        BY <1>4 DEF ChangeList
    <2>2. Names(k) \subseteq Name
        BY DEF Names
    <2> QED
        BY <1>1, <1>4, <2>1, <2>2 DEF ChangeList, TypeOK
<1>5. CASE ChatWith
    BY <1>5 DEF ChatWith
<1>6. CASE EnterGroup
    BY <1>1, <1>6 DEF EnterGroup, TypeOK
<1>7. CASE Say
    BY <1>1, <1>7 DEF Say, TypeOK
<1>8. CASE Back \/ Quit
    BY <1>8 DEF Back, Quit, TypeOK
<1> QED
    BY <1>2, <1>3, <1>4, <1>5, <1>6, <1>7, <1>8

\* The server takes a request and has at most one answer to write.
LEMMA ServeTyped ==
    ASSUME TypeOK, NEW m \in Request, server = << >>, Serve(m)
    PROVE  /\ lists' \in [Kind -> SUBSET Name]
           /\ server' = << >> \/ \E a \in Answer : server' = <<a>>
<1>1. \A t \in {"resp", "deliver"}, k \in Kind \cup {"none"}, n \in Text :
          Message(t, k, n) \in Answer
    BY DEF Message, Answer
<1>2. \A t \in {"list_resp", "add_resp", "remove_resp"}, k \in Kind, n \in Text :
          Message(t, k, n) \in Answer
    BY DEF Message, Answer
<1>3. NoName \in Text /\ \A k \in Kind : lists[k] \in Text
    BY DEF Text, Name, TypeOK
<1>4. m.type \in {"list", "add", "remove", "chat"} => m.kind \in Kind /\ m.name \in Name
    BY DEF Request
<1>5. "none" \in Kind \cup {"none"} /\ Kind \subseteq Kind \cup {"none"}
    OBVIOUS
<1>6. CASE m.type \in {"register", "login"}
    BY <1>1, <1>3, <1>5, <1>6 DEF Serve, Answers, TypeOK
<1>7. CASE m.type = "list"
    BY <1>2, <1>3, <1>4, <1>7 DEF Serve, Answers, TypeOK
<1>8. CASE m.type \in {"add", "remove"}
    BY <1>2, <1>3, <1>4, <1>8 DEF Serve, Answers, TypeOK
<1>9. CASE m.type = "chat"
    BY <1>1, <1>2, <1>3, <1>4, <1>5, <1>9 DEF Serve, Answers, TypeOK
<1> QED
    BY <1>6, <1>7, <1>8, <1>9 DEF Request

LEMMA TypeStep == TypeOK /\ [Next]_vars => TypeOK'
<1> SUFFICES ASSUME TypeOK, [Next]_vars PROVE TypeOK'
    OBVIOUS
<1>1. CASE Register \/ Login \/ AskFriends \/ ChangeList \/ ChatWith \/ EnterGroup \/ Say \/ Back
             \/ Quit
    BY <1>1, MainStep, LineTyped DEF TypeOK
<1>2. CASE Receive
    <2>1. Head(down) \in Answer /\ Tail(down) \in Seq(Answer)
        BY <1>2 DEF TypeOK, Receive
    <2>2. receiver' \in Kind \cup {"recv"}
        BY <1>2, <2>1 DEF Receive, Refresh, Answer
    <2>3. shown' \in [Kind -> Text]
        BY <1>2, <2>1 DEF Receive, Answer, TypeOK
    <2> QED
        BY <1>2, <2>1, <2>2, <2>3 DEF TypeOK, Receive
<1>3. CASE AskAgain
    <2>1. Message("list", receiver, NoName) \in Request
        BY <1>3 DEF TypeOK, AskAgain, Message, Request, Name
    <2> QED
        BY <1>3, <2>1 DEF TypeOK, AskAgain, send_message
<1>4. CASE ServerTakes
    <2>1. Head(up) \in Request /\ Tail(up) \in Seq(Request)
        BY <1>4 DEF TypeOK, ServerTakes
    <2> QED
        BY <1>4, <2>1, ServeTyped DEF TypeOK, ServerTakes
<1>5. CASE ServerAnswers
    <2>1. PICK a \in Answer : server = <<a>>
        BY <1>5 DEF TypeOK, ServerAnswers
    <2> QED
        BY <1>5, <2>1 DEF TypeOK, ServerAnswers
<1>6. CASE OtherWrites
    <2>1. Message("deliver", "none", NoName) \in Answer
        BY DEF Message, Answer, Text, Name
    <2> QED
        BY <1>6, <2>1 DEF TypeOK, OtherWrites
<1>7. CASE OtherChanges
    BY <1>7 DEF TypeOK, OtherChanges, Name, Kind
<1>8. CASE UNCHANGED vars
    BY <1>8 DEF TypeOK, vars
<1> QED
    BY <1>1, <1>2, <1>3, <1>4, <1>5, <1>6, <1>7, <1>8 DEF Next

-----------------------------------------------------------------------------
(* Each step leaves every list asked for, on its way or shown.              *)

LEMMA UnderwayInit == Init => Underway
BY EmptySequence DEF Init, Underway, Fresh, Asked

\* Nothing that the server's answers and the lists depend on is lost.
LEMMA UnderwayLeft ==
    ASSUME Underway, UNCHANGED <<down, receiver, server, lists, shown, foreign>>,
           \A k \in Kind : Wanted(up, k) => Wanted(up', k)
    PROVE  Underway'
BY DEF Underway, Asked, Fresh, HasList, LastIs, Prompts, Wanted

LEMMA ReceiveUnderway == ASSUME TypeOK, Underway, Receive PROVE Underway'
<1> SUFFICES ASSUME NEW k \in Kind \ foreign PROVE Asked(k)' \/ Fresh(k)'
    BY DEF Underway, Receive
<1> DEFINE m == Head(down)  t == Tail(down)
<1>1. /\ HasList(down, k) <=> IsList(m, k) \/ HasList(t, k)
      /\ LastIs(down, k, lists[k]) <=> \/ LastIs(t, k, lists[k])
                                       \/ IsList(m, k) /\ m.name = lists[k] /\ ~HasList(t, k)
      /\ Prompts(down, k) <=> IsPrompt(m, k) \/ Prompts(t, k)
    BY OneLess DEF TypeOK, Receive
<1>2. /\ down' = t /\ receiver = "recv" /\ UNCHANGED <<up, server, lists>>
      /\ IsPrompt(m, k) => receiver' = k
      /\ shown'[k] = IF IsList(m, k) THEN m.name ELSE shown[k]
    BY DEF Receive, Refresh, IsPrompt, IsList, TypeOK
<1> HIDE DEF m, t
<1>3. (Asked(k) \/ Fresh(k)) /\ k # "recv"
    BY DEF Underway, Kind
<1>4. Asked(k) => Asked(k)'
    BY <1>1, <1>2, <1>3 DEF Asked, Wanted, Prompts
<1>5. Fresh(k) => Fresh(k)'
    BY <1>1, <1>2 DEF Fresh, HasList, LastIs
<1> QED
    BY <1>3, <1>4, <1>5

LEMMA ServerUnderway == ASSUME TypeOK, Underway, ServerTakes PROVE Underway'
<1> DEFINE m == Head(up)
<1>1. m \in Request /\ Serve(m) /\ server = << >> /\ UNCHANGED <<down, receiver, shown>>
    BY DEF TypeOK, ServerTakes
<1>2. foreign' = IF m.type = "list" THEN foreign \ {m.kind} ELSE foreign
    BY DEF ServerTakes
<1> HIDE DEF m
<1> SUFFICES ASSUME NEW k \in Kind \ foreign' PROVE Asked(k)' \/ Fresh(k)'
    BY DEF Underway
<1>3. CASE m.type = "list" /\ m.kind = k
    <2>1. server' = <<Message("list_resp", k, lists[k])>> /\ lists' = lists
        BY <1>1, <1>3 DEF Serve, Answers
    <2>2. LastIs(server', k, lists[k])
        BY <2>1, OneMessage DEF IsList, Message
    <2> QED
        BY <2>1, <2>2 DEF Fresh, LastIs
<1>4. CASE IsPrompt(server'[1], k) /\ server' = <<server'[1]>>
    BY <1>4, OneMessage DEF Asked, Prompts
<1>5. CASE ~(m.type = "list" /\ m.kind = k) /\ ~(IsPrompt(server'[1], k) /\ server' = <<server'[1]>>)
    <2>1. k \notin foreign
        BY <1>2, <1>5
    <2>2. lists'[k] = lists[k] /\ ~HasList(server', k)
        <3>1. CASE m.type \in {"register", "login", "chat"}
            BY <1>1, <3>1, EmptySequence, OneMessage DEF Serve, Answers, Message, IsList
        <3>2. CASE m.type = "list"
            <4>1. server' = <<Message("list_resp", m.kind, lists[m.kind])>> /\ lists' = lists
                BY <1>1, <3>2 DEF Serve, Answers
            <4>2. ~IsList(Message("list_resp", m.kind, lists[m.kind]), k)
                BY <1>5, <3>2 DEF Message, IsList
            <4> QED
                BY <4>1, <4>2, OneMessage
        <3>3. CASE m.type \in {"add", "remove"}
            <4>1. \E t \in {"add_resp", "remove_resp"} : server' = <<Message(t, m.kind, NoName)>>
                BY <1>1, <3>3 DEF Serve, Answers
            <4>2. m.kind # k /\ ~HasList(server', k)
                BY <1>5, <4>1, OneMessage DEF Message, IsPrompt, IsList
            <4> QED
                BY <1>1, <3>3, <4>2 DEF Serve, TypeOK
        <3> QED
            BY <1>1, <3>1, <3>2, <3>3 DEF Request
    <2>3. Wanted(up, k) => Wanted(up', k)
        BY <1>5, OneLess DEF TypeOK, ServerTakes, m
    <2>4. ~LastIs(server, k, lists[k]) /\ ~HasList(server, k) /\ ~Prompts(server, k)
        BY <1>1, EmptySequence
    <2>5. Asked(k) => Asked(k)'
        BY <1>1, <2>3, <2>4 DEF Asked, Wanted, Prompts
    <2>6. Fresh(k) => Fresh(k)'
        BY <1>1, <2>2, <2>4 DEF Fresh, HasList, LastIs
    <2> QED
        BY <2>1, <2>5, <2>6 DEF Underway
<1> QED
    BY <1>3, <1>4, <1>5

LEMMA AnswerUnderway == ASSUME TypeOK, Underway, ServerAnswers PROVE Underway'
<1> SUFFICES ASSUME NEW k \in Kind \ foreign PROVE Asked(k)' \/ Fresh(k)'
    BY DEF Underway, ServerAnswers
<1>1. PICK a \in Answer : server = <<a>>
    BY DEF TypeOK, ServerAnswers
<1>2. /\ down' = Append(down, a) /\ server' = << >>
      /\ UNCHANGED <<up, receiver, lists, shown>>
    BY <1>1 DEF ServerAnswers, TypeOK
<1>3. /\ HasList(down', k) <=> HasList(down, k) \/ IsList(a, k)
      /\ LastIs(down', k, lists[k]) <=> \/ IsList(a, k) /\ a.name = lists[k]
                                        \/ ~IsList(a, k) /\ LastIs(down, k, lists[k])
      /\ Prompts(down', k) <=> Prompts(down, k) \/ IsPrompt(a, k)
    BY <1>2, OneMore DEF TypeOK
<1>4. /\ HasList(server, k) <=> IsList(a, k)
      /\ LastIs(server, k, lists[k]) <=> IsList(a, k) /\ a.name = lists[k]
      /\ Prompts(server, k) <=> IsPrompt(a, k)
    BY <1>1, OneMessage
<1>5. ~HasList(server', k) /\ ~Prompts(server', k)
    BY <1>2, EmptySequence
<1>6. Asked(k) => Asked(k)'
    BY <1>2, <1>3, <1>4 DEF Asked, Wanted, Prompts
<1>7. Fresh(k) => Fresh(k)'
    BY <1>2, <1>3, <1>4, <1>5 DEF Fresh, HasList, LastIs
<1> QED
    BY <1>6, <1>7 DEF Underway

LEMMA OthersUnderway ==
    ASSUME TypeOK, Underway, OtherWrites \/ OtherChanges
    PROVE  Underway'
<1>1. CASE OtherChanges
    <2> SUFFICES ASSUME NEW k \in Kind \ foreign' PROVE Asked(k)' \/ Fresh(k)'
        BY DEF Underway
    <2>1. k \in Kind \ foreign /\ lists'[k] = lists[k]
        BY <1>1 DEF OtherChanges, TypeOK
    <2> QED
        BY <1>1, <2>1 DEF OtherChanges, Underway, Asked, Fresh, Wanted, Prompts, HasList, LastIs
<1>2. CASE OtherWrites
    <2> DEFINE m == Message("deliver", "none", NoName)
    <2>1. m \in Answer /\ down' = Append(down, m) /\ \A k : ~IsList(m, k) /\ ~IsPrompt(m, k)
        BY <1>2 DEF OtherWrites, Message, Answer, Text, Name, IsList, IsPrompt
    <2> HIDE DEF m
    <2> SUFFICES ASSUME NEW k \in Kind \ foreign PROVE Asked(k)' \/ Fresh(k)'
        BY <1>2 DEF Underway, OtherWrites
    <2>2. /\ HasList(down', k) <=> HasList(down, k)
          /\ LastIs(down', k, lists[k]) <=> LastIs(down, k, lists[k])
          /\ Prompts(down', k) <=> Prompts(down, k)
        BY <2>1, OneMore DEF TypeOK
    <2>3. Asked(k) => Asked(k)'
        BY <1>2, <2>2 DEF OtherWrites, Asked, Wanted, Prompts
    <2>4. Fresh(k) => Fresh(k)'
        BY <1>2, <2>2 DEF OtherWrites, Fresh, HasList, LastIs
    <2> QED
        BY <2>3, <2>4 DEF Underway
<1> QED
    BY <1>1, <1>2

LEMMA UnderwayStep == TypeOK /\ Underway /\ [Next]_vars => Underway'
<1> SUFFICES ASSUME TypeOK, Underway, [Next]_vars PROVE Underway'
    OBVIOUS
<1>1. CASE Register \/ Login \/ AskFriends \/ ChangeList \/ ChatWith \/ EnterGroup \/ Say \/ Back
             \/ Quit
    <2>1. UNCHANGED <<down, receiver, server, lists, shown, foreign>>
        BY <1>1, MainStep
    <2>2. CASE UNCHANGED up
        BY <2>1, <2>2, UnderwayLeft
    <2>3. ASSUME NEW m \in Request, Line(m) PROVE Underway'
        <3>1. up \in Seq(Request) /\ up' = Append(up, m)
            BY <2>3 DEF Line, send_message, TypeOK
        <3>2. \A k \in Kind : Wanted(up, k) => Wanted(up', k)
            BY <3>1, OneMore
        <3> QED
            BY <2>1, <3>2, UnderwayLeft
    <2> QED
        BY <1>1, <2>2, <2>3, MainStep
<1>2. CASE AskAgain
    <2> DEFINE m == Message("list", receiver, NoName)
    <2>1. m \in Request /\ up \in Seq(Request) /\ m.type = "list" /\ m.kind = receiver
        BY <1>2 DEF TypeOK, AskAgain, Message, Request, Name
    <2>2. up' = Append(up, m)
        BY <1>2 DEF AskAgain, send_message
    <2> HIDE DEF m
    <2>3. \A k \in Kind : Wanted(up', k) <=> Wanted(up, k) \/ receiver = k
        BY <2>1, <2>2, OneMore
    <2>4. UNCHANGED <<down, server, lists, shown, foreign>>
        BY <1>2 DEF AskAgain
    <2> QED
        BY <2>3, <2>4 DEF Underway, Asked, Fresh, HasList, LastIs, Prompts
<1>3. CASE UNCHANGED vars
    BY <1>3, UnderwayLeft DEF vars
<1> QED
    BY <1>1, <1>2, <1>3, ReceiveUnderway, ServerUnderway, AnswerUnderway, OthersUnderway DEF Next

LEMMA UnderwayAlways == Spec => []Underway
<1> QED
    BY TypeInit, TypeStep, UnderwayInit, UnderwayStep, PTL DEF Spec

\* For any number of changes, by any number of lines, and sockets of any length:
\* when all is dealt with the client shows the server's lists, but for what
\* another client changed since (receive_messages asks for a list after each
\* answer to a change, and handle_client answers in order).
THEOREM ListsCatchUp == Spec => []ListsCaughtUp
<1>1. Underway => ListsCaughtUp
    <2> SUFFICES ASSUME Underway, Quiet, NEW k \in Kind \ foreign PROVE shown[k] = lists[k]
        BY DEF ListsCaughtUp
    <2>1. ~Asked(k) /\ ~LastIs(server, k, lists[k]) /\ ~LastIs(down, k, lists[k])
        BY EmptySequence DEF Quiet, Asked, Kind
    <2> QED
        BY <2>1 DEF Underway, Fresh
<1> QED
    BY <1>1, UnderwayAlways, PTL
=============================================================================
