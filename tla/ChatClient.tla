----------------------------- MODULE ChatClient -----------------------------
(***************************************************************************)
(* The chat client: its main thread, which reads the user's lines and      *)
(* sends requests, and its receiving thread, which shows what the server   *)
(* sends and asks for a list again after a change (client.c,               *)
(* client_tool.c).  The two share the socket and g_mode.                   *)
(*                                                                         *)
(* The server is the thread of handle_client for this client: it takes the *)
(* requests in order and answers one before it takes the next.  What is in *)
(* its files is abstracted to the client's own two lists; whether a        *)
(* request is refused is a choice (ChatStore has the conditions).          *)
(***************************************************************************)
EXTENDS Naturals, Sequences

CONSTANTS Friend, Group,    \* the names in the two lists
          NoName,
          Cap,              \* bound: messages a direction of the socket holds
          MaxLines,         \* bound: lines that send something
          MaxForeign        \* bound: what comes from other clients

ASSUME ClientAssumption ==
    /\ NoName \notin Friend \cup Group
    /\ Cap \in Nat \ {0} /\ MaxLines \in Nat /\ MaxForeign \in Nat

Kind == {"friends", "groups"}
Names(k) == IF k = "friends" THEN Friend ELSE Group

VARIABLES
    g_mode,         \* 0 main menu, 1 private chat, 2 group chat
    g_target,       \* g_target_private or g_target_group
    main,           \* the main thread: start, menu or left
    up, down,       \* the socket, towards the server and back
    receiver,       \* recv, or the list the receiving thread wants to ask for
    server,         \* recv, or the answer it wants to write
    lists,          \* the client's friends and groups in the server's files
    shown,          \* the lists the client showed last
    login,          \* what the server said of the login: none, ok, refused
    foreign,        \* history: lists another client changed since they were sent
    lines, others

vars == <<g_mode, g_target, main, up, down, receiver, server, lists, shown, login,
          foreign, lines, others>>

Init ==
    /\ g_mode = 0 /\ g_target = NoName /\ main = "start"
    /\ up = << >> /\ down = << >> /\ receiver = "recv" /\ server = << >>
    /\ lists = [k \in Kind |-> {}] /\ shown = [k \in Kind |-> {}]
    /\ login = "none" /\ foreign = {} /\ lines = 0 /\ others = 0

-----------------------------------------------------------------------------
(* The main thread: one step for a line and what is prompted for after it.  *)

Message(type, kind, name) == [type |-> type, kind |-> kind, name |-> name]

\* send_message: it waits while the socket is full.
send_message(m) == Len(up) < Cap /\ up' = Append(up, m)

Line(m) == lines < MaxLines /\ lines' = lines + 1 /\ send_message(m)

Register ==
    /\ main = "start" /\ Line(Message("register", "none", NoName))
    /\ UNCHANGED <<g_mode, g_target, main, down, receiver, server, lists, shown, login,
                   foreign, others>>

\* The request is sent, and the welcome and the menu follow at once.
Login ==
    /\ main = "start" /\ Line(Message("login", "none", NoName)) /\ main' = "menu"
    /\ UNCHANGED <<g_mode, g_target, down, receiver, server, lists, shown, login, foreign,
                   others>>

AtMenu(mode) == main = "menu" /\ g_mode = mode

AskFriends ==
    /\ AtMenu(0) /\ Line(Message("list", "friends", NoName))
    /\ UNCHANGED <<g_mode, g_target, main, down, receiver, server, lists, shown, login,
                   foreign, others>>

\* Adding and removing a friend; creating, joining and leaving a group.
ChangeList ==
    /\ AtMenu(0)
    /\ \E k \in Kind, t \in {"add", "remove"} : \E n \in Names(k) : Line(Message(t, k, n))
    /\ UNCHANGED <<g_mode, g_target, main, down, receiver, server, lists, shown, login,
                   foreign, others>>

ChatWith ==
    /\ AtMenu(0) /\ \E n \in Friend : g_target' = n
    /\ g_mode' = 1
    /\ UNCHANGED <<main, up, down, receiver, server, lists, shown, login, foreign, lines,
                   others>>

\* The group's list is asked for, then the group's name.
EnterGroup ==
    /\ AtMenu(0) /\ Line(Message("list", "groups", NoName))
    /\ \/ \E n \in Group : g_target' = n /\ g_mode' = 2
       \/ UNCHANGED <<g_target, g_mode>>
    /\ UNCHANGED <<main, down, receiver, server, lists, shown, login, foreign, others>>

Say ==
    /\ \/ AtMenu(1) /\ Line(Message("chat", "friends", g_target))
       \/ AtMenu(2) /\ Line(Message("chat", "groups", g_target))
    /\ UNCHANGED <<g_mode, g_target, main, down, receiver, server, lists, shown, login,
                   foreign, others>>

Back ==
    /\ main = "menu" /\ g_mode # 0 /\ g_mode' = 0
    /\ UNCHANGED <<g_target, main, up, down, receiver, server, lists, shown, login, foreign,
                   lines, others>>

\* `9', `3' before the login, or the end of the input.
Quit ==
    /\ main # "left" /\ main' = "left"
    /\ UNCHANGED <<g_mode, g_target, up, down, receiver, server, lists, shown, login, foreign,
                   lines, others>>

-----------------------------------------------------------------------------
(* The receiving thread *)

\* A bug to detect: the list is not asked for after a removal.
Refresh_AddedOnly(m) == IF m.type = "add_resp" THEN m.kind ELSE "recv"

\* A bug to detect: a list is answered with a request for the list.
Refresh_Always(m) == IF m.kind \in Kind THEN m.kind ELSE "recv"

\* The list to ask for after message m.
Refresh(m) == IF m.type \in {"add_resp", "remove_resp"} THEN m.kind ELSE "recv"

Receive ==
    /\ main # "left" /\ receiver = "recv" /\ down # << >> /\ down' = Tail(down)
    /\ LET m == Head(down)
       IN  /\ receiver' = Refresh(m)
           /\ shown' = IF m.type = "list_resp" THEN [shown EXCEPT ![m.kind] = m.name] ELSE shown
    /\ UNCHANGED <<g_mode, g_target, main, up, server, lists, login, foreign, lines, others>>

AskAgain ==
    /\ main # "left" /\ receiver # "recv"
    /\ send_message(Message("list", receiver, NoName)) /\ receiver' = "recv"
    /\ UNCHANGED <<g_mode, g_target, main, down, server, lists, shown, login, foreign, lines,
                   others>>

-----------------------------------------------------------------------------
(* The server *)

Answers(m) == server' = <<m>>

\* A change is made or refused; a chat message is passed on or refused.  A
\* group's refusal is a GROUP_JOIN_RESP, a friend's a CHAT_DELIVER.
Serve(m) ==
    \/ m.type = "register" /\ Answers(Message("resp", "none", NoName)) /\ UNCHANGED <<lists, login>>
    \/ m.type = "login" /\ login' \in {"ok", "refused"}
       /\ Answers(Message("resp", "none", NoName)) /\ UNCHANGED lists
    \/ m.type = "list" /\ Answers(Message("list_resp", m.kind, lists[m.kind]))
       /\ UNCHANGED <<lists, login>>
    \/ m.type = "add" /\ Answers(Message("add_resp", m.kind, NoName)) /\ UNCHANGED login
       /\ (UNCHANGED lists \/ lists' = [lists EXCEPT ![m.kind] = @ \cup {m.name}])
    \/ m.type = "remove" /\ Answers(Message("remove_resp", m.kind, NoName)) /\ UNCHANGED login
       /\ (UNCHANGED lists \/ lists' = [lists EXCEPT ![m.kind] = @ \ {m.name}])
    \/ m.type = "chat" /\ UNCHANGED <<lists, login>>
       /\ (UNCHANGED server \/ Answers(Message(
               IF m.kind = "groups" THEN "add_resp" ELSE "deliver", m.kind, NoName)))

ServerTakes ==
    /\ server = << >> /\ up # << >> /\ up' = Tail(up) /\ Serve(Head(up))
    /\ foreign' = IF Head(up).type = "list" THEN foreign \ {Head(up).kind} ELSE foreign
    /\ UNCHANGED <<g_mode, g_target, main, down, receiver, shown, lines, others>>

ServerAnswers ==
    /\ server # << >> /\ Len(down) < Cap /\ down' = down \o server /\ server' = << >>
    /\ UNCHANGED <<g_mode, g_target, main, up, receiver, lists, shown, login, foreign, lines,
                   others>>

\* Another client's thread writes a message or a notice to this client, or
\* makes or ends a friendship with its user.
OtherWrites ==
    /\ login = "ok" /\ others < MaxForeign /\ others' = others + 1
    /\ Len(down) < Cap /\ down' = Append(down, Message("deliver", "none", NoName))
    /\ UNCHANGED <<g_mode, g_target, main, up, receiver, server, lists, shown, login, foreign,
                   lines>>

OtherChanges ==
    /\ login = "ok" /\ others < MaxForeign /\ others' = others + 1
    /\ \E n \in Friend : lists' = [lists EXCEPT !["friends"] =
                                     IF n \in @ THEN @ \ {n} ELSE @ \cup {n}]
    /\ foreign' = foreign \cup {"friends"}
    /\ UNCHANGED <<g_mode, g_target, main, up, down, receiver, server, shown, login, lines>>

Next ==
    \/ Register \/ Login \/ AskFriends \/ ChangeList \/ ChatWith \/ EnterGroup \/ Say \/ Back
    \/ Quit \/ Receive \/ AskAgain \/ ServerTakes \/ ServerAnswers \/ OtherWrites \/ OtherChanges

\* The receiving thread and the server's thread run; nobody has to type.
Spec ==
    /\ Init /\ [][Next]_vars
    /\ WF_vars(Receive) /\ WF_vars(AskAgain) /\ WF_vars(ServerTakes) /\ WF_vars(ServerAnswers)

-----------------------------------------------------------------------------
(* Properties *)

Quiet == up = << >> /\ down = << >> /\ server = << >> /\ receiver = "recv"

\* When everything sent is dealt with, what the client shows is what the server
\* has, whatever changes it sent one after another and however the answers and
\* the repeated requests for the lists crossed: only what another client changed
\* is not noticed.
ListsCaughtUp == Quiet => \A k \in Kind \ foreign : shown[k] = lists[k]

\* The receiving thread, which sends too, and the server's thread wait for one
\* another, both directions full.
Jammed == receiver # "recv" /\ Len(up) = Cap /\ server # << >> /\ Len(down) = Cap

\* The messages that go round come to rest: no list is answered with a request,
\* and nothing but 2 * Cap + 2 messages on their way stops the two threads.
Settles == []<>(Quiet \/ Jammed \/ main = "left")
=============================================================================
