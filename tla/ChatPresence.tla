---------------------------- MODULE ChatPresence ----------------------------
(***************************************************************************)
(* Who is on line and what reaches whom: the threads of handle_client      *)
(* (server.c), the list of clients on line and the messages they write to  *)
(* each other's sockets (server_tool.c).                                   *)
(*                                                                         *)
(* A thread serves one connection.  What it does with the files is one     *)
(* step where file_io_mutex is free; what the files say is constant here   *)
(* (ChatStore changes them).  A client logs in once, as client.c does.     *)
(* The sockets are external: a connection has the lowest free descriptor,  *)
(* a write waits while the receiver's buffer is full, and a write to a     *)
(* peer that has gone is lost or, by SIGPIPE, which nothing catches, the   *)
(* end of the server.                                                      *)
(***************************************************************************)
EXTENDS Naturals, Sequences, FiniteSets

CONSTANTS Conn,         \* the connections, each with its thread
          User,
          Friend,       \* the lines of each user's friends file
          Member,       \* the lines of the group's file
          Deaf,         \* the connections whose clients need not read
          NoName, Nobody,
          MaxFd,        \* bound: descriptors for connections
          Cap,          \* bound: messages a socket holds
          MaxRequests   \* bound: requests after logging in

ASSUME PresenceAssumption ==
    /\ Friend \in [User -> SUBSET User] /\ Member \subseteq User /\ Deaf \subseteq Conn
    /\ \A u \in User : u \notin Friend[u]
    /\ NoName \notin User /\ Nobody \notin Conn
    /\ MaxFd \in Nat \ {0} /\ Cap \in Nat \ {0} /\ MaxRequests \in Nat

VARIABLES
    client,     \* the peer of each connection: new, up or left
    fd,         \* the connection's descriptor, 0 if it has none
    name,       \* handle_client's username
    online,     \* online_list, newest first
    file_io_mutex,
    pc,         \* where the thread is: recv, load, find, send, end, gone
    job,        \* what it is doing: the users still to look up, the one found
    unread,     \* how many messages the client's socket holds
    alive,      \* the server process
    requests,
    told,       \* history: the last notice about each user written to it
    freed,      \* what a thread may read in the node it found, once that is freed
    overlap     \* history: users that logged in while still on line

history == <<requests, told, overlap>>
vars == <<client, fd, name, online, file_io_mutex, pc, job, unread, alive, freed, history>>

Work(kind, todo) == [kind |-> kind, todo |-> todo, to |-> 0, for |-> NoName]
Idle == Work("none", {})

Init ==
    /\ client = [c \in Conn |-> "new"] /\ fd = [c \in Conn |-> 0]
    /\ name = [c \in Conn |-> NoName] /\ online = << >> /\ file_io_mutex = Nobody
    /\ pc = [c \in Conn |-> "gone"] /\ job = [c \in Conn |-> Idle]
    /\ unread = [c \in Conn |-> 0] /\ alive = TRUE /\ requests = 0
    /\ told = [c \in Conn |-> [u \in User |-> "none"]]
    /\ freed = [c \in Conn |-> {}] /\ overlap = {}

-----------------------------------------------------------------------------
(* online_list *)

Entry(f, u) == [fd |-> f, user |-> u]
Online(u) == \E k \in DOMAIN online : online[k].user = u

\* The first of some entries of the list, 0 if there is none.
First(hits) == IF hits = {} THEN 0 ELSE CHOOSE k \in hits : \A l \in hits : k <= l

find_online_fd(u) ==
    LET k == First({l \in DOMAIN online : online[l].user = u})
    IN  IF k = 0 THEN 0 ELSE online[k].fd

add_online(f, u) == <<Entry(f, u)>> \o online

Without(k) == SubSeq(online, 1, k - 1) \o SubSeq(online, k + 1, Len(online))

\* A bug to detect: the oldest entry is removed, whoever's it is.
remove_online_Oldest(f) == IF online = << >> THEN online ELSE Without(Len(online))

remove_online(f) ==
    LET k == First({l \in DOMAIN online : online[l].fd = f})
    IN  IF k = 0 THEN online ELSE Without(k)

-----------------------------------------------------------------------------
(* Writing to a descriptor: send_message.                                   *)

Behind(f) == {c \in Conn : fd[c] = f /\ f # 0}

\* A thread that says something to descriptor f; `notice' is the last word about
\* its user.
Write(c, f, notice) ==
    \/ \E r \in Behind(f) :
        /\ client[r] = "up" /\ unread[r] < Cap
        /\ unread' = [unread EXCEPT ![r] = @ + 1]
        /\ told' = IF notice = "none" THEN told ELSE [told EXCEPT ![r][name[c]] = notice]
        /\ UNCHANGED alive
    \/ /\ \A r \in Behind(f) : client[r] = "left"
       /\ UNCHANGED <<unread, told>>
       /\ alive' \in {TRUE, Behind(f) = {}}

Goto(c, to) == pc' = [pc EXCEPT ![c] = to]

-----------------------------------------------------------------------------
(* The requests *)

Free == file_io_mutex = Nobody

\* A request is handled: the files are read, which waits for the mutex.
Start(c, kind, todo, to) ==
    /\ alive /\ pc[c] = "recv" /\ Free
    /\ job' = [job EXCEPT ![c] = Work(kind, todo)]
    /\ Goto(c, to)

\* The client may have left since it sent the request.
Request(c) ==
    /\ client[c] # "new" /\ name[c] # NoName
    /\ requests < MaxRequests /\ requests' = requests + 1

\* authenticate_user and add_online.  A node that was freed may be this one now.
Login(c) ==
    /\ client[c] # "new" /\ name[c] = NoName
    /\ \E u \in User :
        /\ Start(c, "login", Friend[u], "load")
        /\ name' = [name EXCEPT ![c] = u] /\ online' = add_online(fd[c], u)
        /\ overlap' = IF Online(u) THEN overlap \cup {u} ELSE overlap
    /\ freed' = [k \in Conn |-> IF freed[k] = {} THEN {} ELSE freed[k] \cup {fd[c]}]
    /\ UNCHANGED <<client, fd, file_io_mutex, unread, alive, requests, told>>

\* load_friend_list in notify_friend_status.
Load(c) ==
    /\ alive /\ pc[c] = "load" /\ Free /\ Goto(c, "find")
    /\ UNCHANGED <<client, fd, name, online, file_io_mutex, job, unread, alive, freed, history>>

\* Both friends' files have the other.
Chat(c) ==
    /\ Request(c)
    /\ \E u \in Friend[name[c]] : name[c] \in Friend[u] /\ Start(c, "chat", {u}, "find")
    /\ UNCHANGED <<client, fd, name, online, file_io_mutex, unread, alive, freed, told, overlap>>

\* notify_group_members keeps the mutex to its end.
GroupSend(c) ==
    /\ Request(c) /\ name[c] \in Member
    /\ Start(c, "group", Member \ {name[c]}, "find") /\ file_io_mutex' = c
    /\ UNCHANGED <<client, fd, name, online, unread, alive, freed, told, overlap>>

\* A request that is only answered, as the friend list is.
Ask(c) ==
    /\ Request(c) /\ Start(c, "ask", {}, "find")
    /\ UNCHANGED <<client, fd, name, online, file_io_mutex, unread, alive, freed, told, overlap>>

\* A bug to detect: he is taken off the list before his friends are told.
Hangup_RemovesFirst(c) ==
    /\ client[c] = "left" /\ name[c] # NoName
    /\ Start(c, "logout", Friend[name[c]], "find") /\ online' = remove_online(fd[c])
    /\ UNCHANGED <<client, fd, name, file_io_mutex, unread, alive, freed, history>>

\* recv_message fails, the peer has gone, and his friends are to be told.
Hangup(c) ==
    /\ client[c] = "left" /\ name[c] # NoName
    /\ Start(c, "logout", Friend[name[c]], "find")
    /\ UNCHANGED <<client, fd, name, online, file_io_mutex, unread, alive, freed, history>>

\* It fails before a login: there is nobody to tell and no file to read.
HangupNameless(c) ==
    /\ alive /\ pc[c] = "recv" /\ client[c] = "left" /\ name[c] = NoName
    /\ Goto(c, "end")
    /\ UNCHANGED <<client, fd, name, online, file_io_mutex, job, unread, alive, freed, history>>

\* find_online_fd for the next user; the node is read after the lock is gone.
Find(c) ==
    /\ alive /\ pc[c] = "find"
    /\ \E u \in job[c].todo :
        LET f == find_online_fd(u)
            rest == [job[c] EXCEPT !.todo = @ \ {u}]
        IN  IF f = 0
            THEN job' = [job EXCEPT ![c] = rest] /\ UNCHANGED pc
            ELSE job' = [job EXCEPT ![c] = [rest EXCEPT !.to = f, !.for = u]] /\ Goto(c, "send")
    /\ UNCHANGED <<client, fd, name, online, file_io_mutex, unread, alive, freed, history>>

Notice(kind) ==
    CASE kind = "login" -> "online" [] kind = "logout" -> "offline" [] OTHER -> "none"

Send(c) ==
    /\ alive /\ pc[c] = "send"
    /\ \E f \in {job[c].to} \cup freed[c] :
         Write(c, f, IF freed[c] = {} THEN Notice(job[c].kind) ELSE "none")
    /\ freed' = [freed EXCEPT ![c] = {}] /\ Goto(c, "find")
    /\ job' = [job EXCEPT ![c].to = 0, ![c].for = NoName]
    /\ UNCHANGED <<client, fd, name, online, file_io_mutex, requests, overlap>>

Done(c, kinds) == alive /\ pc[c] = "find" /\ job[c].todo = {} /\ job[c].kind \in kinds

Finish(c, to) == Goto(c, to) /\ job' = [job EXCEPT ![c] = Idle]

Answer(c) ==
    /\ Done(c, {"login", "ask"}) /\ Finish(c, "recv")
    /\ Write(c, fd[c], "none")
    /\ UNCHANGED <<client, fd, name, online, file_io_mutex, freed, requests, overlap>>

\* A chat message has no answer.
ChatSent(c) ==
    /\ Done(c, {"chat"}) /\ Finish(c, "recv")
    /\ UNCHANGED <<client, fd, name, online, file_io_mutex, unread, alive, freed, history>>

\* A bug to detect: the mutex is not released.
GroupSent_Locked(c) ==
    /\ Done(c, {"group"}) /\ Finish(c, "recv")
    /\ UNCHANGED <<client, fd, name, online, file_io_mutex, unread, alive, freed, history>>

GroupSent(c) ==
    /\ Done(c, {"group"}) /\ Finish(c, "recv") /\ file_io_mutex' = Nobody
    /\ UNCHANGED <<client, fd, name, online, unread, alive, freed, history>>

\* remove_online: the node is freed, whoever found it.
Remove(c) ==
    /\ Done(c, {"logout"}) /\ Finish(c, "end")
    /\ online' = remove_online(fd[c])
    /\ freed' = [k \in Conn |-> IF pc[k] = "send" /\ job[k].to = fd[c] THEN freed[k] \cup {0}
                                ELSE freed[k]]
    /\ UNCHANGED <<client, fd, name, file_io_mutex, unread, alive, history>>

Close(c) ==
    /\ alive /\ pc[c] = "end" /\ Goto(c, "gone") /\ fd' = [fd EXCEPT ![c] = 0]
    /\ UNCHANGED <<client, name, online, file_io_mutex, job, unread, alive, freed, history>>

-----------------------------------------------------------------------------
(* The clients and accept *)

Accept(c) ==
    /\ alive /\ client[c] = "new" /\ client' = [client EXCEPT ![c] = "up"]
    /\ \E f \in 1..MaxFd :
        /\ Behind(f) = {} /\ \A g \in 1..f - 1 : Behind(g) # {}
        /\ fd' = [fd EXCEPT ![c] = f]
    /\ Goto(c, "recv")
    /\ UNCHANGED <<name, online, file_io_mutex, job, unread, alive, freed, history>>

Read(c) ==
    /\ client[c] = "up" /\ unread[c] > 0
    /\ unread' = [unread EXCEPT ![c] = @ - 1]
    /\ UNCHANGED <<client, fd, name, online, file_io_mutex, pc, job, alive, freed, history>>

Leave(c) ==
    /\ client[c] = "up" /\ client' = [client EXCEPT ![c] = "left"]
    /\ unread' = [unread EXCEPT ![c] = 0]
    /\ UNCHANGED <<fd, name, online, file_io_mutex, pc, job, alive, freed, history>>

Next ==
    \E c \in Conn :
        \/ Login(c) \/ Load(c) \/ Chat(c) \/ GroupSend(c) \/ Ask(c) \/ Hangup(c)
        \/ HangupNameless(c) \/ Find(c) \/ Send(c) \/ Answer(c) \/ ChatSent(c) \/ GroupSent(c)
        \/ Remove(c) \/ Close(c) \/ Accept(c) \/ Read(c) \/ Leave(c)

\* A thread goes on, and a client that is not deaf reads: client.c has a thread
\* for nothing else.
Thread(c) ==
    \/ Load(c) \/ Hangup(c) \/ HangupNameless(c) \/ Find(c) \/ Send(c) \/ Answer(c)
    \/ ChatSent(c) \/ GroupSent(c) \/ Remove(c) \/ Close(c)

Fairness ==
    \A c \in Conn : WF_vars(Thread(c)) /\ WF_vars(c \notin Deaf /\ Read(c))

Spec == Init /\ [][Next]_vars /\ Fairness

-----------------------------------------------------------------------------
(* Properties *)

Listed == [fd : 1..MaxFd, user : User]
Job == [kind : {"none", "login", "logout", "chat", "group", "ask"}, todo : SUBSET User,
        to : 0..MaxFd, for : User \cup {NoName}]

\* Every variable has its type; the mutex is held by a thread that writes to a
\* group, and by no other.
TypeOK ==
    /\ client \in [Conn -> {"new", "up", "left"}] /\ fd \in [Conn -> 0..MaxFd]
    /\ name \in [Conn -> User \cup {NoName}]
    /\ online \in Seq(Listed)
    /\ file_io_mutex \in Conn \cup {Nobody}
    /\ pc \in [Conn -> {"recv", "load", "find", "send", "end", "gone"}]
    /\ job \in [Conn -> Job]
    /\ unread \in [Conn -> 0..Cap] /\ alive \in BOOLEAN /\ requests \in 0..MaxRequests
    /\ freed \in [Conn -> SUBSET (0..MaxFd)] /\ overlap \subseteq User
    /\ told \in [Conn -> [User -> {"none", "online", "offline"}]]
    /\ \A c \in Conn : file_io_mutex = c <=> job[c].kind = "group"

LoggedIn(c) == name[c] # NoName /\ pc[c] \notin {"end", "gone"}

\* The list of who is on line and the threads agree: an entry is some logged in
\* thread's open descriptor under its user's name, and every such thread has
\* exactly one (remove_online takes the first with the descriptor, whatever the
\* name).  A ghost would stand for a descriptor that somebody else gets.
OnlineListed ==
    /\ \A k \in DOMAIN online : \E c \in Conn :
         LoggedIn(c) /\ fd[c] = online[k].fd /\ name[c] = online[k].user
    /\ \A c \in Conn : LoggedIn(c) =>
         \E k \in DOMAIN online : \A l \in DOMAIN online : online[l].fd = fd[c] <=> l = k

\* Whoever is behind the descriptor that a thread is about to write to is the
\* user it looked up, unless that user's node was removed since the look-up:
\* nothing guards the descriptor then, which may be another client's.
RightReceiver ==
    \A c \in Conn : pc[c] = "send" /\ freed[c] = {} =>
        \E r \in Behind(job[c].to) : LoggedIn(r) /\ name[r] = job[c].for

Quiet == alive /\ \A c \in Conn : pc[c] \in {"recv", "gone"} /\ (client[c] = "left" => pc[c] = "gone")

\* When nobody is at work, the last notice a client got about a friend is true,
\* although notices come from the friend's threads, old and new, and only the
\* order `notices, then remove_online' keeps them apart.  (Two logins of one
\* user at a time do confuse them.)
NoticesTrue ==
    Quiet => \A c \in Conn, u \in User \ overlap :
        LoggedIn(c) /\ name[c] \notin overlap /\ told[c][u] # "none" =>
            (told[c][u] = "online" <=> Online(u))

\* Somebody who does not read, and whose buffer is full.
Clogged == \E c \in Deaf : client[c] = "up" /\ unread[c] = Cap

\* Every request is dealt with, although a message to a group is written while
\* file_io_mutex is held, which every request needs: the one thing that stops
\* the server is a client that does not read.
Answered ==
    \A c \in Conn : pc[c] \notin {"recv", "gone"} ~> pc[c] \in {"recv", "gone"} \/ ~alive \/ Clogged
=============================================================================
