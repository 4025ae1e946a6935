------------------------- MODULE ChatPresenceProofs -------------------------
(***************************************************************************)
(* Who is on line, for any number of clients, users and descriptors: the   *)
(* list and the threads agree, a message is written to the user it was     *)
(* looked up for unless that user has left since, and when every thread    *)
(* rests the last notice about a user is true.                             *)
(***************************************************************************)
EXTENDS ChatPresence, SequenceTheorems, WellFoundedInduction, TLAPS

-----------------------------------------------------------------------------
(* The list *)

Less == {ss \in Nat \X Nat : ss[1] < ss[2]}

LEMMA LessWellFounded == IsWellFoundedOn(Less, Nat)
BY NatLessThanWellFounded, Zenon DEF OpToRel, Less

LEMMA FirstOfHits ==
    ASSUME NEW hits \in SUBSET Nat, hits # {}
    PROVE  First(hits) \in hits
<1>1. PICK k \in hits : \A l \in hits : <<l, k>> \notin Less
    BY LessWellFounded, WFMin
<1>2. ASSUME NEW l \in hits PROVE k <= l
    <2>1. l < k => <<l, k>> \in Less
        BY DEF Less
    <2> QED
        BY <1>1, <2>1
<1> QED
    BY <1>2 DEF First

\* The list without one entry keeps the others, in their order.
LEMMA WithoutEntry ==
    ASSUME online \in Seq(Listed), NEW k \in DOMAIN online
    PROVE  /\ Without(k) \in Seq(Listed) /\ DOMAIN Without(k) = 1..Len(online) - 1
           /\ \A l \in 1..Len(online) - 1 :
                Without(k)[l] = IF l < k THEN online[l] ELSE online[l + 1]
<1> DEFINE front == SubSeq(online, 1, k - 1)
           back  == SubSeq(online, k + 1, Len(online))
<1>1. k \in 1..Len(online) /\ Len(online) \in Nat
    OBVIOUS
<1>2. /\ front \in Seq(Listed) /\ Len(front) = k - 1
      /\ \A l \in 1..k - 1 : front[l] = online[l]
    BY <1>1, SubSeqProperties
<1>3. /\ back \in Seq(Listed) /\ Len(back) = Len(online) - k
      /\ \A l \in 1..Len(online) - k : back[l] = online[k + l]
    BY <1>1, SubSeqProperties
<1> HIDE DEF front, back
<1>4. front \o back \in Seq(Listed) /\ Len(front \o back) = Len(online) - 1
    BY <1>1, <1>2, <1>3
<1>5. \A l \in 1..Len(online) - 1 :
        (front \o back)[l] = IF l < k THEN online[l] ELSE online[l + 1]
    BY <1>1, <1>2, <1>3
<1> QED
    <2>1. DOMAIN (front \o back) = 1..Len(online) - 1
        BY <1>4
    <2> QED
        BY <1>4, <1>5, <2>1 DEF Without, front, back

LEMMA RemovedEntry ==
    ASSUME online \in Seq(Listed), NEW f
    PROVE  \/ remove_online(f) = online /\ \A k \in DOMAIN online : online[k].fd # f
           \/ \E k \in DOMAIN online : online[k].fd = f /\ remove_online(f) = Without(k)
<1> DEFINE hits == {l \in DOMAIN online : online[l].fd = f}
<1>1. hits \in SUBSET Nat /\ 0 \notin hits
    OBVIOUS
<1>2. CASE hits = {}
    BY <1>2 DEF remove_online, First
<1>3. CASE hits # {}
    <2>1. First(hits) \in hits
        BY <1>1, <1>3, FirstOfHits
    <2> QED
        BY <1>1, <2>1 DEF remove_online
<1> QED
    BY <1>2, <1>3

LEMMA FoundEntry ==
    ASSUME online \in Seq(Listed), NEW u, find_online_fd(u) # 0
    PROVE  \E k \in DOMAIN online : online[k].user = u /\ online[k].fd = find_online_fd(u)
<1> DEFINE hits == {l \in DOMAIN online : online[l].user = u}
<1>1. hits \in SUBSET Nat /\ 0 \notin hits
    OBVIOUS
<1>2. hits # {}
    BY DEF find_online_fd, First
<1>3. First(hits) \in hits
    BY <1>1, <1>2, FirstOfHits
<1> QED
    BY <1>1, <1>3 DEF find_online_fd

LEMMA FdTyped ==
    ASSUME online \in Seq(Listed), NEW u
    PROVE  find_online_fd(u) \in 0..MaxFd
<1>1. CASE find_online_fd(u) = 0
    BY <1>1, PresenceAssumption
<1>2. CASE find_online_fd(u) # 0
    <2>1. PICK k \in DOMAIN online : online[k].fd = find_online_fd(u)
        BY <1>2, FoundEntry
    <2>2. online[k] \in Listed
        OBVIOUS
    <2> QED
        BY <2>1, <2>2, PresenceAssumption DEF Listed
<1> QED
    BY <1>1, <1>2

-----------------------------------------------------------------------------
(* Types *)

Kind == {"none", "login", "logout", "chat", "group", "ask"}
Place == {"recv", "load", "find", "send", "end", "gone"}

LEMMA StartTyped ==
    ASSUME TypeOK, NEW c \in Conn, NEW kind \in Kind, NEW todo \in SUBSET User,
           NEW to \in Place, Start(c, kind, todo, to)
    PROVE  /\ pc' \in [Conn -> Place] /\ job' \in [Conn -> Job]
           /\ file_io_mutex = Nobody /\ job'[c].kind = kind
           /\ \A d \in Conn \ {c} : job'[d].kind = job[d].kind
<1>1. Work(kind, todo) \in Job /\ Work(kind, todo).kind = kind
    BY PresenceAssumption DEF Work, Job, Kind
<1> QED
    BY <1>1 DEF TypeOK, Start, Goto, Free, Place

LEMMA WriteTyped ==
    ASSUME TypeOK, NEW c \in Conn, NEW f, NEW notice \in {"none", "online", "offline"},
           Write(c, f, notice)
    PROVE  /\ unread' \in [Conn -> 0..Cap] /\ alive' \in BOOLEAN
           /\ told' \in [Conn -> [User -> {"none", "online", "offline"}]]
<1>1. ASSUME NEW r \in Behind(f), unread[r] < Cap, unread' = [unread EXCEPT ![r] = @ + 1],
             told' = IF notice = "none" THEN told ELSE [told EXCEPT ![r][name[c]] = notice],
             UNCHANGED alive
      PROVE  /\ unread' \in [Conn -> 0..Cap] /\ alive' \in BOOLEAN
             /\ told' \in [Conn -> [User -> {"none", "online", "offline"}]]
    <2>1. r \in Conn
        BY DEF Behind
    <2>2. unread[r] + 1 \in 0..Cap /\ unread \in [Conn -> 0..Cap]
        BY <1>1, <2>1, PresenceAssumption DEF TypeOK
    <2>3. unread' \in [Conn -> 0..Cap]
        BY <1>1, <2>2
    <2>4. told' \in [Conn -> [User -> {"none", "online", "offline"}]]
        <3>1. told \in [Conn -> [User -> {"none", "online", "offline"}]]
            BY DEF TypeOK
        <3>2. [told[r] EXCEPT ![name[c]] = notice] \in [User -> {"none", "online", "offline"}]
            BY <2>1, <3>1
        <3>3. CASE notice = "none"
            BY <1>1, <3>1, <3>3
        <3>4. CASE notice # "none"
            <4>1. told' = [told EXCEPT ![r] = [told[r] EXCEPT ![name[c]] = notice]]
                BY <1>1, <3>4
            <4> QED
                BY <3>1, <3>2, <4>1
        <3> QED
            BY <3>3, <3>4
    <2>5. alive' \in BOOLEAN
        BY <1>1 DEF TypeOK
    <2> QED
        BY <2>3, <2>4, <2>5
<1>2. CASE UNCHANGED <<unread, told>> /\ alive' \in {TRUE, Behind(f) = {}}
    BY <1>2 DEF TypeOK
<1> QED
    BY <1>1, <1>2 DEF Write

LEMMA IdleJob == Idle \in Job /\ Idle.kind = "none"
BY PresenceAssumption DEF Idle, Work, Job

LEMMA FinishTyped ==
    ASSUME TypeOK, NEW c \in Conn, NEW to \in Place, Finish(c, to)
    PROVE  /\ pc' \in [Conn -> Place] /\ job' \in [Conn -> Job]
           /\ job'[c].kind = "none" /\ \A d \in Conn \ {c} : job'[d].kind = job[d].kind
BY IdleJob DEF TypeOK, Finish, Goto, Place

LEMMA OnlineTyped ==
    ASSUME TypeOK
    PROVE  /\ \A f \in 1..MaxFd, u \in User : add_online(f, u) \in Seq(Listed)
           /\ \A f : remove_online(f) \in Seq(Listed)
<1>1. ASSUME NEW f \in 1..MaxFd, NEW u \in User PROVE add_online(f, u) \in Seq(Listed)
    <2>1. Entry(f, u) \in Listed
        BY DEF Entry, Listed
    <2> QED
        BY <2>1 DEF add_online, TypeOK
<1>2. ASSUME NEW f PROVE remove_online(f) \in Seq(Listed)
    <2>1. online \in Seq(Listed)
        BY DEF TypeOK
    <2>2. CASE remove_online(f) = online
        BY <2>1, <2>2
    <2>3. ASSUME NEW k \in DOMAIN online, remove_online(f) = Without(k)
          PROVE  remove_online(f) \in Seq(Listed)
        BY <2>1, <2>3, WithoutEntry
    <2> QED
        BY <2>1, <2>2, <2>3, RemovedEntry
<1> QED
    BY <1>1, <1>2

\* A thread that has a connection has a descriptor, and no two have the same.
OwnDescriptor ==
    /\ \A c \in Conn : fd[c] = 0 <=> pc[c] = "gone"
    /\ \A c, d \in Conn : c # d /\ fd[c] = fd[d] => fd[c] = 0

Sound == TypeOK /\ OwnDescriptor

\* What a step that opens or closes no connection must show.
LEMMA SoundStep ==
    ASSUME Sound, NEW c \in Conn,
           client' \in [Conn -> {"new", "up", "left"}], UNCHANGED fd,
           name' \in [Conn -> User \cup {NoName}], online' \in Seq(Listed),
           file_io_mutex' \in Conn \cup {Nobody},
           pc' \in [Conn -> Place], pc'[c] = "gone" <=> pc[c] = "gone",
           \A d \in Conn \ {c} : pc'[d] = pc[d],
           job' \in [Conn -> Job], \A d \in Conn : file_io_mutex' = d <=> job'[d].kind = "group",
           unread' \in [Conn -> 0..Cap], alive' \in BOOLEAN, requests' \in 0..MaxRequests,
           freed' \in [Conn -> SUBSET (0..MaxFd)], overlap' \subseteq User,
           told' \in [Conn -> [User -> {"none", "online", "offline"}]]
    PROVE  Sound'
<1>1. TypeOK'
    BY DEF Sound, TypeOK, Place
<1>2. OwnDescriptor'
    BY DEF Sound, OwnDescriptor
<1> QED
    BY <1>1, <1>2 DEF Sound

\* The requests that read the files, and the end of a connection.
LEMMA RequestSound ==
    ASSUME Sound, NEW c \in Conn,
           \/ Login(c) \/ Load(c) \/ Chat(c) \/ GroupSend(c) \/ Ask(c)
           \/ Hangup(c) \/ HangupNameless(c)
    PROVE  Sound'
<1>1. TypeOK /\ OwnDescriptor
    BY DEF Sound
<1>2. ASSUME NEW kind \in Kind, NEW todo \in SUBSET User, Start(c, kind, todo, "find")
      PROVE  /\ pc' \in [Conn -> Place] /\ pc'[c] # "gone" /\ pc[c] # "gone"
             /\ \A d \in Conn \ {c} : pc'[d] = pc[d]
             /\ job' \in [Conn -> Job] /\ job'[c].kind = kind /\ file_io_mutex = Nobody
             /\ \A d \in Conn \ {c} : job'[d].kind # "group"
    <2>1. /\ pc' \in [Conn -> Place] /\ job' \in [Conn -> Job]
          /\ file_io_mutex = Nobody /\ job'[c].kind = kind
          /\ \A d \in Conn \ {c} : job'[d].kind = job[d].kind
        BY <1>1, <1>2, StartTyped DEF Place
    <2>2. \A d \in Conn \ {c} : job'[d].kind # "group"
        BY <1>1, <2>1, PresenceAssumption DEF TypeOK
    <2>3. pc[c] = "recv" /\ pc' = [pc EXCEPT ![c] = "find"]
        BY <1>2 DEF Start, Goto
    <2> QED
        BY <1>1, <2>1, <2>2, <2>3 DEF TypeOK
<1>3. CASE Login(c)
    <2>1. PICK u \in User :
            /\ Start(c, "login", Friend[u], "load")
            /\ name' = [name EXCEPT ![c] = u] /\ online' = add_online(fd[c], u)
            /\ overlap' = IF Online(u) THEN overlap \cup {u} ELSE overlap
        BY <1>3 DEF Login
    <2>2. /\ pc' \in [Conn -> Place] /\ job' \in [Conn -> Job]
          /\ file_io_mutex = Nobody /\ job'[c].kind = "login"
          /\ \A d \in Conn \ {c} : job'[d].kind = job[d].kind
        BY <1>1, <2>1, StartTyped, PresenceAssumption DEF Place, Kind
    <2>3. pc[c] = "recv" /\ pc' = [pc EXCEPT ![c] = "load"]
        BY <2>1 DEF Start, Goto
    <2>4. fd[c] \in 1..MaxFd
        BY <1>1, <2>3, PresenceAssumption DEF TypeOK, OwnDescriptor
    <2>5. online' \in Seq(Listed)
        BY <1>1, <2>1, <2>4, OnlineTyped
    <2>6. freed' \in [Conn -> SUBSET (0..MaxFd)]
        BY <1>1, <1>3, <2>4 DEF Login, TypeOK
    <2>7. \A d \in Conn : file_io_mutex' = d <=> job'[d].kind = "group"
        BY <1>1, <1>3, <2>2, PresenceAssumption DEF Login, TypeOK
    <2>8. name' \in [Conn -> User \cup {NoName}] /\ overlap' \subseteq User
        BY <1>1, <2>1 DEF TypeOK
    <2>9. pc'[c] # "gone" /\ pc[c] # "gone" /\ \A d \in Conn \ {c} : pc'[d] = pc[d]
        BY <1>1, <2>3 DEF TypeOK
    <2> QED
        BY <1>1, <1>3, <2>2, <2>5, <2>6, <2>7, <2>8, <2>9, SoundStep DEF Login, TypeOK
<1>4. CASE Load(c)
    <2>1. pc[c] = "load" /\ pc' = [pc EXCEPT ![c] = "find"]
        BY <1>4 DEF Load, Goto
    <2>2. pc' \in [Conn -> Place] /\ pc'[c] # "gone" /\ \A d \in Conn \ {c} : pc'[d] = pc[d]
        BY <1>1, <2>1 DEF TypeOK, Place
    <2> QED
        BY <1>1, <1>4, <2>1, <2>2, SoundStep DEF Load, TypeOK, history
<1>5. CASE Chat(c)
    <2>1. \E u \in User : Start(c, "chat", {u}, "find")
        BY <1>1, <1>5, PresenceAssumption DEF Chat, Request, TypeOK
    <2>2. requests' \in 0..MaxRequests
        BY <1>1, <1>5, PresenceAssumption DEF Chat, Request, TypeOK
    <2>3. \A d \in Conn : file_io_mutex' = d <=> job'[d].kind = "group"
        BY <1>2, <1>5, <2>1, PresenceAssumption DEF Chat, Kind
    <2>4. /\ pc' \in [Conn -> Place] /\ pc'[c] # "gone" /\ pc[c] # "gone"
          /\ job' \in [Conn -> Job] /\ \A d \in Conn \ {c} : pc'[d] = pc[d]
        BY <1>2, <2>1 DEF Kind
    <2>6. UNCHANGED <<client, fd, name, online, unread, alive, freed, told, overlap>>
        BY <1>5 DEF Chat
    <2>7. file_io_mutex' \in Conn \cup {Nobody}
        BY <1>1, <1>5 DEF Chat, TypeOK
    <2> QED
        BY <1>1, <2>2, <2>3, <2>4, <2>6, <2>7, SoundStep DEF TypeOK
<1>6. CASE GroupSend(c)
    <2>1. Start(c, "group", Member \ {name[c]}, "find") /\ file_io_mutex' = c
        BY <1>6 DEF GroupSend
    <2>2. requests' \in 0..MaxRequests
        BY <1>1, <1>6, PresenceAssumption DEF GroupSend, Request, TypeOK
    <2>3. Member \ {name[c]} \in SUBSET User
        BY PresenceAssumption
    <2>4. \A d \in Conn : file_io_mutex' = d <=> job'[d].kind = "group"
        BY <1>2, <2>1, <2>3 DEF Kind
    <2>5. /\ pc' \in [Conn -> Place] /\ pc'[c] # "gone" /\ pc[c] # "gone"
          /\ job' \in [Conn -> Job] /\ \A d \in Conn \ {c} : pc'[d] = pc[d]
        BY <1>2, <2>1, <2>3 DEF Kind
    <2>6. UNCHANGED <<client, fd, name, online, unread, alive, freed, told, overlap>>
        BY <1>6 DEF GroupSend
    <2>7. file_io_mutex' \in Conn \cup {Nobody}
        BY <1>1, <1>6 DEF GroupSend, TypeOK
    <2> QED
        BY <1>1, <2>2, <2>4, <2>5, <2>6, <2>7, SoundStep DEF TypeOK
<1>7. CASE Ask(c)
    <2>1. Start(c, "ask", {}, "find")
        BY <1>7 DEF Ask
    <2>2. requests' \in 0..MaxRequests
        BY <1>1, <1>7, PresenceAssumption DEF Ask, Request, TypeOK
    <2>3. \A d \in Conn : file_io_mutex' = d <=> job'[d].kind = "group"
        BY <1>2, <1>7, <2>1, PresenceAssumption DEF Ask, Kind
    <2>4. /\ pc' \in [Conn -> Place] /\ pc'[c] # "gone" /\ pc[c] # "gone"
          /\ job' \in [Conn -> Job] /\ \A d \in Conn \ {c} : pc'[d] = pc[d]
        BY <1>2, <2>1 DEF Kind
    <2>6. UNCHANGED <<client, fd, name, online, unread, alive, freed, told, overlap>>
        BY <1>7 DEF Ask
    <2>7. file_io_mutex' \in Conn \cup {Nobody}
        BY <1>1, <1>7 DEF Ask, TypeOK
    <2> QED
        BY <1>1, <2>2, <2>3, <2>4, <2>6, <2>7, SoundStep DEF TypeOK
<1>8. CASE Hangup(c)
    <2> DEFINE todo == Friend[name[c]]
    <2>1. Start(c, "logout", todo, "find")
        BY <1>8 DEF Hangup
    <2>2. todo \in SUBSET User
        BY <1>1, <1>8, PresenceAssumption DEF Hangup, TypeOK
    <2> HIDE DEF todo
    <2>3. \A d \in Conn : file_io_mutex' = d <=> job'[d].kind = "group"
        BY <1>2, <1>8, <2>1, <2>2, PresenceAssumption DEF Hangup, Kind
    <2> QED
        BY <1>1, <1>2, <1>8, <2>1, <2>2, <2>3, SoundStep DEF Hangup, TypeOK, Kind, history
<1>9. CASE HangupNameless(c)
    <2>1. pc[c] = "recv" /\ pc' = [pc EXCEPT ![c] = "end"]
        BY <1>9 DEF HangupNameless, Goto
    <2>2. pc' \in [Conn -> Place] /\ pc'[c] # "gone" /\ \A d \in Conn \ {c} : pc'[d] = pc[d]
        BY <1>1, <2>1 DEF TypeOK, Place
    <2> QED
        BY <1>1, <1>9, <2>1, <2>2, SoundStep DEF HangupNameless, TypeOK, history
<1> QED
    BY <1>3, <1>4, <1>5, <1>6, <1>7, <1>8, <1>9

\* The work of a thread on a request.
LEMMA WorkSound ==
    ASSUME Sound, NEW c \in Conn,
           Find(c) \/ Send(c) \/ Answer(c) \/ ChatSent(c) \/ GroupSent(c) \/ Remove(c)
    PROVE  Sound'
<1>1. TypeOK /\ OwnDescriptor
    BY DEF Sound
<1>2. ASSUME NEW to \in {"recv", "end"}, Finish(c, to), pc[c] = "find"
      PROVE  /\ pc' \in [Conn -> Place] /\ pc'[c] # "gone" /\ pc[c] # "gone"
             /\ \A d \in Conn \ {c} : pc'[d] = pc[d]
             /\ job' \in [Conn -> Job] /\ job'[c].kind = "none"
             /\ \A d \in Conn \ {c} : job'[d].kind = job[d].kind
    <2>1. /\ pc' \in [Conn -> Place] /\ job' \in [Conn -> Job] /\ job'[c].kind = "none"
          /\ \A d \in Conn \ {c} : job'[d].kind = job[d].kind
        BY <1>1, <1>2, FinishTyped DEF Place
    <2>2. pc' = [pc EXCEPT ![c] = to]
        BY <1>2 DEF Finish, Goto
    <2> QED
        BY <1>1, <1>2, <2>1, <2>2 DEF TypeOK
<1>3. CASE Find(c)
    <2>1. PICK u \in job[c].todo :
            LET f == find_online_fd(u)
                rest == [job[c] EXCEPT !.todo = @ \ {u}]
            IN  IF f = 0
                THEN job' = [job EXCEPT ![c] = rest] /\ UNCHANGED pc
                ELSE job' = [job EXCEPT ![c] = [rest EXCEPT !.to = f, !.for = u]] /\ Goto(c, "send")
        BY <1>3 DEF Find
    <2> DEFINE f == find_online_fd(u)
               rest == [job[c] EXCEPT !.todo = @ \ {u}]
    <2>2. f \in 0..MaxFd
        BY <1>1, FdTyped DEF TypeOK
    <2>3. job[c] \in Job /\ u \in User /\ pc[c] = "find"
        BY <1>1, <1>3 DEF TypeOK, Job, Find
    <2>4. rest \in Job /\ rest.kind = job[c].kind
        BY <2>3 DEF Job
    <2>5. [rest EXCEPT !.to = f, !.for = u] \in Job /\ [rest EXCEPT !.to = f, !.for = u].kind = job[c].kind
        <3> HIDE DEF f, rest
        <3> QED
            BY <2>2, <2>3, <2>4 DEF Job
    <2>6. \/ job' = [job EXCEPT ![c] = rest] /\ UNCHANGED pc
          \/ job' = [job EXCEPT ![c] = [rest EXCEPT !.to = f, !.for = u]] /\ pc' = [pc EXCEPT ![c] = "send"]
        BY <2>1 DEF Goto
    <2> HIDE DEF f, rest
    <2>7. job' \in [Conn -> Job] /\ \A d \in Conn : job'[d].kind = job[d].kind
        <3>1. job \in [Conn -> Job]
            BY <1>1 DEF TypeOK
        <3> QED
            BY <2>4, <2>5, <2>6, <3>1
    <2>8. /\ pc' \in [Conn -> Place] /\ pc'[c] # "gone" /\ pc[c] # "gone"
          /\ \A d \in Conn \ {c} : pc'[d] = pc[d]
        BY <1>1, <2>3, <2>6 DEF TypeOK, Place
    <2>9. UNCHANGED <<client, fd, name, online, file_io_mutex, unread, alive, freed,
                      requests, told, overlap>>
        BY <1>3 DEF Find, history
    <2>10. /\ client' \in [Conn -> {"new", "up", "left"}] /\ online' \in Seq(Listed)
           /\ name' \in [Conn -> User \cup {NoName}] /\ file_io_mutex' \in Conn \cup {Nobody}
           /\ requests' \in 0..MaxRequests /\ overlap' \subseteq User
        BY <1>1, <2>9 DEF TypeOK
    <2>11. /\ unread' \in [Conn -> 0..Cap] /\ alive' \in BOOLEAN
           /\ freed' \in [Conn -> SUBSET (0..MaxFd)]
           /\ told' \in [Conn -> [User -> {"none", "online", "offline"}]]
        BY <1>1, <2>9 DEF TypeOK
    <2>12. \A d \in Conn : file_io_mutex' = d <=> job'[d].kind = "group"
        BY <1>1, <2>7, <2>9 DEF TypeOK
    <2> QED
        BY <2>7, <2>8, <2>9, <2>10, <2>11, <2>12, SoundStep
<1>4. CASE Send(c)
    <2>1. PICK f : Write(c, f, IF freed[c] = {} THEN Notice(job[c].kind) ELSE "none")
        BY <1>4 DEF Send
    <2>2. (IF freed[c] = {} THEN Notice(job[c].kind) ELSE "none") \in {"none", "online", "offline"}
        BY DEF Notice
    <2>3. /\ unread' \in [Conn -> 0..Cap] /\ alive' \in BOOLEAN
          /\ told' \in [Conn -> [User -> {"none", "online", "offline"}]]
        BY <1>1, <2>1, <2>2, WriteTyped
    <2>4. pc[c] = "send" /\ pc' = [pc EXCEPT ![c] = "find"]
        BY <1>4 DEF Send, Goto
    <2>5. /\ pc' \in [Conn -> Place] /\ pc'[c] # "gone" /\ \A d \in Conn \ {c} : pc'[d] = pc[d]
        BY <1>1, <2>4 DEF TypeOK, Place
    <2>6. job' = [job EXCEPT ![c] = [job[c] EXCEPT !.to = 0, !.for = NoName]]
        BY <1>1, <1>4 DEF Send, TypeOK
    <2>7. /\ [job[c] EXCEPT !.to = 0, !.for = NoName] \in Job
          /\ [job[c] EXCEPT !.to = 0, !.for = NoName].kind = job[c].kind
        <3>1. job[c] \in Job /\ 0 \in 0..MaxFd /\ NoName \in User \cup {NoName}
            BY <1>1, PresenceAssumption DEF TypeOK
        <3> QED
            BY <3>1 DEF Job
    <2>8. job' \in [Conn -> Job] /\ \A d \in Conn : job'[d].kind = job[d].kind
        BY <1>1, <2>6, <2>7 DEF TypeOK
    <2>9. freed' \in [Conn -> SUBSET (0..MaxFd)]
        BY <1>1, <1>4 DEF Send, TypeOK
    <2>10. UNCHANGED <<client, fd, name, online, file_io_mutex, requests, overlap>>
        BY <1>4 DEF Send
    <2>11. \A d \in Conn : file_io_mutex' = d <=> job'[d].kind = "group"
        BY <1>1, <2>8, <2>10 DEF TypeOK
    <2>12. /\ client' \in [Conn -> {"new", "up", "left"}] /\ online' \in Seq(Listed)
           /\ name' \in [Conn -> User \cup {NoName}] /\ file_io_mutex' \in Conn \cup {Nobody}
           /\ requests' \in 0..MaxRequests /\ overlap' \subseteq User
        BY <1>1, <2>10 DEF TypeOK
    <2> QED
        BY <2>3, <2>4, <2>5, <2>8, <2>9, <2>10, <2>11, <2>12, SoundStep
<1>5. CASE Answer(c)
    <2>1. /\ unread' \in [Conn -> 0..Cap] /\ alive' \in BOOLEAN
          /\ told' \in [Conn -> [User -> {"none", "online", "offline"}]]
        BY <1>1, <1>5, WriteTyped DEF Answer
    <2>2. Finish(c, "recv") /\ pc[c] = "find" /\ job[c].kind # "group"
        BY <1>5 DEF Answer, Done
    <2>3. UNCHANGED <<client, fd, name, online, file_io_mutex, freed, requests, overlap>>
        BY <1>5 DEF Answer
    <2>4. \A d \in Conn : file_io_mutex' = d <=> job'[d].kind = "group"
        BY <1>1, <1>2, <2>2, <2>3 DEF TypeOK
    <2> QED
        BY <1>1, <1>2, <2>1, <2>2, <2>3, <2>4, SoundStep DEF TypeOK
<1>6. CASE ChatSent(c)
    <2>1. Finish(c, "recv") /\ pc[c] = "find" /\ job[c].kind # "group"
        BY <1>6 DEF ChatSent, Done
    <2>2. UNCHANGED <<client, fd, name, online, file_io_mutex, unread, alive, freed,
                      requests, told, overlap>>
        BY <1>6 DEF ChatSent, history
    <2>3. \A d \in Conn : file_io_mutex' = d <=> job'[d].kind = "group"
        BY <1>1, <1>2, <2>1, <2>2 DEF TypeOK
    <2> QED
        BY <1>1, <1>2, <2>1, <2>2, <2>3, SoundStep DEF TypeOK
<1>7. CASE GroupSent(c)
    <2>1. Finish(c, "recv") /\ pc[c] = "find" /\ job[c].kind = "group" /\ file_io_mutex' = Nobody
        BY <1>7 DEF GroupSent, Done
    <2>2. UNCHANGED <<client, fd, name, online, unread, alive, freed, requests, told, overlap>>
        BY <1>7 DEF GroupSent, history
    <2>3. \A d \in Conn : file_io_mutex' = d <=> job'[d].kind = "group"
        BY <1>1, <1>2, <2>1, PresenceAssumption DEF TypeOK
    <2> QED
        BY <1>1, <1>2, <2>1, <2>2, <2>3, SoundStep DEF TypeOK
<1>8. CASE Remove(c)
    <2>1. Finish(c, "end") /\ pc[c] = "find" /\ job[c].kind # "group"
        BY <1>8 DEF Remove, Done
    <2>2. UNCHANGED <<client, fd, name, file_io_mutex, unread, alive, requests, told, overlap>>
        BY <1>8 DEF Remove, history
    <2>3. \A d \in Conn : file_io_mutex' = d <=> job'[d].kind = "group"
        BY <1>1, <1>2, <2>1, <2>2 DEF TypeOK
    <2>4. online' \in Seq(Listed)
        BY <1>1, <1>8, OnlineTyped DEF Remove, TypeOK
    <2>5. freed' \in [Conn -> SUBSET (0..MaxFd)]
        BY <1>1, <1>8, PresenceAssumption DEF Remove, TypeOK
    <2> QED
        BY <1>1, <1>2, <2>1, <2>2, <2>3, <2>4, <2>5, SoundStep DEF TypeOK
<1> QED
    BY <1>3, <1>4, <1>5, <1>6, <1>7, <1>8

\* Connections that come and go, and clients that read.
LEMMA ConnectionSound ==
    ASSUME Sound, NEW c \in Conn, Accept(c) \/ Close(c) \/ Read(c) \/ Leave(c)
    PROVE  Sound'
<1>1. TypeOK /\ OwnDescriptor
    BY DEF Sound
<1>2. CASE Accept(c)
    <2>1. PICK f \in 1..MaxFd : Behind(f) = {} /\ fd' = [fd EXCEPT ![c] = f]
        BY <1>2 DEF Accept
    <2>2. pc' = [pc EXCEPT ![c] = "recv"] /\ client' = [client EXCEPT ![c] = "up"]
        BY <1>2 DEF Accept, Goto
    <2>3. UNCHANGED <<name, online, file_io_mutex, job, unread, alive, freed,
                      requests, told, overlap>>
        BY <1>2 DEF Accept, history
    <2>4. fd' \in [Conn -> 0..MaxFd]
        BY <1>1, <2>1 DEF TypeOK
    <2>5. TypeOK'
        BY <1>1, <2>2, <2>3, <2>4 DEF TypeOK
    <2>6. \A d \in Conn : fd[d] # f
        BY <2>1, PresenceAssumption DEF Behind
    <2>7. OwnDescriptor'
        BY <1>1, <2>1, <2>2, <2>6, PresenceAssumption DEF OwnDescriptor, TypeOK
    <2> QED
        BY <2>5, <2>7 DEF Sound
<1>3. CASE Close(c)
    <2>1. pc' = [pc EXCEPT ![c] = "gone"] /\ fd' = [fd EXCEPT ![c] = 0]
        BY <1>3 DEF Close, Goto
    <2>2. UNCHANGED <<client, name, online, file_io_mutex, job, unread, alive, freed,
                      requests, told, overlap>>
        BY <1>3 DEF Close, history
    <2>3. TypeOK'
        BY <1>1, <2>1, <2>2, PresenceAssumption DEF TypeOK
    <2>4. OwnDescriptor'
        BY <1>1, <2>1 DEF OwnDescriptor, TypeOK
    <2> QED
        BY <2>3, <2>4 DEF Sound
<1>4. CASE Read(c)
    <2>1. unread' \in [Conn -> 0..Cap]
        BY <1>1, <1>4, PresenceAssumption DEF Read, TypeOK
    <2> QED
        BY <1>1, <1>4, <2>1 DEF Read, Sound, TypeOK, OwnDescriptor, history
<1>5. CASE Leave(c)
    <2>1. unread' \in [Conn -> 0..Cap] /\ client' \in [Conn -> {"new", "up", "left"}]
        BY <1>1, <1>5, PresenceAssumption DEF Leave, TypeOK
    <2> QED
        BY <1>1, <1>5, <2>1 DEF Leave, Sound, TypeOK, OwnDescriptor, history
<1> QED
    BY <1>2, <1>3, <1>4, <1>5

LEMMA SoundAlways == Spec => []Sound
<1>1. Init => Sound
    <2> SUFFICES ASSUME Init PROVE Sound
        OBVIOUS
    <2>1. 0 \in 0..MaxFd /\ 0 \in 0..Cap /\ 0 \in 0..MaxRequests /\ << >> \in Seq(Listed)
        BY PresenceAssumption
    <2>2. \A c \in Conn : job[c].kind # "group" /\ file_io_mutex # c
        BY IdleJob, PresenceAssumption DEF Init
    <2>3. TypeOK
        BY <2>1, <2>2, IdleJob DEF Init, TypeOK
    <2>4. OwnDescriptor
        BY DEF Init, OwnDescriptor
    <2> QED
        BY <2>3, <2>4 DEF Sound
<1>2. Sound /\ [Next]_vars => Sound'
    <2> SUFFICES ASSUME Sound, [Next]_vars PROVE Sound'
        OBVIOUS
    <2>1. CASE Next
        BY <2>1, RequestSound, WorkSound, ConnectionSound DEF Next
    <2>2. CASE UNCHANGED vars
        BY <2>2 DEF vars, history, Sound, TypeOK, OwnDescriptor
    <2> QED
        BY <2>1, <2>2
<1> QED
    BY <1>1, <1>2, PTL DEF Spec

-----------------------------------------------------------------------------
(* The list and the threads agree *)

\* A connection that was never accepted has no user.
Fresh == \A c \in Conn : client[c] = "new" => name[c] = NoName /\ pc[c] = "gone"

IInv == OnlineListed /\ RightReceiver /\ Fresh

\* Steps that change no descriptor, no name and no entry, and that log nobody out.
LEMMA SameLoggedIn ==
    ASSUME Sound, IInv, NEW c \in Conn, UNCHANGED <<fd, name, online>>,
           \A d \in Conn : client'[d] = "new" => client[d] = "new",
           \A d \in Conn \ {c} : pc'[d] = pc[d] /\ job'[d] = job[d],
           pc'[c] \in {"end", "gone"} <=> pc[c] \in {"end", "gone"},
           pc'[c] = "gone" <=> pc[c] = "gone",
           freed' = [freed EXCEPT ![c] = {}] \/ UNCHANGED freed,
           pc'[c] = "send" => \E k \in DOMAIN online : online[k].fd = job'[c].to
                                                     /\ online[k].user = job'[c].for
    PROVE  IInv'
<1>1. \A d \in Conn : LoggedIn(d)' <=> LoggedIn(d)
    BY DEF LoggedIn
<1>2. OnlineListed'
    BY <1>1 DEF IInv, OnlineListed
<1>3. \A f : Behind(f)' = Behind(f)
    BY DEF Behind
<1>4. RightReceiver'
    <2> SUFFICES ASSUME NEW d \in Conn, pc'[d] = "send", freed'[d] = {}
                 PROVE  \E r \in Behind(job'[d].to) : LoggedIn(r) /\ name[r] = job'[d].for
        BY <1>1, <1>3 DEF RightReceiver, Behind
    <2>1. CASE d = c
        <3>1. PICK k \in DOMAIN online : online[k].fd = job'[c].to /\ online[k].user = job'[c].for
            BY <2>1
        <3>2. PICK r \in Conn : LoggedIn(r) /\ fd[r] = online[k].fd /\ name[r] = online[k].user
            BY DEF IInv, OnlineListed
        <3>3. fd[r] # 0
            BY <3>2 DEF Sound, OwnDescriptor, LoggedIn
        <3> QED
            BY <2>1, <3>1, <3>2, <3>3 DEF Behind
    <2>2. CASE d # c
        <3>1. pc[d] = "send" /\ freed[d] = {} /\ job'[d] = job[d]
            BY <2>2 DEF Sound, TypeOK
        <3> QED
            BY <3>1 DEF IInv, RightReceiver
    <2> QED
        BY <2>1, <2>2
<1>5. Fresh'
    BY DEF IInv, Fresh
<1> QED
    BY <1>2, <1>4, <1>5 DEF IInv

LEMMA LoginListed ==
    ASSUME Sound, IInv, NEW c \in Conn, Login(c)
    PROVE  IInv'
<1>1. TypeOK /\ OwnDescriptor /\ OnlineListed /\ RightReceiver /\ Fresh
    BY DEF Sound, IInv
<1>2. PICK u \in User : name' = [name EXCEPT ![c] = u] /\ online' = add_online(fd[c], u)
    BY DEF Login
<1>3. /\ name[c] = NoName /\ client[c] # "new" /\ pc[c] = "recv" /\ pc' = [pc EXCEPT ![c] = "load"]
      /\ UNCHANGED <<fd, client>>
      /\ \A d \in Conn \ {c} : job'[d] = job[d]
    BY <1>1 DEF Login, Start, Goto, TypeOK
<1>4. \A d \in Conn : freed'[d] = {} <=> freed[d] = {}
    BY DEF Login
<1>5. /\ \A d \in Conn \ {c} : (LoggedIn(d)' <=> LoggedIn(d)) /\ name'[d] = name[d] /\ pc'[d] = pc[d]
      /\ LoggedIn(c)' /\ ~LoggedIn(c) /\ name'[c] = u
    BY <1>1, <1>2, <1>3, PresenceAssumption DEF LoggedIn, TypeOK
<1>6. online \in Seq(Listed) /\ fd[c] # 0
    BY <1>1, <1>3 DEF TypeOK, OwnDescriptor
<1>7. /\ DOMAIN online' = 1..Len(online) + 1 /\ Len(online) \in Nat
      /\ online'[1] = Entry(fd[c], u)
      /\ \A k \in 2..Len(online) + 1 : online'[k] = online[k - 1]
    BY <1>2, <1>6 DEF add_online
<1>8. \A k \in DOMAIN online : online[k].fd # fd[c]
    BY <1>1, <1>5, <1>6 DEF OnlineListed, OwnDescriptor
<1>9. ASSUME NEW k \in DOMAIN online'
      PROVE  \E d \in Conn : LoggedIn(d)' /\ fd[d] = online'[k].fd /\ name'[d] = online'[k].user
    <2>1. CASE k = 1
        BY <1>5, <1>7, <2>1 DEF Entry
    <2>2. CASE k # 1
        <3>1. k - 1 \in DOMAIN online /\ online'[k] = online[k - 1]
            BY <1>6, <1>7, <2>2
        <3>2. PICK d \in Conn : LoggedIn(d) /\ fd[d] = online[k - 1].fd /\ name[d] = online[k - 1].user
            BY <1>1, <3>1 DEF OnlineListed
        <3> QED
            BY <1>5, <3>1, <3>2
    <2> QED
        BY <2>1, <2>2
<1>10. ASSUME NEW d \in Conn, LoggedIn(d)'
       PROVE  \E k \in DOMAIN online' : \A l \in DOMAIN online' : online'[l].fd = fd[d] <=> l = k
    <2>1. CASE d = c
        <3>1. \A l \in DOMAIN online' : online'[l].fd = fd[c] <=> l = 1
            BY <1>6, <1>7, <1>8 DEF Entry
        <3> QED
            BY <1>7, <2>1, <3>1
    <2>2. CASE d # c
        <3>1. PICK k \in DOMAIN online : \A l \in DOMAIN online : online[l].fd = fd[d] <=> l = k
            BY <1>1, <1>5, <1>10, <2>2 DEF OnlineListed
        <3>2. fd[d] # fd[c]
            BY <1>1, <1>6, <2>2 DEF OwnDescriptor
        <3>3. k + 1 \in DOMAIN online'
            BY <1>6, <1>7
        <3>4. ASSUME NEW l \in DOMAIN online' PROVE online'[l].fd = fd[d] <=> l = k + 1
            <4>1. CASE l = 1
                BY <1>6, <1>7, <3>2, <4>1 DEF Entry
            <4>2. CASE l # 1
                <5>1. l - 1 \in DOMAIN online /\ online'[l] = online[l - 1]
                    BY <1>6, <1>7, <4>2
                <5> QED
                    BY <1>6, <1>7, <3>1, <5>1
            <4> QED
                BY <4>1, <4>2
        <3> QED
            BY <3>3, <3>4
    <2> QED
        BY <2>1, <2>2
<1>11. OnlineListed'
    BY <1>3, <1>9, <1>10 DEF OnlineListed
<1>12. RightReceiver'
    <2> SUFFICES ASSUME NEW d \in Conn, pc'[d] = "send", freed'[d] = {}
                 PROVE  \E r \in Conn : /\ fd'[r] = job'[d].to /\ job'[d].to # 0
                                       /\ LoggedIn(r)' /\ name'[r] = job'[d].for
        BY DEF RightReceiver, Behind
    <2>1. d # c /\ pc[d] = "send" /\ freed[d] = {} /\ job'[d] = job[d]
        BY <1>1, <1>3, <1>4 DEF TypeOK
    <2>2. PICK r \in Behind(job[d].to) : LoggedIn(r) /\ name[r] = job[d].for
        BY <1>1, <2>1 DEF RightReceiver
    <2>3. r # c /\ r \in Conn
        BY <1>5, <2>2 DEF Behind
    <2> QED
        BY <1>3, <1>5, <2>1, <2>2, <2>3 DEF Behind
<1>13. Fresh'
    BY <1>1, <1>2, <1>3, <1>5 DEF Fresh
<1> QED
    BY <1>11, <1>12, <1>13 DEF IInv

LEMMA RemoveListed ==
    ASSUME Sound, IInv, NEW c \in Conn, Remove(c)
    PROVE  IInv'
<1>1. TypeOK /\ OwnDescriptor /\ OnlineListed /\ RightReceiver /\ Fresh
    BY DEF Sound, IInv
<1>2. /\ pc[c] = "find" /\ pc' = [pc EXCEPT ![c] = "end"]
      /\ UNCHANGED <<fd, name, client>> /\ \A d \in Conn \ {c} : job'[d] = job[d]
    BY <1>1 DEF Remove, Done, Finish, Goto, TypeOK
<1>3. /\ \A d \in Conn \ {c} : (LoggedIn(d)' <=> LoggedIn(d)) /\ pc'[d] = pc[d]
      /\ ~LoggedIn(c)' /\ pc'[c] = "end"
    BY <1>1, <1>2 DEF LoggedIn, TypeOK
<1>4. online \in Seq(Listed) /\ fd[c] # 0
    BY <1>1, <1>2 DEF TypeOK, OwnDescriptor
<1>5. OnlineListed'
    <2>1. CASE name[c] = NoName
        <3>1. ~LoggedIn(c)
            BY <2>1 DEF LoggedIn
        <3>2. \A k \in DOMAIN online : online[k].fd # fd[c]
            BY <1>1, <1>4, <3>1 DEF OnlineListed, OwnDescriptor
        <3>3. online' = online
            BY <1>4, <3>2, RemovedEntry DEF Remove
        <3> QED
            BY <1>1, <1>2, <1>3, <3>1, <3>3 DEF OnlineListed
    <2>2. CASE name[c] # NoName
        <3>1. LoggedIn(c) /\ online' = remove_online(fd[c])
            BY <1>2, <2>2 DEF Remove, LoggedIn
        <3>2. PICK k \in DOMAIN online : \A l \in DOMAIN online : online[l].fd = fd[c] <=> l = k
            BY <1>1, <3>1 DEF OnlineListed
        <3>3. remove_online(fd[c]) = Without(k)
            BY <1>4, <3>2, RemovedEntry
        <3>4. /\ DOMAIN online' = 1..Len(online) - 1 /\ Len(online) \in Nat /\ k \in 1..Len(online)
              /\ \A l \in 1..Len(online) - 1 :
                    online'[l] = IF l < k THEN online[l] ELSE online[l + 1]
            BY <1>4, <3>1, <3>3, WithoutEntry
        <3>5. ASSUME NEW l \in DOMAIN online'
              PROVE  \E d \in Conn : LoggedIn(d)' /\ fd[d] = online'[l].fd /\ name[d] = online'[l].user
            <4>1. PICK m \in DOMAIN online : m # k /\ online'[l] = online[m]
                <5>1. CASE l < k
                    BY <1>4, <3>4, <5>1
                <5>2. CASE ~(l < k)
                    <6>1. l + 1 \in DOMAIN online /\ l + 1 # k /\ online'[l] = online[l + 1]
                        BY <1>4, <3>4, <5>2
                    <6> QED
                        BY <6>1
                <5> QED
                    BY <5>1, <5>2
            <4>2. PICK d \in Conn : LoggedIn(d) /\ fd[d] = online[m].fd /\ name[d] = online[m].user
                BY <1>1 DEF OnlineListed
            <4>3. d # c
                BY <3>2, <4>1, <4>2
            <4> QED
                BY <1>3, <4>1, <4>2, <4>3
        <3>6. ASSUME NEW d \in Conn, LoggedIn(d)'
              PROVE  \E m \in DOMAIN online' : \A l \in DOMAIN online' : online'[l].fd = fd[d] <=> l = m
            <4>1. d # c /\ LoggedIn(d) /\ fd[d] # fd[c]
                BY <1>1, <1>3, <1>4, <3>6 DEF OwnDescriptor
            <4>2. PICK n \in DOMAIN online : \A l \in DOMAIN online : online[l].fd = fd[d] <=> l = n
                BY <1>1, <4>1 DEF OnlineListed
            <4>3. n # k /\ n \in 1..Len(online)
                BY <1>4, <3>2, <4>1, <4>2
            <4> DEFINE m == IF n < k THEN n ELSE n - 1
            <4>4. m \in DOMAIN online'
                BY <3>4, <4>3
            <4>5. ASSUME NEW l \in DOMAIN online' PROVE online'[l].fd = fd[d] <=> l = m
                <5>1. CASE l < k
                    <6>1. l \in DOMAIN online /\ online'[l] = online[l]
                        BY <1>4, <3>4, <5>1
                    <6>2. l = n <=> l = m
                        BY <3>4, <4>3, <5>1
                    <6> QED
                        BY <4>2, <6>1, <6>2
                <5>2. CASE ~(l < k)
                    <6>1. l + 1 \in DOMAIN online /\ online'[l] = online[l + 1]
                        BY <1>4, <3>4, <5>2
                    <6>2. l + 1 = n <=> l = m
                        BY <3>4, <4>3, <5>2
                    <6> QED
                        BY <4>2, <6>1, <6>2
                <5> QED
                    BY <5>1, <5>2
            <4> QED
                BY <4>4, <4>5
        <3> QED
            BY <1>2, <3>5, <3>6 DEF OnlineListed
    <2> QED
        BY <2>1, <2>2
<1>6. RightReceiver'
    <2> SUFFICES ASSUME NEW d \in Conn, pc'[d] = "send", freed'[d] = {}
                 PROVE  \E r \in Conn : /\ fd'[r] = job'[d].to /\ job'[d].to # 0
                                       /\ LoggedIn(r)' /\ name'[r] = job'[d].for
        BY DEF RightReceiver, Behind
    <2>1. d # c /\ pc[d] = "send" /\ job'[d] = job[d]
        BY <1>2, <1>3
    <2>2. freed[d] = {} /\ job[d].to # fd[c]
        BY <2>1 DEF Remove
    <2>3. PICK r \in Behind(job[d].to) : LoggedIn(r) /\ name[r] = job[d].for
        BY <1>1, <2>1, <2>2 DEF RightReceiver
    <2>4. r # c /\ r \in Conn /\ fd[r] = job[d].to /\ job[d].to # 0
        BY <2>2, <2>3 DEF Behind
    <2> QED
        BY <1>2, <1>3, <2>1, <2>3, <2>4
<1>7. Fresh'
    BY <1>1, <1>2, <1>3 DEF Fresh
<1> QED
    BY <1>5, <1>6, <1>7 DEF IInv

\* A connection that is opened, given up or closed is of nobody who is logged in.
LEMMA ConnectionListed ==
    ASSUME Sound, IInv, NEW c \in Conn, Accept(c) \/ HangupNameless(c) \/ Close(c)
    PROVE  IInv'
<1>1. TypeOK /\ OwnDescriptor /\ OnlineListed /\ RightReceiver /\ Fresh
    BY DEF Sound, IInv
<1>2. /\ UNCHANGED <<name, online, job, freed>>
      /\ \A d \in Conn \ {c} : fd'[d] = fd[d] /\ pc'[d] = pc[d] /\ client'[d] = client[d]
      /\ pc'[c] # "send"
    BY <1>1 DEF Accept, HangupNameless, Close, Goto, TypeOK
<1>3. ~LoggedIn(c) /\ ~LoggedIn(c)'
    <2>1. CASE Accept(c)
        BY <1>1, <1>2, <2>1 DEF Accept, Fresh, LoggedIn
    <2>2. CASE Close(c)
        BY <1>1, <2>2 DEF Close, Goto, LoggedIn, TypeOK
    <2>3. CASE HangupNameless(c)
        BY <2>3 DEF HangupNameless, LoggedIn
    <2> QED
        BY <2>1, <2>2, <2>3
<1>4. \A d \in Conn \ {c} : LoggedIn(d)' <=> LoggedIn(d)
    BY <1>2 DEF LoggedIn
<1>5. OnlineListed'
    BY <1>1, <1>2, <1>3, <1>4 DEF OnlineListed
<1>6. RightReceiver'
    BY <1>1, <1>2, <1>3, <1>4 DEF RightReceiver, Behind
<1>7. Fresh'
    <2>1. CASE Accept(c)
        BY <1>1, <1>2, <2>1 DEF Accept, Fresh, TypeOK
    <2>2. CASE Close(c)
        BY <1>1, <1>2, <2>2 DEF Close, Goto, Fresh, TypeOK
    <2>3. CASE HangupNameless(c)
        BY <1>1, <1>2, <2>3 DEF HangupNameless, Goto, Fresh, TypeOK
    <2> QED
        BY <2>1, <2>2, <2>3
<1> QED
    BY <1>5, <1>6, <1>7 DEF IInv

\* What a thread found in the list is an entry of the list.
LEMMA FindListed ==
    ASSUME Sound, IInv, NEW c \in Conn, Find(c)
    PROVE  IInv'
<1>1. TypeOK
    BY DEF Sound
<1>2. PICK u \in job[c].todo :
        LET f == find_online_fd(u)
            rest == [job[c] EXCEPT !.todo = @ \ {u}]
        IN  IF f = 0
            THEN job' = [job EXCEPT ![c] = rest] /\ UNCHANGED pc
            ELSE job' = [job EXCEPT ![c] = [rest EXCEPT !.to = f, !.for = u]] /\ Goto(c, "send")
    BY DEF Find
<1> DEFINE f == find_online_fd(u)
           rest == [job[c] EXCEPT !.todo = @ \ {u}]
<1>3. /\ UNCHANGED <<client, fd, name, online, freed>> /\ pc[c] = "find"
      /\ \A d \in Conn \ {c} : pc'[d] = pc[d] /\ job'[d] = job[d]
    BY <1>1, <1>2 DEF Find, Goto, TypeOK
<1>4. CASE f = 0
    <2>1. UNCHANGED pc
        BY <1>2, <1>4
    <2> QED
        BY <1>3, <2>1, SameLoggedIn
<1>5. CASE f # 0
    <2>1. pc' = [pc EXCEPT ![c] = "send"] /\ job' = [job EXCEPT ![c] = [rest EXCEPT !.to = f, !.for = u]]
        BY <1>2, <1>5 DEF Goto
    <2>2. pc'[c] = "send"
        BY <1>1, <2>1 DEF TypeOK
    <2>3. job'[c].to = f /\ job'[c].for = u
        <3>1. job'[c] = [rest EXCEPT !.to = f, !.for = u]
            BY <1>1, <2>1 DEF TypeOK
        <3>2. job[c] \in Job
            BY <1>1 DEF TypeOK
        <3>3. rest \in [kind : Kind, todo : SUBSET User, to : 0..MaxFd, for : User \cup {NoName}]
            BY <3>2 DEF Job, Kind
        <3> HIDE DEF rest, f
        <3> QED
            BY <3>1, <3>3
    <2>4. PICK k \in DOMAIN online : online[k].user = u /\ online[k].fd = f
        BY <1>1, <1>5, FoundEntry DEF TypeOK
    <2> QED
        BY <1>3, <2>2, <2>3, <2>4, SameLoggedIn
<1> QED
    BY <1>4, <1>5

\* The other steps leave the list, the names and the descriptors alone.
LEMMA OthersListed ==
    ASSUME Sound, IInv, NEW c \in Conn,
           \/ Load(c) \/ Chat(c) \/ GroupSend(c) \/ Ask(c) \/ Hangup(c) \/ Send(c)
           \/ Answer(c) \/ ChatSent(c) \/ GroupSent(c) \/ Read(c) \/ Leave(c)
    PROVE  IInv'
<1>1. TypeOK
    BY DEF Sound
<1>2. UNCHANGED <<fd, name, online>>
    BY DEF Load, Chat, GroupSend, Ask, Hangup, Send, Answer, ChatSent, GroupSent, Read, Leave
<1>3. \A d \in Conn : client'[d] = "new" => client[d] = "new"
    BY <1>1 DEF Load, Chat, GroupSend, Ask, Hangup, Send, Answer, ChatSent, GroupSent, Read, Leave,
                TypeOK
<1>4. freed' = [freed EXCEPT ![c] = {}] \/ UNCHANGED freed
    BY DEF Load, Chat, GroupSend, Ask, Hangup, Send, Answer, ChatSent, GroupSent, Read, Leave
<1>5. CASE Read(c) \/ Leave(c)
    <2>1. UNCHANGED <<pc, job, freed>>
        BY <1>5 DEF Read, Leave
    <2>2. RightReceiver' /\ OnlineListed' /\ Fresh'
        BY <1>2, <1>3, <2>1 DEF IInv, RightReceiver, OnlineListed, Fresh, LoggedIn, Behind
    <2> QED
        BY <2>2 DEF IInv
<1>6. CASE Load(c) \/ Chat(c) \/ GroupSend(c) \/ Ask(c) \/ Hangup(c) \/ Send(c) \/ Answer(c)
            \/ ChatSent(c) \/ GroupSent(c)
    <2>1. /\ pc[c] \in {"recv", "load", "find", "send"}
          /\ \E to \in {"recv", "find"} : pc' = [pc EXCEPT ![c] = to]
        BY <1>6 DEF Load, Chat, GroupSend, Ask, Hangup, Send, Answer, ChatSent, GroupSent, Start,
                    Goto, Finish, Done
    <2>2. \A d \in Conn \ {c} : job'[d] = job[d]
        BY <1>1, <1>6 DEF Load, Chat, GroupSend, Ask, Hangup, Send, Answer, ChatSent, GroupSent,
                    Start, Finish, TypeOK
    <2>3. pc'[c] \in {"recv", "find"} /\ \A d \in Conn \ {c} : pc'[d] = pc[d]
        BY <1>1, <2>1 DEF TypeOK
    <2> QED
        BY <1>2, <1>3, <1>4, <2>1, <2>2, <2>3, SameLoggedIn
<1> QED
    BY <1>5, <1>6

LEMMA ListedAlways == Spec => []IInv
<1>1. Init => IInv
    BY DEF Init, IInv, OnlineListed, RightReceiver, Fresh, LoggedIn
<1>2. Sound /\ IInv /\ [Next]_vars => IInv'
    <2> SUFFICES ASSUME Sound, IInv, [Next]_vars PROVE IInv'
        OBVIOUS
    <2>1. CASE Next
        BY <2>1, LoginListed, RemoveListed, ConnectionListed, FindListed, OthersListed DEF Next
    <2>2. CASE UNCHANGED vars
        BY <2>2 DEF vars, IInv, OnlineListed, RightReceiver, Fresh, LoggedIn, Behind
    <2> QED
        BY <2>1, <2>2
<1> QED
    BY <1>1, <1>2, SoundAlways, PTL DEF Spec

-----------------------------------------------------------------------------
(* Notices *)

Busy == {"load", "find", "send"}

\* The thread of d has yet to tell user w.
Pending(d, w) == w \in job[d].todo \/ (pc[d] = "send" /\ job[d].for = w /\ freed[d] = {})

\* A thread has a job while it is busy, notices go to friends, and a freed node
\* worries only the thread that is about to read it.
WorkingAt(c) ==
    /\ pc[c] \in Busy <=> job[c].kind # "none"
    /\ pc[c] \in Busy => name[c] # NoName
    /\ freed[c] # {} => pc[c] = "send"
    /\ job[c].kind \in {"login", "logout"} =>
         /\ job[c].todo \subseteq Friend[name[c]]
         /\ pc[c] = "send" => job[c].for \in Friend[name[c]]

Working == \A c \in Conn : WorkingAt(c)

\* Nobody is told anything before he has logged in.
Untold == \A c \in Conn : name[c] = NoName => \A u \in User : told[c][u] = "none"

\* A user that never logged in while on line has at most one thread.
OneEach == \A c, d \in Conn :
    LoggedIn(c) /\ LoggedIn(d) /\ name[c] = name[d] /\ name[c] \notin overlap => c = d

\* What d still says, or is to say, to the user w: not yet that its user leaves;
\* that he leaves, or that he is there.
Unsaid(d, w) == job[d].kind = "logout" => Pending(d, w)
Saying(d, w) == job[d].kind = "logout" \/ (job[d].kind = "login" /\ Pending(d, w))

\* What c was told about u is true, or somebody is on the way to correct it.
NoticedAt(c, u) ==
    /\ told[c][u] # "none" => name[c] \in Friend[u]
    /\ told[c][u] = "online" =>
         \E d \in Conn : LoggedIn(d) /\ name[d] = u /\ Unsaid(d, name[c])
    /\ told[c][u] = "offline" =>
         \A d \in Conn : LoggedIn(d) /\ name[d] = u => Saying(d, name[c])

Follows(c, u) == LoggedIn(c) /\ client[c] = "up" /\ name[c] \notin overlap /\ u \notin overlap

Noticed == \A c \in Conn, u \in User : Follows(c, u) => NoticedAt(c, u)

Aware == Working /\ Untold /\ OneEach /\ Noticed

Step(c) ==
    \/ Login(c) \/ Load(c) \/ Chat(c) \/ GroupSend(c) \/ Ask(c) \/ Hangup(c)
    \/ HangupNameless(c) \/ Find(c) \/ Send(c) \/ Answer(c) \/ ChatSent(c) \/ GroupSent(c)
    \/ Remove(c) \/ Close(c) \/ Accept(c) \/ Read(c) \/ Leave(c)

LEMMA StartedJob ==
    ASSUME TypeOK, NEW c \in Conn, NEW kind, NEW todo, NEW to, Start(c, kind, todo, to)
    PROVE  /\ pc[c] = "recv" /\ pc'[c] = to
           /\ job'[c].kind = kind /\ job'[c].todo = todo /\ job'[c].for = NoName
           /\ \A d \in Conn \ {c} : pc'[d] = pc[d] /\ job'[d] = job[d]
BY DEF TypeOK, Start, Goto, Work

LEMMA FinishedJob ==
    ASSUME TypeOK, NEW c \in Conn, NEW to, Finish(c, to)
    PROVE  /\ pc'[c] = to /\ job'[c].kind = "none" /\ job'[c].todo = {}
           /\ \A d \in Conn \ {c} : pc'[d] = pc[d] /\ job'[d] = job[d]
BY DEF TypeOK, Finish, Goto, Idle, Work

LEMMA FindStep ==
    ASSUME Sound, NEW c \in Conn, Find(c)
    PROVE  /\ pc[c] = "find" /\ job'[c].kind = job[c].kind
           /\ \A d \in Conn \ {c} : pc'[d] = pc[d] /\ job'[d] = job[d]
           /\ \E u \in job[c].todo :
                /\ job'[c].todo = job[c].todo \ {u}
                /\ \/ find_online_fd(u) = 0 /\ pc'[c] = "find"
                   \/ find_online_fd(u) # 0 /\ pc'[c] = "send" /\ job'[c].for = u
<1>1. TypeOK
    BY DEF Sound
<1>2. PICK u \in job[c].todo :
        LET f == find_online_fd(u)
            rest == [job[c] EXCEPT !.todo = @ \ {u}]
        IN  IF f = 0
            THEN job' = [job EXCEPT ![c] = rest] /\ UNCHANGED pc
            ELSE job' = [job EXCEPT ![c] = [rest EXCEPT !.to = f, !.for = u]] /\ Goto(c, "send")
    BY DEF Find
<1> DEFINE f == find_online_fd(u)
           rest == [job[c] EXCEPT !.todo = @ \ {u}]
           sent == [rest EXCEPT !.to = f, !.for = u]
<1>3. pc[c] = "find" /\ job[c] \in Job
    BY <1>1 DEF Find, TypeOK
<1>4. /\ rest \in [kind : Kind, todo : SUBSET User, to : 0..MaxFd, for : User \cup {NoName}]
      /\ rest.kind = job[c].kind /\ rest.todo = job[c].todo \ {u}
    BY <1>3 DEF Job, Kind
<1>5. \/ f = 0 /\ job' = [job EXCEPT ![c] = rest] /\ UNCHANGED pc
      \/ f # 0 /\ job' = [job EXCEPT ![c] = sent] /\ pc' = [pc EXCEPT ![c] = "send"]
    BY <1>2 DEF Goto
<1> HIDE DEF rest, f
<1>6. sent.kind = rest.kind /\ sent.todo = rest.todo /\ sent.for = u
    BY <1>4
<1> HIDE DEF sent
<1>7. pc \in [Conn -> Place] /\ job \in [Conn -> Job]
    BY <1>1 DEF TypeOK, Place
<1>8. CASE f = 0 /\ job' = [job EXCEPT ![c] = rest] /\ UNCHANGED pc
    <2>1. job'[c] = rest /\ \A d \in Conn \ {c} : pc'[d] = pc[d] /\ job'[d] = job[d]
        BY <1>7, <1>8
    <2> QED
        BY <1>3, <1>4, <1>8, <2>1 DEF f
<1>9. CASE f # 0 /\ job' = [job EXCEPT ![c] = sent] /\ pc' = [pc EXCEPT ![c] = "send"]
    <2>1. /\ job'[c] = sent /\ pc'[c] = "send"
          /\ \A d \in Conn \ {c} : pc'[d] = pc[d] /\ job'[d] = job[d]
        BY <1>7, <1>9
    <2> QED
        BY <1>3, <1>4, <1>6, <1>9, <2>1 DEF f
<1> QED
    BY <1>5, <1>8, <1>9

\* A step is of one thread; the others only learn that a node was freed.
LEMMA StepOfOne ==
    ASSUME Sound, NEW c \in Conn, Step(c), NEW d \in Conn \ {c}
    PROVE  /\ pc'[d] = pc[d] /\ job'[d] = job[d] /\ name'[d] = name[d] /\ client'[d] = client[d]
           /\ freed'[d] # {} => freed[d] # {} \/ pc[d] = "send"
<1>1. TypeOK
    BY DEF Sound
<1>2. CASE Login(c) \/ Chat(c) \/ GroupSend(c) \/ Ask(c) \/ Hangup(c)
    <2>1. pc'[d] = pc[d] /\ job'[d] = job[d]
        BY <1>1, <1>2, StartedJob DEF Login, Chat, GroupSend, Ask, Hangup
    <2>2. name'[d] = name[d] /\ client'[d] = client[d]
        BY <1>1, <1>2 DEF Login, Chat, GroupSend, Ask, Hangup, TypeOK
    <2>3. freed'[d] # {} => freed[d] # {}
        BY <1>1, <1>2 DEF Login, Chat, GroupSend, Ask, Hangup, TypeOK
    <2> QED
        BY <2>1, <2>2, <2>3
<1>3. CASE Answer(c) \/ ChatSent(c) \/ GroupSent(c) \/ Remove(c)
    <2>1. pc'[d] = pc[d] /\ job'[d] = job[d]
        BY <1>1, <1>3, FinishedJob DEF Answer, ChatSent, GroupSent, Remove
    <2>2. name'[d] = name[d] /\ client'[d] = client[d]
        BY <1>3 DEF Answer, ChatSent, GroupSent, Remove
    <2>3. freed'[d] # {} => freed[d] # {} \/ pc[d] = "send"
        BY <1>3 DEF Answer, ChatSent, GroupSent, Remove
    <2> QED
        BY <2>1, <2>2, <2>3
<1>4. CASE Find(c)
    BY <1>4, FindStep DEF Find
<1>5. CASE Load(c) \/ HangupNameless(c) \/ Close(c) \/ Accept(c) \/ Read(c) \/ Leave(c)
    BY <1>1, <1>5 DEF Load, HangupNameless, Close, Accept, Read, Leave, Goto, TypeOK
<1>6. CASE Send(c)
    BY <1>1, <1>6 DEF Send, Goto, TypeOK
<1> QED
    BY <1>2, <1>3, <1>4, <1>5, <1>6 DEF Step

LEMMA WorkingStep ==
    ASSUME Sound, IInv, Working, NEW c \in Conn, Step(c)
    PROVE  Working'
<1>1. TypeOK /\ Fresh /\ WorkingAt(c)
    BY DEF Sound, IInv, Working
<1>2. ASSUME NEW d \in Conn \ {c} PROVE WorkingAt(d)'
    <2>1. WorkingAt(d)
        BY DEF Working
    <2>2. /\ pc'[d] = pc[d] /\ job'[d] = job[d] /\ name'[d] = name[d]
          /\ freed'[d] # {} => freed[d] # {} \/ pc[d] = "send"
        BY StepOfOne
    <2> QED
        BY <2>1, <2>2 DEF WorkingAt
<1> SUFFICES WorkingAt(c)'
    BY <1>2 DEF Working
<1>3. CASE Login(c) \/ Hangup(c)
    <2>1. PICK kind \in {"login", "logout"}, to \in {"load", "find"}, u \in User :
             Start(c, kind, Friend[u], to) /\ name'[c] = u
        BY <1>1, <1>3 DEF Login, Hangup, TypeOK
    <2>2. pc[c] = "recv" /\ pc'[c] = to /\ job'[c].kind = kind /\ job'[c].todo = Friend[u]
        BY <1>1, <2>1, StartedJob
    <2>3. freed'[c] = {}
        BY <1>1, <1>3, <2>2 DEF Login, Hangup, WorkingAt, TypeOK
    <2>4. u # NoName
        BY PresenceAssumption
    <2> QED
        BY <2>1, <2>2, <2>3, <2>4 DEF WorkingAt, Busy
<1>4. CASE Chat(c) \/ GroupSend(c) \/ Ask(c)
    <2>1. PICK kind \in {"chat", "group", "ask"}, todo \in SUBSET User : Start(c, kind, todo, "find")
        <3>1. CASE Chat(c)
            BY <1>1, <3>1, PresenceAssumption DEF Chat, Request, TypeOK
        <3>2. CASE GroupSend(c)
            BY <3>2, PresenceAssumption DEF GroupSend
        <3>3. CASE Ask(c)
            BY <3>3 DEF Ask
        <3> QED
            BY <1>4, <3>1, <3>2, <3>3
    <2>2. pc[c] = "recv" /\ pc'[c] = "find" /\ job'[c].kind = kind
        BY <1>1, <2>1, StartedJob
    <2>3. UNCHANGED <<name, freed>> /\ name[c] # NoName
        BY <1>4 DEF Chat, GroupSend, Ask, Request
    <2> QED
        BY <1>1, <2>2, <2>3 DEF WorkingAt, Busy
<1>5. CASE Answer(c) \/ ChatSent(c) \/ GroupSent(c) \/ Remove(c)
    <2>1. PICK to \in {"recv", "end"} : Finish(c, to)
        BY <1>5 DEF Answer, ChatSent, GroupSent, Remove
    <2>2. pc[c] = "find"
        BY <1>5 DEF Answer, ChatSent, GroupSent, Remove, Done
    <2>3. pc'[c] = to /\ job'[c].kind = "none"
        BY <1>1, <2>1, FinishedJob
    <2>4. freed'[c] = {}
        BY <1>1, <1>5, <2>2 DEF Answer, ChatSent, GroupSent, Remove, WorkingAt
    <2> QED
        BY <2>3, <2>4 DEF WorkingAt, Busy
<1>6. CASE Find(c)
    <2>1. PICK u \in job[c].todo :
            /\ job'[c].todo = job[c].todo \ {u}
            /\ \/ pc'[c] = "find"
               \/ pc'[c] = "send" /\ job'[c].for = u
        BY <1>6, FindStep
    <2>2. pc[c] = "find" /\ job'[c].kind = job[c].kind /\ UNCHANGED <<name, freed>>
        BY <1>6, FindStep DEF Find
    <2> QED
        BY <1>1, <2>1, <2>2 DEF WorkingAt, Busy
<1>7. CASE Send(c)
    <2>1. pc[c] = "send" /\ pc'[c] = "find" /\ freed'[c] = {} /\ UNCHANGED name
        BY <1>1, <1>7 DEF Send, Goto, TypeOK
    <2>2. job'[c].kind = job[c].kind /\ job'[c].todo = job[c].todo
        BY <1>1, <1>7 DEF Send, TypeOK, Job
    <2> QED
        BY <1>1, <2>1, <2>2 DEF WorkingAt, Busy
<1>8. CASE Load(c) \/ HangupNameless(c) \/ Close(c) \/ Accept(c)
    <2>1. UNCHANGED <<name, freed, job>>
        BY <1>8 DEF Load, HangupNameless, Close, Accept
    <2>2. \/ pc[c] = "load" /\ pc'[c] = "find"
          \/ pc[c] \notin Busy /\ pc'[c] \in {"recv", "end", "gone"}
        BY <1>1, <1>8 DEF Load, HangupNameless, Close, Accept, Goto, TypeOK, Busy, Fresh
    <2> QED
        BY <1>1, <2>1, <2>2 DEF WorkingAt, Busy
<1>9. CASE Read(c) \/ Leave(c)
    BY <1>1, <1>9 DEF Read, Leave, WorkingAt
<1> QED
    BY <1>3, <1>4, <1>5, <1>6, <1>7, <1>8, <1>9 DEF Step

\* Whoever is logged in is on the list, and the other way round.
LEMMA OnlineIsLoggedIn ==
    ASSUME Sound, IInv, NEW u
    PROVE  Online(u) <=> \E c \in Conn : LoggedIn(c) /\ name[c] = u
<1>1. OwnDescriptor /\ OnlineListed
    BY DEF Sound, IInv
<1>2. ASSUME NEW c \in Conn, LoggedIn(c), name[c] = u PROVE Online(u)
    <2>1. PICK k \in DOMAIN online : \A l \in DOMAIN online : online[l].fd = fd[c] <=> l = k
        BY <1>1, <1>2 DEF OnlineListed
    <2>2. PICK d \in Conn : LoggedIn(d) /\ fd[d] = online[k].fd /\ name[d] = online[k].user
        BY <1>1 DEF OnlineListed
    <2>3. d = c
        BY <1>1, <2>1, <2>2 DEF OwnDescriptor, LoggedIn
    <2> QED
        BY <1>2, <2>2, <2>3 DEF Online
<1>3. ASSUME Online(u) PROVE \E c \in Conn : LoggedIn(c) /\ name[c] = u
    BY <1>1, <1>3 DEF Online, OnlineListed
<1> QED
    BY <1>2, <1>3

\* A user who is on line is found.
LEMMA OnlineIsFound ==
    ASSUME TypeOK, NEW u, Online(u)
    PROVE  find_online_fd(u) # 0
<1> DEFINE hits == {l \in DOMAIN online : online[l].user = u}
<1>1. hits \in SUBSET Nat /\ 0 \notin hits /\ hits # {} /\ online \in Seq(Listed)
    BY DEF Online, TypeOK
<1>2. PICK k \in hits : k = First(hits)
    BY <1>1, FirstOfHits
<1>3. k # 0 /\ k \in DOMAIN online /\ online[k] \in Listed
    BY <1>1, ElementOfSeq
<1>4. find_online_fd(u) = online[k].fd
    BY <1>2, <1>3 DEF find_online_fd
<1> QED
    BY <1>3, <1>4, PresenceAssumption DEF Listed

\* But for a login and the end of a session, nobody's being logged in changes.
LEMMA SameSessions ==
    ASSUME Sound, IInv, NEW c \in Conn, Step(c), ~Login(c), ~Remove(c)
    PROVE  /\ UNCHANGED <<name, overlap>> /\ (Send(c) \/ UNCHANGED <<told, freed>>)
           /\ \A d \in Conn : LoggedIn(d)' <=> LoggedIn(d)
           /\ \A d \in Conn : LoggedIn(d) /\ client'[d] = "up" => client[d] = "up"
<1>1. TypeOK /\ Fresh
    BY DEF Sound, IInv
<1>2. CASE Load(c) \/ HangupNameless(c) \/ Close(c) \/ Accept(c) \/ Read(c) \/ Leave(c)
    <2>1. UNCHANGED <<name, overlap, told, freed>>
        BY <1>2 DEF Load, HangupNameless, Close, Accept, Read, Leave, history
    <2>2. LoggedIn(c)' <=> LoggedIn(c)
        BY <1>1, <1>2 DEF Load, HangupNameless, Close, Accept, Read, Leave, Goto, LoggedIn, TypeOK,
                          Fresh
    <2>3. LoggedIn(c) /\ client'[c] = "up" => client[c] = "up"
        BY <1>1, <1>2 DEF Load, HangupNameless, Close, Accept, Read, Leave, LoggedIn, TypeOK, Fresh
    <2>4. \A d \in Conn \ {c} : (LoggedIn(d)' <=> LoggedIn(d)) /\ client'[d] = client[d]
        BY StepOfOne DEF LoggedIn
    <2> QED
        BY <2>1, <2>2, <2>3, <2>4
<1>3. CASE Chat(c) \/ GroupSend(c) \/ Ask(c) \/ Hangup(c)
    <2>1. /\ UNCHANGED <<name, overlap, told, freed, client>>
          /\ \E kind, todo : Start(c, kind, todo, "find")
        BY <1>3 DEF Chat, GroupSend, Ask, Hangup, history
    <2>2. pc[c] = "recv" /\ pc'[c] = "find"
        BY <1>1, <2>1, StartedJob
    <2>3. \A d \in Conn \ {c} : pc'[d] = pc[d]
        BY StepOfOne
    <2> QED
        BY <2>1, <2>2, <2>3 DEF LoggedIn
<1>4. CASE Answer(c) \/ ChatSent(c) \/ GroupSent(c)
    <2>1. /\ UNCHANGED <<name, overlap, told, freed, client>> /\ Finish(c, "recv")
          /\ pc[c] = "find"
        BY <1>4 DEF Answer, ChatSent, GroupSent, history, Write, Done
    <2>2. pc'[c] = "recv"
        BY <1>1, <2>1, FinishedJob
    <2>3. \A d \in Conn \ {c} : pc'[d] = pc[d]
        BY StepOfOne
    <2> QED
        BY <2>1, <2>2, <2>3 DEF LoggedIn
<1>5. CASE Find(c)
    <2>1. UNCHANGED <<name, overlap, told, freed, client>>
        BY <1>5 DEF Find, history
    <2>2. pc[c] = "find" /\ pc'[c] \in {"find", "send"}
        BY <1>5, FindStep
    <2>3. \A d \in Conn \ {c} : pc'[d] = pc[d]
        BY StepOfOne
    <2> QED
        BY <2>1, <2>2, <2>3 DEF LoggedIn
<1>6. CASE Send(c)
    <2>1. UNCHANGED <<name, overlap, client>> /\ pc[c] = "send" /\ pc'[c] = "find"
        BY <1>1, <1>6 DEF Send, Goto, TypeOK
    <2>2. \A d \in Conn \ {c} : pc'[d] = pc[d]
        BY StepOfOne
    <2> QED
        BY <1>6, <2>1, <2>2 DEF LoggedIn
<1> QED
    BY <1>2, <1>3, <1>4, <1>5, <1>6 DEF Step

\* A thread that goes on leaves nobody out whom it had yet to tell.
LEMMA SaysOn ==
    ASSUME Sound, IInv, Working, NEW c \in Conn, Step(c), ~Login(c), ~Remove(c), ~Send(c),
           LoggedIn(c), NEW w \in Friend[name[c]], Online(w)
    PROVE  /\ Unsaid(c, w) => Unsaid(c, w)'
           /\ Saying(c, w) => Saying(c, w)'
<1>1. TypeOK /\ WorkingAt(c)
    BY DEF Sound, Working
<1>2. UNCHANGED <<name, overlap, told, freed>>
    BY SameSessions
<1>3. CASE Find(c)
    <2>1. PICK u \in job[c].todo :
            /\ job'[c].todo = job[c].todo \ {u}
            /\ \/ find_online_fd(u) = 0 /\ pc'[c] = "find"
               \/ find_online_fd(u) # 0 /\ pc'[c] = "send" /\ job'[c].for = u
        BY <1>3, FindStep
    <2>2. pc[c] = "find" /\ job'[c].kind = job[c].kind
        BY <1>3, FindStep
    <2>3. find_online_fd(w) # 0
        BY <1>1, OnlineIsFound
    <2>4. freed[c] = {}
        BY <1>1, <2>2 DEF WorkingAt
    <2>5. Pending(c, w) => Pending(c, w)'
        BY <1>2, <2>1, <2>2, <2>3, <2>4 DEF Pending
    <2> QED
        BY <2>2, <2>5 DEF Unsaid, Saying
<1>4. CASE Chat(c) \/ GroupSend(c) \/ Ask(c)
    <2>1. \E kind \in {"chat", "group", "ask"}, todo \in {{}, Member \ {name[c]}} \cup SUBSET User :
             Start(c, kind, todo, "find")
        <3>1. CASE Chat(c)
            BY <1>1, <3>1, PresenceAssumption DEF Chat, Request, TypeOK
        <3>2. CASE GroupSend(c)
            BY <3>2 DEF GroupSend
        <3>3. CASE Ask(c)
            BY <3>3 DEF Ask
        <3> QED
            BY <1>4, <3>1, <3>2, <3>3
    <2>2. pc[c] = "recv" /\ job'[c].kind \in {"chat", "group", "ask"}
        BY <1>1, <2>1, StartedJob
    <2>3. job[c].kind = "none"
        BY <1>1, <2>2 DEF WorkingAt, Busy
    <2> QED
        BY <2>2, <2>3 DEF Unsaid, Saying
<1>5. CASE Hangup(c)
    <2>1. job'[c].kind = "logout" /\ job'[c].todo = Friend[name[c]]
        BY <1>1, <1>5, StartedJob DEF Hangup
    <2> QED
        BY <2>1 DEF Unsaid, Saying, Pending
<1>6. CASE Answer(c) \/ ChatSent(c) \/ GroupSent(c)
    <2>1. /\ Finish(c, "recv") /\ pc[c] = "find" /\ job[c].todo = {}
          /\ job[c].kind \in {"login", "ask", "chat", "group"}
        BY <1>6 DEF Answer, ChatSent, GroupSent, Done
    <2>2. job'[c].kind = "none"
        BY <1>1, <2>1, FinishedJob
    <2> QED
        BY <2>1, <2>2 DEF Unsaid, Saying, Pending
<1>7. CASE Load(c) \/ HangupNameless(c) \/ Close(c) \/ Accept(c) \/ Read(c) \/ Leave(c)
    <2>1. UNCHANGED <<job, freed>>
        BY <1>7 DEF Load, HangupNameless, Close, Accept, Read, Leave
    <2>2. pc[c] = "send" => pc'[c] = "send"
        BY <1>7 DEF Load, HangupNameless, Close, Accept, Read, Leave, Fresh, IInv
    <2> QED
        BY <2>1, <2>2 DEF Unsaid, Saying, Pending
<1> QED
    BY <1>3, <1>4, <1>5, <1>6, <1>7 DEF Step

LEMMA NoticesKept ==
    ASSUME Sound, IInv, Aware, NEW c \in Conn, Step(c), ~Login(c), ~Remove(c), ~Send(c)
    PROVE  Noticed'
<1>1. /\ UNCHANGED <<name, overlap, told, freed>>
      /\ \A d \in Conn : LoggedIn(d)' <=> LoggedIn(d)
      /\ \A d \in Conn : LoggedIn(d) /\ client'[d] = "up" => client[d] = "up"
    BY SameSessions
<1> SUFFICES ASSUME NEW g \in Conn, NEW u \in User, Follows(g, u)' PROVE NoticedAt(g, u)'
    BY DEF Noticed
<1> DEFINE w == name[g]
<1>2. LoggedIn(g) /\ NoticedAt(g, u)
    BY <1>1 DEF Aware, Noticed, Follows
<1>3. Online(w)
    BY <1>2, OnlineIsLoggedIn
<1>4. ASSUME told[g][u] # "none", NEW d \in Conn, LoggedIn(d), name[d] = u
      PROVE  /\ Unsaid(d, w) => Unsaid(d, w)'
             /\ Saying(d, w) => Saying(d, w)'
    <2>1. CASE d = c
        <3>1. w \in Friend[name[c]]
            BY <1>2, <1>4, <2>1 DEF NoticedAt
        <3> QED
            BY <1>1, <1>3, <1>4, <2>1, <3>1, SaysOn DEF Aware, Unsaid, Saying, Pending
    <2>2. CASE d # c
        <3>1. pc'[d] = pc[d] /\ job'[d] = job[d]
            BY <2>2, StepOfOne
        <3> QED
            BY <1>1, <3>1 DEF Unsaid, Saying, Pending
    <2> QED
        BY <2>1, <2>2
<1> QED
    BY <1>1, <1>2, <1>4 DEF NoticedAt, Unsaid, Saying, Pending

\* What a thread writes to the one it looked up: a notice, if it has one and the
\* node was not freed, and if his client is there.
LEMMA SendStep ==
    ASSUME Sound, IInv, Working, NEW c \in Conn, Send(c)
    PROVE  LET notice == Notice(job[c].kind) IN
           /\ pc[c] = "send" /\ pc'[c] = "find" /\ freed'[c] = {}
           /\ job'[c].kind = job[c].kind /\ job'[c].todo = job[c].todo
           /\ \A d \in Conn \ {c} : freed'[d] = freed[d]
           /\ \/ freed[c] # {} /\ UNCHANGED told
              \/ \E r \in Conn :
                   /\ freed[c] = {} /\ LoggedIn(r) /\ name[r] = job[c].for
                   /\ \/ UNCHANGED told /\ (notice = "none" \/ client[r] # "up")
                      \/ notice # "none" /\ told' = [told EXCEPT ![r][name[c]] = notice]
<1> DEFINE notice == Notice(job[c].kind)
<1>1. TypeOK /\ OwnDescriptor
    BY DEF Sound
<1>2. pc[c] = "send" /\ pc'[c] = "find" /\ freed' = [freed EXCEPT ![c] = {}]
    BY <1>1 DEF Send, Goto, TypeOK
<1>3. job'[c].kind = job[c].kind /\ job'[c].todo = job[c].todo
    BY <1>1 DEF Send, TypeOK, Job
<1>4. freed'[c] = {} /\ \A d \in Conn \ {c} : freed'[d] = freed[d]
    BY <1>1, <1>2 DEF TypeOK
<1> HIDE DEF notice
<1>5. CASE freed[c] # {}
    <2>1. UNCHANGED told
        BY <1>5 DEF Send, Write
    <2> QED
        BY <1>2, <1>3, <1>4, <1>5, <2>1
<1>6. CASE freed[c] = {}
    <2>1. PICK r \in Behind(job[c].to) : LoggedIn(r) /\ name[r] = job[c].for
        BY <1>2, <1>6 DEF IInv, RightReceiver
    <2>2. Write(c, job[c].to, notice)
        BY <1>6 DEF Send, notice
    <2>3. r \in Conn /\ \A q \in Behind(job[c].to) : q = r
        BY <1>1, <2>1 DEF Behind, OwnDescriptor
    <2>4. \/ UNCHANGED told /\ (notice = "none" \/ client[r] # "up")
          \/ notice # "none" /\ told' = [told EXCEPT ![r][name[c]] = notice]
        BY <2>1, <2>2, <2>3 DEF Write
    <2> QED
        BY <1>2, <1>3, <1>4, <1>6, <2>1, <2>3, <2>4 DEF notice
<1> QED
    BY <1>5, <1>6

LEMMA NoticesSent ==
    ASSUME Sound, IInv, Aware, NEW c \in Conn, Send(c)
    PROVE  Noticed'
<1>1. TypeOK /\ WorkingAt(c) /\ Working /\ OneEach
    BY DEF Sound, Aware, Working
<1>2. Step(c) /\ pc[c] = "send"
    BY DEF Step, Send
<1>3. ~Login(c) /\ ~Remove(c)
    BY <1>2 DEF Login, Start, Remove, Done
<1>4. /\ UNCHANGED <<name, overlap>> /\ \A d \in Conn : LoggedIn(d)' <=> LoggedIn(d)
      /\ \A d \in Conn : LoggedIn(d) /\ client'[d] = "up" => client[d] = "up"
    BY <1>2, <1>3, SameSessions
<1>5. /\ pc'[c] = "find" /\ freed'[c] = {} /\ \A d \in Conn \ {c} : freed'[d] = freed[d]
      /\ job'[c].kind = job[c].kind /\ job'[c].todo = job[c].todo
    BY <1>1, SendStep
<1>6. \A d \in Conn \ {c} : pc'[d] = pc[d] /\ job'[d] = job[d]
    BY <1>2, StepOfOne
<1>7. LoggedIn(c)
    BY <1>1, <1>2 DEF WorkingAt, Busy, LoggedIn
<1> SUFFICES ASSUME NEW g \in Conn, NEW u \in User, Follows(g, u)' PROVE NoticedAt(g, u)'
    BY DEF Noticed
<1> DEFINE w == name[g]
           Hit == /\ freed[c] = {} /\ job[c].kind \in {"login", "logout"}
                  /\ job[c].for = w /\ name[c] = u
<1>8. LoggedIn(g) /\ client[g] = "up" /\ w \notin overlap /\ u \notin overlap /\ NoticedAt(g, u)
    BY <1>4 DEF Aware, Noticed, Follows
<1>9. CASE Hit
    <2>1. Notice(job[c].kind) = IF job[c].kind = "login" THEN "online" ELSE "offline"
        BY <1>9 DEF Notice
    <2>2. PICK r \in Conn :
             /\ LoggedIn(r) /\ name[r] = job[c].for
             /\ \/ UNCHANGED told /\ client[r] # "up"
                \/ told' = [told EXCEPT ![r][name[c]] = Notice(job[c].kind)]
        BY <1>1, <1>9, <2>1, SendStep
    <2>3. r = g
        BY <1>1, <1>8, <1>9, <2>2 DEF OneEach
    <2>4. told' = [told EXCEPT ![g][u] = Notice(job[c].kind)]
        BY <1>8, <1>9, <2>2, <2>3
    <2>5. told'[g][u] = Notice(job[c].kind)
        BY <1>1, <2>4 DEF TypeOK
    <2>6. w \in Friend[u]
        BY <1>1, <1>2, <1>9 DEF WorkingAt
    <2>7. CASE job[c].kind = "login"
        BY <1>4, <1>5, <1>7, <1>9, <2>1, <2>5, <2>6, <2>7 DEF NoticedAt, Unsaid
    <2>8. CASE job[c].kind = "logout"
        <3>1. \A d \in Conn : LoggedIn(d) /\ name[d] = u => d = c
            BY <1>1, <1>7, <1>8, <1>9 DEF OneEach
        <3> QED
            BY <1>4, <1>5, <2>1, <2>5, <2>6, <2>8, <3>1 DEF NoticedAt, Saying
    <2> QED
        BY <1>9, <2>7, <2>8
<1>10. CASE ~Hit
    <2>1. told'[g][u] = told[g][u]
        <3>1. CASE UNCHANGED told
            BY <3>1
        <3>2. ASSUME NEW r \in Conn, freed[c] = {}, name[r] = job[c].for,
                     Notice(job[c].kind) # "none",
                     told' = [told EXCEPT ![r][name[c]] = Notice(job[c].kind)]
              PROVE  told'[g][u] = told[g][u]
            <4>1. job[c].kind \in {"login", "logout"}
                BY <3>2 DEF Notice
            <4>2. r # g \/ name[c] # u
                BY <1>10, <3>2, <4>1
            <4> HIDE DEF Hit
            <4>3. told' = [told EXCEPT ![r] = [told[r] EXCEPT ![name[c]] = Notice(job[c].kind)]]
                BY <3>2
            <4>4. told \in [Conn -> [User -> {"none", "online", "offline"}]]
                BY <1>1 DEF TypeOK
            <4> QED
                BY <4>2, <4>3, <4>4
        <3> QED
            BY <1>1, <3>1, <3>2, SendStep
    <2>2. ASSUME NEW d \in Conn, name[d] = u
          PROVE  /\ Unsaid(d, w) => Unsaid(d, w)'
                 /\ Saying(d, w) => Saying(d, w)'
        <3>1. CASE d = c
            BY <1>4, <1>5, <1>10, <2>2, <3>1 DEF Unsaid, Saying, Pending
        <3>2. CASE d # c
            <4>1. pc'[d] = pc[d] /\ job'[d] = job[d] /\ freed'[d] = freed[d]
                BY <1>5, <1>6, <3>2
            <4> QED
                BY <1>4, <4>1 DEF Unsaid, Saying, Pending
        <3> QED
            BY <3>1, <3>2
    <2> HIDE DEF Hit
    <2> QED
        BY <1>4, <1>8, <2>1, <2>2 DEF NoticedAt, Unsaid, Saying, Pending
<1> QED
    BY <1>9, <1>10

\* He who is taken off the list has told everybody, and whoever was to be told
\* something and stays still has his node.
LEMMA NoticesDone ==
    ASSUME Sound, IInv, Aware, NEW c \in Conn, Remove(c)
    PROVE  Noticed' /\ OneEach' /\ Untold'
<1>1. TypeOK /\ OwnDescriptor /\ WorkingAt(c) /\ Working /\ OneEach /\ RightReceiver
    BY DEF Sound, Aware, Working, IInv
<1>2. /\ pc[c] = "find" /\ job[c].kind = "logout" /\ job[c].todo = {} /\ Finish(c, "end")
      /\ UNCHANGED <<client, name, overlap, told>>
    BY DEF Remove, Done, history
<1>3. LoggedIn(c) /\ fd[c] # 0
    BY <1>1, <1>2 DEF WorkingAt, Busy, LoggedIn, OwnDescriptor
<1>4. \A d \in Conn \ {c} : pc'[d] = pc[d] /\ job'[d] = job[d]
    BY StepOfOne DEF Step
<1>5. pc'[c] = "end"
    BY <1>1, <1>2, FinishedJob
<1>6. \A d \in Conn : LoggedIn(d)' <=> LoggedIn(d) /\ d # c
    BY <1>2, <1>4, <1>5 DEF LoggedIn
<1>7. OneEach' /\ Untold'
    BY <1>1, <1>2, <1>6 DEF OneEach, Untold, Aware
<1>8. ASSUME NEW g \in Conn, NEW u \in User, Follows(g, u)' PROVE NoticedAt(g, u)'
    <2> DEFINE w == name[g]
    <2>1. g # c /\ LoggedIn(g) /\ w \notin overlap /\ NoticedAt(g, u)
        BY <1>2, <1>6, <1>8 DEF Follows, Aware, Noticed
    <2>2. ASSUME NEW d \in Conn \ {c}, pc[d] = "send", job[d].for = w, freed[d] = {}
          PROVE  freed'[d] = {}
        <3>1. PICK r \in Behind(job[d].to) : LoggedIn(r) /\ name[r] = w
            BY <1>1, <2>2 DEF RightReceiver
        <3>2. r = g
            BY <1>1, <2>1, <3>1 DEF OneEach, Behind
        <3>3. fd[g] = job[d].to /\ fd[g] # fd[c]
            BY <1>1, <1>3, <2>1, <3>1, <3>2 DEF Behind, OwnDescriptor
        <3> QED
            BY <2>2, <3>3 DEF Remove
    <2>3. ASSUME NEW d \in Conn \ {c}
          PROVE  /\ Unsaid(d, w) => Unsaid(d, w)'
                 /\ Saying(d, w) => Saying(d, w)'
        <3>1. Pending(d, w) => Pending(d, w)'
            BY <1>2, <1>4, <2>2 DEF Pending
        <3> QED
            BY <1>2, <1>4, <3>1 DEF Unsaid, Saying
    <2>4. ~Unsaid(c, w)
        BY <1>2 DEF Unsaid, Pending
    <2>5. told[g][u] = "online" =>
            \E d \in Conn : LoggedIn(d)' /\ name[d] = u /\ Unsaid(d, w)'
        BY <1>6, <2>1, <2>3, <2>4 DEF NoticedAt
    <2>6. told[g][u] = "offline" =>
            \A d \in Conn : LoggedIn(d)' /\ name[d] = u => Saying(d, w)'
        BY <1>6, <2>1, <2>3 DEF NoticedAt
    <2> QED
        BY <1>2, <2>1, <2>5, <2>6 DEF NoticedAt, Unsaid, Saying, Pending
<1> QED
    BY <1>7, <1>8 DEF Noticed

\* He who logs in has told nobody yet, and his friends on line are on his list.
LEMMA NoticesBegin ==
    ASSUME Sound, IInv, Aware, NEW c \in Conn, Login(c)
    PROVE  Noticed' /\ OneEach' /\ Untold'
<1>1. TypeOK /\ WorkingAt(c) /\ Working /\ OneEach /\ Untold
    BY DEF Sound, Aware, Working
<1>2. PICK v \in User :
        /\ Start(c, "login", Friend[v], "load") /\ name' = [name EXCEPT ![c] = v]
        /\ overlap' = IF Online(v) THEN overlap \cup {v} ELSE overlap
    BY DEF Login
<1>3. name[c] = NoName /\ UNCHANGED <<client, told>>
    BY DEF Login
<1>4. /\ pc'[c] = "load" /\ job'[c].kind = "login" /\ job'[c].todo = Friend[v]
      /\ \A d \in Conn \ {c} : pc'[d] = pc[d] /\ job'[d] = job[d]
    BY <1>1, <1>2, StartedJob
<1>5. name'[c] = v /\ \A d \in Conn \ {c} : name'[d] = name[d]
    BY <1>1, <1>2 DEF TypeOK
<1>6. ~LoggedIn(c) /\ \A d \in Conn \ {c} : LoggedIn(d)' <=> LoggedIn(d)
    BY <1>3, <1>4, <1>5 DEF LoggedIn
<1>7. \A d \in Conn : freed'[d] = {} <=> freed[d] = {}
    BY DEF Login
<1>8. v \notin overlap' => \A d \in Conn : LoggedIn(d) => name[d] # v
    BY <1>2, OnlineIsLoggedIn
<1>9. overlap \subseteq overlap'
    BY <1>2
<1>10. OneEach'
    BY <1>1, <1>5, <1>6, <1>8, <1>9 DEF OneEach
<1>11. Untold'
    <2>1. v # NoName
        BY PresenceAssumption
    <2> QED
        BY <1>1, <1>3, <1>5, <2>1 DEF Untold
<1>12. ASSUME NEW g \in Conn, NEW u \in User, Follows(g, u)' PROVE NoticedAt(g, u)'
    <2>1. CASE g = c
        <3>1. told'[g][u] = "none"
            BY <1>1, <1>3, <2>1 DEF Untold
        <3> QED
            BY <3>1 DEF NoticedAt
    <2>2. CASE g # c
        <3> DEFINE w == name[g]
        <3>1. name'[g] = w /\ NoticedAt(g, u)
            BY <1>3, <1>5, <1>6, <1>9, <1>12, <2>2 DEF Follows, Aware, Noticed
        <3>2. ASSUME NEW d \in Conn \ {c}
              PROVE  (Unsaid(d, w) => Unsaid(d, w)') /\ (Saying(d, w) => Saying(d, w)')
            <4>1. name'[g] = name[g]
                BY <3>1
            <4> QED
                BY <1>4, <1>7, <4>1 DEF Unsaid, Saying, Pending
        <3>3. told[g][u] # "none" => w \in Friend[u]
            BY <3>1 DEF NoticedAt
        <3>4. told[g][u] # "none" /\ v = u => Saying(c, w)'
            BY <1>4, <3>1, <3>3 DEF Saying, Pending
        <3>5. told[g][u] = "online" =>
                \E d \in Conn : LoggedIn(d)' /\ name'[d] = u /\ Unsaid(d, w)'
            BY <1>5, <1>6, <3>1, <3>2 DEF NoticedAt
        <3>6. told[g][u] = "offline" =>
                \A d \in Conn : LoggedIn(d)' /\ name'[d] = u => Saying(d, w)'
            BY <1>5, <1>6, <3>1, <3>2, <3>4 DEF NoticedAt
        <3> QED
            BY <1>3, <3>1, <3>3, <3>5, <3>6 DEF NoticedAt, Unsaid, Saying, Pending
    <2> QED
        BY <2>1, <2>2
<1> QED
    BY <1>10, <1>11, <1>12 DEF Noticed

LEMMA AwareStep ==
    ASSUME Sound, IInv, Aware, NEW c \in Conn, Step(c)
    PROVE  Aware'
<1>1. Working'
    BY WorkingStep DEF Aware
<1>2. CASE Login(c)
    BY <1>1, <1>2, NoticesBegin DEF Aware
<1>3. CASE Remove(c)
    BY <1>1, <1>3, NoticesDone DEF Aware
<1>4. CASE ~Login(c) /\ ~Remove(c)
    <2>1. /\ UNCHANGED <<name, overlap>> /\ (Send(c) \/ UNCHANGED told)
          /\ \A d \in Conn : LoggedIn(d)' <=> LoggedIn(d)
        BY <1>4, SameSessions
    <2>2. OneEach'
        BY <2>1 DEF Aware, OneEach
    <2>3. Untold'
        <3>1. CASE UNCHANGED told
            BY <2>1, <3>1 DEF Aware, Untold
        <3>2. ASSUME NEW r \in Conn, NEW n, LoggedIn(r), told' = [told EXCEPT ![r][name[c]] = n]
              PROVE  Untold'
            <4>1. \A d \in Conn : d # r => told'[d] = told[d]
                BY <3>2 DEF Sound, TypeOK
            <4>2. name[r] # NoName
                BY <3>2 DEF LoggedIn
            <4> QED
                BY <2>1, <4>1, <4>2 DEF Aware, Untold
        <3> QED
            BY <2>1, <3>1, <3>2, SendStep DEF Aware
    <2>4. Noticed'
        BY <1>4, NoticesKept, NoticesSent
    <2> QED
        BY <1>1, <2>2, <2>3, <2>4 DEF Aware
<1> QED
    BY <1>2, <1>3, <1>4

LEMMA AwareAlways == Spec => []Aware
<1>1. Init => Aware
    <2> SUFFICES ASSUME Init PROVE Aware
        OBVIOUS
    <2>1. Working
        BY IdleJob DEF Init, Working, WorkingAt, Busy
    <2>2. Untold /\ OneEach /\ Noticed
        BY DEF Init, Untold, OneEach, Noticed, Follows, LoggedIn
    <2> QED
        BY <2>1, <2>2 DEF Aware
<1>2. Sound /\ IInv /\ Aware /\ [Next]_vars => Aware'
    <2> SUFFICES ASSUME Sound, IInv, Aware, [Next]_vars PROVE Aware'
        OBVIOUS
    <2>1. CASE Next
        BY <2>1, AwareStep DEF Next, Step
    <2>2. CASE UNCHANGED vars
        <3>1. UNCHANGED <<client, fd, name, pc, job, freed, told, overlap>>
            BY <2>2 DEF vars, history
        <3>2. Working' /\ Untold' /\ OneEach'
            BY <3>1 DEF Aware, Working, WorkingAt, Untold, OneEach, LoggedIn
        <3>3. Noticed'
            BY <3>1 DEF Aware, Noticed, NoticedAt, Follows, LoggedIn, Unsaid, Saying, Pending
        <3> QED
            BY <3>2, <3>3 DEF Aware
    <2> QED
        BY <2>1, <2>2
<1> QED
    BY <1>1, <1>2, SoundAlways, ListedAlways, PTL DEF Spec

-----------------------------------------------------------------------------
(* The theorems *)

\* Every variable has its type and file_io_mutex is held by a thread that writes
\* to a group and by no other (notify_group_members), whatever the numbers of
\* clients, users and descriptors.
THEOREM TypeCorrect == Spec => []TypeOK
<1>1. Sound => TypeOK
    BY DEF Sound
<1> QED
    BY <1>1, SoundAlways, PTL

\* The list of who is on line never has a ghost, nor does it miss anybody: each
\* logged in thread has one entry, with its descriptor and its user, although
\* descriptors are handed out again as soon as they are closed (add_online,
\* remove_online).
THEOREM ListAgrees == Spec => []OnlineListed
<1>1. IInv => OnlineListed
    BY DEF IInv
<1> QED
    BY <1>1, ListedAlways, PTL

\* What is written to a descriptor goes to the user it was found for, unless
\* that user has been taken off the list since (find_online_fd, send_message).
THEOREM ReceiverIsMeant == Spec => []RightReceiver
<1>1. IInv => RightReceiver
    BY DEF IInv
<1> QED
    BY <1>1, ListedAlways, PTL

\* When every thread rests, the last notice that a client got about a user is
\* true, for any number of users, connections and descriptors: a session's
\* notices and the removal of its entry come in an order that no other session
\* of the user upsets (notify_friend_status, remove_online), unless he logged in
\* while still on line.
THEOREM NoticesAreTrue == Spec => []NoticesTrue
<1>1. Sound /\ IInv /\ Aware => NoticesTrue
    <2> SUFFICES ASSUME Sound, IInv, Aware, Quiet,
                        NEW c \in Conn, NEW u \in User \ overlap,
                        LoggedIn(c), name[c] \notin overlap, told[c][u] # "none"
                 PROVE  told[c][u] = "online" <=> Online(u)
        BY DEF NoticesTrue
    <2>1. client[c] = "up"
        <3>1. pc[c] # "gone" /\ client[c] \in {"new", "up", "left"}
            BY DEF LoggedIn, Sound, TypeOK
        <3> QED
            BY <3>1 DEF Quiet, IInv, Fresh
    <2>2. NoticedAt(c, u)
        BY <2>1 DEF Aware, Noticed, Follows
    <2>3. \A d \in Conn : job[d].kind = "none"
        BY DEF Aware, Working, WorkingAt, Busy, Quiet
    <2>4. told[c][u] \in {"online", "offline"}
        BY DEF Sound, TypeOK
    <2>5. CASE told[c][u] = "online"
        BY <2>2, <2>5, OnlineIsLoggedIn DEF NoticedAt
    <2>6. CASE told[c][u] = "offline"
        BY <2>2, <2>3, <2>6, OnlineIsLoggedIn DEF NoticedAt, Saying
    <2> QED
        BY <2>4, <2>5, <2>6
<1> QED
    BY <1>1, SoundAlways, ListedAlways, AwareAlways, PTL
=============================================================================
