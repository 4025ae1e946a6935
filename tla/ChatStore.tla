----------------------------- MODULE ChatStore -----------------------------
(***************************************************************************)
(* The files of the chat server and the requests that change them:         *)
(* handle_client (server.c) with the functions of server_tool.c.           *)
(*                                                                         *)
(* A request is a check and a write, each under file_io_mutex, and the     *)
(* mutex is free between them.  (Where the code checks twice, as in        *)
(* user_exists and is_friend, the first answer cannot change any more when *)
(* it is yes.)  A write changes two files, one after the other; nobody     *)
(* sees the time between, except a crash of the server: the files stay as  *)
(* they are, and the server starts again with no client.                   *)
(*                                                                         *)
(* A file is the number of times each name is a line of it.  The names of  *)
(* users and groups are such that no two files have one path: no user is   *)
(* called `group' (with a group called `friends' or `groups').             *)
(***************************************************************************)
EXTENDS Naturals

CONSTANTS Handler,      \* the threads that run handle_client
          User, Group,
          NoName,       \* the empty user name of a client not logged in
          NoRequest,
          MaxRequests,  \* bound: the requests that pass their check
          MaxCrash      \* bound: the crashes

ASSUME StoreAssumption ==
    NoName \notin User /\ MaxRequests \in Nat /\ MaxCrash \in Nat

Name == User \cup {NoName}

Request == [type : {"register", "add_friend", "remove_friend"}, target : User]
             \cup [type : {"create", "join", "leave"}, target : Group]

VARIABLES
    users,      \* users.txt
    friends,    \* <user>_friends.txt, for each user
    created,    \* the groups that have a file
    members,    \* group_<group>.txt
    groups,     \* <user>_groups.txt
    name,       \* the user name each handler knows
    req,        \* what each handler is between check and write of
    requests, crashes,
    overlap,    \* history: a request passed its check while another was between
    torn        \* history: a crash came between the two files of a write

files   == <<users, friends, created, members, groups>>
history == <<requests, crashes, overlap, torn>>
vars    == <<files, name, req, history>>

Init ==
    /\ users = [u \in User |-> 0]
    /\ friends = [a \in Name |-> [b \in Name |-> 0]]
    /\ created = {} /\ members = [g \in Group |-> [a \in Name |-> 0]]
    /\ groups = [a \in Name |-> [g \in Group |-> 0]]
    /\ name = [h \in Handler |-> NoName] /\ req = [h \in Handler |-> NoRequest]
    /\ requests = 0 /\ crashes = 0 /\ overlap = FALSE /\ torn = FALSE

-----------------------------------------------------------------------------
(* The checks *)

user_exists(u) == users[u] > 0
is_friend(a, b) == friends[a][b] > 0
group_exists(g) == g \in created
is_in_group(g, a) == members[g][a] > 0

\* A bug to detect: whoever is in the group may join it.
Accepted_JoinAgain(a, r) ==
    CASE r.type = "register"      -> ~user_exists(r.target)
      [] r.type = "add_friend"    -> a # r.target /\ user_exists(r.target)
                                       /\ ~is_friend(a, r.target)
      [] r.type = "remove_friend" -> user_exists(r.target)
      [] r.type = "create"        -> ~group_exists(r.target)
      [] r.type = "join"          -> group_exists(r.target)
      [] r.type = "leave"         -> group_exists(r.target) /\ is_in_group(r.target, a)

\* The request of a client logged in as `a' is not refused.
Accepted(a, r) ==
    CASE r.type = "register"      -> ~user_exists(r.target)
      [] r.type = "add_friend"    -> a # r.target /\ user_exists(r.target)
                                       /\ ~is_friend(a, r.target)
      [] r.type = "remove_friend" -> user_exists(r.target)
      [] r.type = "create"        -> ~group_exists(r.target)
      [] r.type = "join"          -> group_exists(r.target)
                                       /\ ~is_in_group(r.target, a)
      [] r.type = "leave"         -> group_exists(r.target) /\ is_in_group(r.target, a)

Idle(h) == req[h] = NoRequest

\* A refused request changes nothing.
Check(h) ==
    /\ Idle(h) /\ requests < MaxRequests
    /\ \E r \in Request : Accepted(name[h], r) /\ req' = [req EXCEPT ![h] = r]
    /\ requests' = requests + 1
    /\ overlap' = (overlap \/ \E k \in Handler : ~Idle(k))
    /\ UNCHANGED <<files, name, crashes, torn>>

-----------------------------------------------------------------------------
(* The writes.  The last argument is whether the second file is reached.    *)

\* fprintf to a file opened to append; a copy without the lines that match.
Added(n, reached) == IF reached THEN n + 1 ELSE n

\* A bug to detect: one line is left out, not every one that matches.
Struck_OneLine(n, reached) == IF reached THEN n - 1 ELSE n

Struck(n, reached) == IF reached THEN 0 ELSE n

store_user(u) ==
    /\ users' = [users EXCEPT ![u] = @ + 1]
    /\ UNCHANGED <<friends, created, members, groups>>

\* A bug to detect: both lines go to the file of the one who asks.
add_friend_both_OneFile(a, b, reached) ==
    /\ friends' = [friends EXCEPT ![a][b] = Added(@ + 1, reached)]
    /\ UNCHANGED <<users, created, members, groups>>

add_friend_both(a, b, reached) ==
    /\ LET mine == [friends EXCEPT ![a][b] = @ + 1]
       IN  friends' = [mine EXCEPT ![b][a] = Added(@, reached)]
    /\ UNCHANGED <<users, created, members, groups>>

remove_friend_both(a, b, reached) ==
    /\ LET mine == [friends EXCEPT ![a][b] = 0]
       IN  friends' = [mine EXCEPT ![b][a] = Struck(@, reached)]
    /\ UNCHANGED <<users, created, members, groups>>

\* The group's file is opened to be written anew.
create_group(g, a, reached) ==
    /\ created' = created \cup {g}
    /\ members' = [members EXCEPT ![g] = [b \in Name |-> IF b = a THEN 1 ELSE 0]]
    /\ groups' = [groups EXCEPT ![a][g] = Added(@, reached)]
    /\ UNCHANGED <<users, friends>>

join_group(g, a, reached) ==
    /\ created' = created \cup {g}
    /\ members' = [members EXCEPT ![g][a] = @ + 1]
    /\ groups' = [groups EXCEPT ![a][g] = Added(@, reached)]
    /\ UNCHANGED <<users, friends>>

\* A bug to detect: the group's file is left as it is.
leave_group_KeepsMember(g, a, reached) ==
    /\ groups' = [groups EXCEPT ![a][g] = Struck(@, reached)]
    /\ UNCHANGED <<users, friends, created, members>>

leave_group(g, a, reached) ==
    /\ members' = [members EXCEPT ![g][a] = 0]
    /\ groups' = [groups EXCEPT ![a][g] = Struck(@, reached)]
    /\ UNCHANGED <<users, friends, created>>

Change(a, r, reached) ==
    \/ r.type = "register"      /\ store_user(r.target)
    \/ r.type = "add_friend"    /\ add_friend_both(a, r.target, reached)
    \/ r.type = "remove_friend" /\ remove_friend_both(a, r.target, reached)
    \/ r.type = "create"        /\ create_group(r.target, a, reached)
    \/ r.type = "join"          /\ join_group(r.target, a, reached)
    \/ r.type = "leave"         /\ leave_group(r.target, a, reached)

Write(h) ==
    /\ ~Idle(h)
    /\ Change(name[h], req[h], TRUE)
    /\ req' = [req EXCEPT ![h] = NoRequest]
    /\ UNCHANGED <<name, history>>

-----------------------------------------------------------------------------
(* Clients and the server's life *)

\* authenticate_user; a client may log in again, as somebody else.
Login(h) ==
    /\ Idle(h)
    /\ \E u \in User : user_exists(u) /\ name' = [name EXCEPT ![h] = u]
    /\ UNCHANGED <<files, req, history>>

\* The client goes, another connects.
Disconnect(h) ==
    /\ Idle(h) /\ name[h] # NoName
    /\ name' = [name EXCEPT ![h] = NoName]
    /\ UNCHANGED <<files, req, history>>

\* The server dies, perhaps between the two files of the one write that is
\* under way, and is started again.
Crash ==
    /\ crashes < MaxCrash /\ crashes' = crashes + 1
    /\ \/ UNCHANGED <<files, torn>>
       \/ \E h \in Handler : ~Idle(h) /\ Change(name[h], req[h], FALSE) /\ torn' = TRUE
    /\ name' = [h \in Handler |-> NoName] /\ req' = [h \in Handler |-> NoRequest]
    /\ UNCHANGED <<requests, overlap>>

Next ==
    \/ \E h \in Handler : Check(h) \/ Write(h) \/ Login(h) \/ Disconnect(h)
    \/ Crash

Spec == Init /\ [][Next]_vars

-----------------------------------------------------------------------------
(* Invariants *)

\* Every variable has its type.
TypeOK ==
    /\ users \in [User -> Nat]
    /\ friends \in [Name -> [Name -> Nat]]
    /\ created \subseteq Group /\ members \in [Group -> [Name -> Nat]]
    /\ groups \in [Name -> [Group -> Nat]]
    /\ name \in [Handler -> Name] /\ req \in [Handler -> Request \cup {NoRequest}]
    /\ requests \in Nat /\ crashes \in Nat
    /\ overlap \in BOOLEAN /\ torn \in BOOLEAN

\* Friendship is mutual, line by line, whatever requests overlap: no chat is
\* refused to one side that the other may have (server.c asks both files).
\* Only a crash between the two files parts them.
FriendsMutual == ~torn => \A a, b \in Name : friends[a][b] = friends[b][a]

\* Whoever is a line of a group's file finds the group in his own list at least
\* as often, also when two users create one group at once and the second wipes
\* the first out of the group's file.
MemberListed ==
    ~torn => \A g \in Group, a \in Name : members[g][a] <= groups[a][g]

\* When requests do not overlap, the two lists of a membership agree, and no
\* line is there twice: what was checked still holds when it is written.
ListedOnce ==
    ~torn /\ ~overlap =>
        /\ \A g \in Group, a \in Name : members[g][a] = groups[a][g] /\ members[g][a] <= 1
        /\ \A a, b \in Name : friends[a][b] <= 1

\* What an answer of the server promises and the code does not keep: a name
\* that exists is not registered again.
NameTakenOnce == \A u \in User : users[u] <= 1
=============================================================================
