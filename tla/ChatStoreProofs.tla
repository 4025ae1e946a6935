--------------------------- MODULE ChatStoreProofs ---------------------------
(***************************************************************************)
(* The chat server's files agree, for any numbers of clients, users and    *)
(* groups, however their requests overlap.  Each of the two invariants is  *)
(* inductive on the types: a write keeps both its files in step, by what   *)
(* it does and not by what was checked before it.  That no line is there   *)
(* twice does rest on the check, so it needs that no other write came      *)
(* between (ListedOnce).                                                   *)
(***************************************************************************)
EXTENDS ChatStore, TLAPS

\* A request's target is of the kind its type says.
LEMMA RequestTarget ==
    ASSUME NEW r \in Request
    PROVE  /\ r.type \in {"register", "add_friend", "remove_friend"} => r.target \in User
           /\ r.type \in {"create", "join", "leave"} => r.target \in Group
           /\ r.type \in {"register", "add_friend", "remove_friend", "create", "join", "leave"}
BY DEF Request

\* What a write leaves, complete or broken off after its first file.
Tables ==
    /\ users \in [User -> Nat]
    /\ friends \in [Name -> [Name -> Nat]]
    /\ created \subseteq Group /\ members \in [Group -> [Name -> Nat]]
    /\ groups \in [Name -> [Group -> Nat]]

\* No write takes a file out of its type.
LEMMA ChangeTyped ==
    ASSUME Tables, NEW a \in Name, NEW r \in Request, NEW reached \in BOOLEAN,
           Change(a, r, reached)
    PROVE  Tables'
<1> USE DEF Tables
<1>0. User \subseteq Name
    BY DEF Name
<1>1. CASE r.type = "register" /\ store_user(r.target)
    BY <1>1, RequestTarget DEF store_user
<1>2. CASE r.type = "add_friend" /\ add_friend_both(a, r.target, reached)
    <2>1. r.target \in Name
        BY <1>0, <1>2, RequestTarget
    <2> DEFINE first == [friends EXCEPT ![a][r.target] = @ + 1]
    <2>2. first \in [Name -> [Name -> Nat]]
        BY <2>1
    <2>3. friends' = [first EXCEPT ![r.target][a] = Added(@, reached)]
        BY <1>2 DEF add_friend_both
    <2>4. \A n \in Nat : Added(n, reached) \in Nat
        BY DEF Added
    <2>5. friends' \in [Name -> [Name -> Nat]]
        <3> HIDE DEF first
        <3> QED
            BY <2>1, <2>2, <2>3, <2>4
    <2> QED
        BY <1>2, <2>5 DEF add_friend_both
<1>3. CASE r.type = "remove_friend" /\ remove_friend_both(a, r.target, reached)
    BY ZenonT(30), <1>0, <1>3, RequestTarget DEF remove_friend_both, Struck
<1>4. CASE r.type = "create" /\ create_group(r.target, a, reached)
    BY <1>4, RequestTarget DEF create_group, Added
<1>5. CASE r.type = "join" /\ join_group(r.target, a, reached)
    BY <1>5, RequestTarget DEF join_group, Added
<1>6. CASE r.type = "leave" /\ leave_group(r.target, a, reached)
    BY <1>6, RequestTarget DEF leave_group, Struck
<1> QED
    BY <1>1, <1>2, <1>3, <1>4, <1>5, <1>6 DEF Change

\* Every variable keeps its type, whatever the numbers of threads, users and
\* groups (handle_client and the functions of server_tool.c it calls).
THEOREM TypeCorrect == Spec => []TypeOK
<1>1. Init => TypeOK
    <2> SUFFICES ASSUME Init PROVE TypeOK
        OBVIOUS
    <2>1. Tables
        BY DEF Init, Tables
    <2>2. name \in [Handler -> Name] /\ req \in [Handler -> Request \cup {NoRequest}]
        BY DEF Init, Name
    <2>3. requests \in Nat /\ crashes \in Nat /\ overlap \in BOOLEAN /\ torn \in BOOLEAN
        BY DEF Init
    <2> QED
        BY <2>1, <2>2, <2>3 DEF TypeOK, Tables
<1>2. TypeOK /\ [Next]_vars => TypeOK'
    <2> SUFFICES ASSUME TypeOK, [Next]_vars PROVE TypeOK'
        OBVIOUS
    <2>1. Tables
        BY DEF TypeOK, Tables
    <2>2. ASSUME NEW h \in Handler, Check(h) PROVE TypeOK'
        BY <2>2 DEF TypeOK, Check, files
    <2>3. ASSUME NEW h \in Handler, Write(h) PROVE TypeOK'
        <3>1. name[h] \in Name /\ req[h] \in Request
            BY <2>3 DEF TypeOK, Write, Idle
        <3>2. Tables'
            BY <2>1, <2>3, <3>1, ChangeTyped DEF Write
        <3> QED
            BY <2>3, <3>2 DEF TypeOK, Tables, Write, history
    <2>4. ASSUME NEW h \in Handler, Login(h) PROVE TypeOK'
        BY <2>4 DEF TypeOK, Login, files, history, Name
    <2>5. ASSUME NEW h \in Handler, Disconnect(h) PROVE TypeOK'
        BY <2>5 DEF TypeOK, Disconnect, files, history, Name
    <2>6. CASE Crash
        <3>1. Tables'
            <4>1. CASE UNCHANGED files
                BY <2>1, <4>1 DEF Tables, files
            <4>2. ASSUME NEW h \in Handler, ~Idle(h), Change(name[h], req[h], FALSE)
                  PROVE  Tables'
                <5>1. name[h] \in Name /\ req[h] \in Request
                    BY <4>2 DEF TypeOK, Idle
                <5> QED
                    BY <2>1, <4>2, <5>1, ChangeTyped
            <4> QED
                BY <2>6, <4>1, <4>2 DEF Crash
        <3>2. torn' \in BOOLEAN /\ overlap' \in BOOLEAN
            BY <2>6 DEF TypeOK, Crash
        <3>3. /\ name' \in [Handler -> Name] /\ req' \in [Handler -> Request \cup {NoRequest}]
              /\ requests' \in Nat /\ crashes' \in Nat
            BY <2>6, StoreAssumption DEF TypeOK, Crash, Name
        <3> QED
            BY <3>1, <3>2, <3>3 DEF TypeOK, Tables
    <2>7. CASE UNCHANGED vars
        BY <2>7 DEF TypeOK, vars, files, history
    <2> QED
        BY <2>2, <2>3, <2>4, <2>5, <2>6, <2>7 DEF Next
<1> QED
    BY <1>1, <1>2, PTL DEF Spec

-----------------------------------------------------------------------------

Mutual == \A a, b \in Name : friends[a][b] = friends[b][a]

Listed == \A g \in Group, a \in Name : members[g][a] <= groups[a][g]

\* Adding and removing a friend treat the two files alike.
LEMMA ChangeMutual ==
    ASSUME Tables, Mutual, NEW a \in Name, NEW r \in Request, Change(a, r, TRUE)
    PROVE  Mutual'
<1>0. User \subseteq Name
    BY DEF Name
<1>1. CASE UNCHANGED friends
    BY <1>1 DEF Mutual
<1>2. CASE r.type = "add_friend" /\ add_friend_both(a, r.target, TRUE)
    BY <1>0, <1>2, RequestTarget DEF add_friend_both, Added, Mutual, Tables
<1>3. CASE r.type = "remove_friend" /\ remove_friend_both(a, r.target, TRUE)
    BY <1>0, <1>3, RequestTarget DEF remove_friend_both, Struck, Mutual, Tables
<1> QED
    BY <1>1, <1>2, <1>3 DEF Change, store_user, create_group, join_group, leave_group

\* No write puts a member into a group's file without the group in his list.
LEMMA ChangeListed ==
    ASSUME Tables, Listed, NEW a \in Name, NEW r \in Request, Change(a, r, TRUE)
    PROVE  Listed'
<1>1. CASE UNCHANGED <<members, groups>>
    BY <1>1 DEF Listed
<1>2. CASE r.type = "create" /\ create_group(r.target, a, TRUE)
    BY <1>2, RequestTarget DEF create_group, Added, Listed, Tables
<1>3. CASE r.type = "join" /\ join_group(r.target, a, TRUE)
    BY <1>3, RequestTarget DEF join_group, Added, Listed, Tables
<1>4. CASE r.type = "leave" /\ leave_group(r.target, a, TRUE)
    BY <1>4, RequestTarget DEF leave_group, Struck, Listed, Tables
<1> QED
    BY <1>1, <1>2, <1>3, <1>4 DEF Change, store_user, add_friend_both, remove_friend_both

\* What the files were when no crash had torn a write, they are after a step.
Agree == TypeOK /\ (~torn => Mutual /\ Listed)

LEMMA AgreeInductive == Agree /\ TypeOK' /\ [Next]_vars => Agree'
<1> SUFFICES ASSUME Agree, TypeOK', [Next]_vars, ~torn' PROVE Mutual' /\ Listed'
    BY DEF Agree
<1>1. ASSUME NEW h \in Handler, Write(h) PROVE Mutual' /\ Listed'
    <2>1. name[h] \in Name /\ req[h] \in Request /\ Tables
        BY <1>1 DEF Agree, TypeOK, Tables, Write, Idle
    <2>2. Mutual /\ Listed
        BY <1>1 DEF Agree, Write, history
    <2> QED
        BY <1>1, <2>1, <2>2, ChangeMutual, ChangeListed DEF Write
<1>2. CASE UNCHANGED <<files, torn>>
    BY <1>2 DEF Agree, Mutual, Listed, files
<1>3. CASE Crash
    BY <1>2, <1>3 DEF Crash
<1>4. ASSUME NEW h \in Handler, Check(h) \/ Login(h) \/ Disconnect(h)
      PROVE  UNCHANGED <<files, torn>>
    BY <1>4 DEF Check, Login, Disconnect, history
<1>5. UNCHANGED vars => UNCHANGED <<files, torn>>
    BY DEF vars, history
<1> QED
    BY <1>1, <1>2, <1>3, <1>4, <1>5 DEF Next

\* The conjuncts of Agree hold for ever.
LEMMA AgreeAlways == Spec => []Agree
<1>1. Init => Mutual /\ Listed
    BY DEF Init, Mutual, Listed
<1>2. TypeOK /\ Mutual /\ Listed => Agree
    BY DEF Agree
<1> QED
    BY <1>1, <1>2, AgreeInductive, TypeCorrect, PTL DEF Spec

\* For any number of clients that add and remove one another at once, the two
\* friends' files keep agreeing (add_friend_both, remove_friend_both).
THEOREM FriendsAgree == Spec => []FriendsMutual
<1>1. Agree => FriendsMutual
    BY DEF Agree, Mutual, FriendsMutual
<1> QED
    BY <1>1, AgreeAlways, PTL

\* For any number of clients that create, join and leave at once, a member of a
\* group's file has the group in his own (create_group, join_group, leave_group).
THEOREM MembersListed == Spec => []MemberListed
<1>1. Agree => MemberListed
    BY DEF Agree, Listed, MemberListed
<1> QED
    BY <1>1, AgreeAlways, PTL

-----------------------------------------------------------------------------
(* Requests that do not overlap.                                            *)

\* The two lists of each membership and of each friendship agree, no line is
\* there twice, and a group without a file has no member.
OnceInFiles ==
    /\ \A g \in Group, a \in Name : members[g][a] = groups[a][g] /\ members[g][a] <= 1
    /\ \A g \in Group \ created, a \in Name : members[g][a] = 0
    /\ Mutual /\ \A a, b \in Name : friends[a][b] <= 1

\* One request at most is between its check and its write, and what was checked
\* still holds.
CheckedAlone ==
    /\ \A h, k \in Handler : ~Idle(h) /\ ~Idle(k) => h = k
    /\ \A h \in Handler : ~Idle(h) => Accepted(name[h], req[h])

\* A write keeps no line twice if what its check found still holds.
LEMMA ChangeOnce ==
    ASSUME Tables, OnceInFiles, NEW a \in Name, NEW r \in Request, Accepted(a, r),
           Change(a, r, TRUE)
    PROVE  OnceInFiles'
<1>0. User \subseteq Name /\ Mutual'
    BY ChangeMutual DEF Name, OnceInFiles
<1> USE DEF Tables
<1>1. CASE r.type = "register" /\ store_user(r.target)
    BY <1>0, <1>1 DEF store_user, OnceInFiles
<1>2. CASE r.type = "add_friend" /\ add_friend_both(a, r.target, TRUE)
    <2>1. r.target \in Name /\ friends[a][r.target] = 0 /\ friends[r.target][a] = 0 /\ a # r.target
        BY <1>0, <1>2, RequestTarget DEF Accepted, is_friend, OnceInFiles, Mutual
    <2> DEFINE first == [friends EXCEPT ![a][r.target] = @ + 1]
    <2>2. /\ first \in [Name -> [Name -> Nat]]
          /\ \A x, y \in Name : first[x][y] =
                 IF x = a /\ y = r.target THEN friends[x][y] + 1 ELSE friends[x][y]
        BY <2>1
    <2>3. friends' = [first EXCEPT ![r.target][a] = @ + 1]
        BY <1>2 DEF add_friend_both, Added
    <2>4. \A x, y \in Name : friends'[x][y] <= 1
        <3> HIDE DEF first
        <3>1. \A x, y \in Name : friends'[x][y] =
                  IF x = r.target /\ y = a THEN first[x][y] + 1 ELSE first[x][y]
            BY <2>1, <2>2, <2>3
        <3>2. \A x, y \in Name : friends[x][y] <= 1
            BY DEF OnceInFiles
        <3> QED
            BY <2>1, <2>2, <3>1, <3>2
    <2> QED
        BY <1>0, <1>2, <2>4 DEF add_friend_both, OnceInFiles
<1>3. CASE r.type = "remove_friend" /\ remove_friend_both(a, r.target, TRUE)
    <2> DEFINE first == [friends EXCEPT ![a][r.target] = 0]
    <2>1. r.target \in Name /\ friends' = [first EXCEPT ![r.target][a] = 0]
        BY <1>0, <1>3, RequestTarget DEF remove_friend_both, Struck
    <2>2. \A x, y \in Name : friends[x][y] <= 1
        BY DEF OnceInFiles
    <2>3. first \in [Name -> [Name -> Nat]] /\ \A x, y \in Name : first[x][y] <= 1
        <3>1. first \in [Name -> [Name -> Nat]]
            BY <2>1
        <3>2. \A x, y \in Name : first[x][y] =
                  IF x = a /\ y = r.target THEN 0 ELSE friends[x][y]
            BY <2>1
        <3> QED
            BY <2>2, <3>1, <3>2
    <2>4. \A x, y \in Name : friends'[x][y] <= 1
        <3> HIDE DEF first
        <3> QED
            BY <2>1, <2>3
    <2> QED
        BY <1>0, <1>3, <2>4 DEF remove_friend_both, OnceInFiles
<1>4. CASE r.type = "create" /\ create_group(r.target, a, TRUE)
    <2>1. r.target \in Group \ created /\ groups[a][r.target] = 0
        BY <1>4, RequestTarget DEF Accepted, group_exists, OnceInFiles
    <2> QED
        BY <1>0, <1>4, <2>1 DEF create_group, Added, OnceInFiles
<1>5. CASE r.type = "join" /\ join_group(r.target, a, TRUE)
    <2>1. r.target \in Group /\ members[r.target][a] = 0
        BY <1>5, RequestTarget DEF Accepted, is_in_group
    <2> QED
        BY <1>0, <1>5, <2>1 DEF join_group, Added, OnceInFiles
<1>6. CASE r.type = "leave" /\ leave_group(r.target, a, TRUE)
    BY <1>0, <1>6, RequestTarget DEF leave_group, Struck, OnceInFiles
<1> QED
    BY <1>1, <1>2, <1>3, <1>4, <1>5, <1>6 DEF Change

Once == ~torn /\ ~overlap => OnceInFiles /\ CheckedAlone

LEMMA OnceInductive == TypeOK /\ Once /\ [Next]_vars => Once'
<1> SUFFICES ASSUME TypeOK, Once, [Next]_vars, ~torn', ~overlap'
             PROVE  OnceInFiles' /\ CheckedAlone'
    BY DEF Once
<1>1. ASSUME NEW h \in Handler, Check(h) PROVE OnceInFiles' /\ CheckedAlone'
    <2>1. ~torn /\ ~overlap /\ \A k \in Handler : Idle(k)
        BY <1>1 DEF Check, TypeOK
    <2>2. OnceInFiles'
        BY <1>1, <2>1 DEF Once, OnceInFiles, Mutual, Check, files
    <2>3. PICK r \in Request : Accepted(name[h], r) /\ req' = [req EXCEPT ![h] = r]
        BY <1>1 DEF Check
    <2>4. Accepted(name[h], r)'
        BY <1>1, <2>3 DEF Check, files, Accepted, user_exists, is_friend, group_exists, is_in_group
    <2>5. name'[h] = name[h] /\ req'[h] = r /\ \A k \in Handler \ {h} : Idle(k)'
        BY <1>1, <2>1, <2>3 DEF Check, TypeOK, Idle
    <2> QED
        BY <2>2, <2>4, <2>5 DEF CheckedAlone
<1>2. ASSUME NEW h \in Handler, Write(h) PROVE OnceInFiles' /\ CheckedAlone'
    <2>1. /\ name[h] \in Name /\ req[h] \in Request /\ Tables
          /\ OnceInFiles /\ CheckedAlone /\ ~Idle(h)
        BY <1>2 DEF TypeOK, Tables, Write, Idle, history, Once
    <2>2. Accepted(name[h], req[h]) /\ \A k \in Handler \ {h} : Idle(k)
        BY <2>1 DEF CheckedAlone
    <2>3. OnceInFiles'
        BY <1>2, <2>1, <2>2, ChangeOnce DEF Write
    <2>4. \A k \in Handler : Idle(k)'
        BY <1>2, <2>2 DEF Write, Idle, TypeOK
    <2> QED
        BY <2>3, <2>4 DEF CheckedAlone
<1>3. ASSUME UNCHANGED <<files, req, torn, overlap>>,
             \A h \in Handler : ~Idle(h) => name'[h] = name[h]
      PROVE  OnceInFiles' /\ CheckedAlone'
    <2>1. OnceInFiles /\ CheckedAlone
        BY <1>3 DEF Once
    <2>2. OnceInFiles'
        BY <1>3, <2>1 DEF OnceInFiles, Mutual, files
    <2>3. ASSUME NEW h \in Handler, ~Idle(h)' PROVE Accepted(name[h], req[h])'
        <3>1. ~Idle(h) /\ name'[h] = name[h] /\ req'[h] = req[h]
            BY <1>3, <2>3 DEF Idle
        <3>2. Accepted(name[h], req[h])
            BY <2>1, <3>1 DEF CheckedAlone
        <3> QED
            BY <1>3, <3>1, <3>2 DEF Accepted, user_exists, is_friend, group_exists, is_in_group, files
    <2> QED
        BY <1>3, <2>1, <2>2, <2>3 DEF CheckedAlone, Idle
<1>4. ASSUME NEW h \in Handler, Login(h) \/ Disconnect(h)
      PROVE  OnceInFiles' /\ CheckedAlone'
    <2>1. /\ UNCHANGED <<files, req, torn, overlap>> /\ Idle(h)
          /\ \E u : name' = [name EXCEPT ![h] = u]
        BY <1>4 DEF Login, Disconnect, history
    <2> QED
        BY <1>3, <2>1 DEF TypeOK
<1>5. CASE Crash
    <2>1. UNCHANGED <<files, torn, overlap>> /\ req' = [h \in Handler |-> NoRequest]
        BY <1>5 DEF Crash
    <2>2. OnceInFiles'
        BY <2>1 DEF Once, OnceInFiles, Mutual, files
    <2> QED
        BY <2>1, <2>2 DEF CheckedAlone, Idle
<1>6. CASE UNCHANGED vars
    BY <1>3, <1>6 DEF vars, history
<1> QED
    BY <1>1, <1>2, <1>4, <1>5, <1>6 DEF Next

\* For any numbers of clients, users and groups: unless requests overlap or a
\* crash tears a write, no line of a file is there twice and the two lists of a
\* membership agree: nothing comes between a check and its write.
THEOREM NoLineTwice == Spec => []ListedOnce
<1>1. Init => Once
    BY DEF Init, Once, OnceInFiles, Mutual, CheckedAlone, Idle
<1>2. Once => ListedOnce
    BY DEF Once, OnceInFiles, ListedOnce
<1> QED
    BY <1>1, <1>2, OnceInductive, TypeCorrect, PTL DEF Spec
=============================================================================
