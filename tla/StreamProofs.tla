---------------------------- MODULE StreamProofs ----------------------------
(***************************************************************************)
(* The stream server and its client, for any channels, files, processes    *)
(* and numbers of choices: there is at most one player, which the client   *)
(* knows, a channel's files are played in their order, and the list of the *)
(* channels arrives as it was sent, when it fits.  The packet is written   *)
(* and read by recursive functions, whose equations have to be proved      *)
(* first (Iterates).                                                       *)
(***************************************************************************)
EXTENDS Stream, FiniteSets, SequenceTheorems, WellFoundedInduction, TLAPS

-----------------------------------------------------------------------------
(* Recursive functions: the equations of Sized, Place and entries hold *)

\* Of the numbers in a set that is not empty one is the least.
Below == {p \in Nat \X Nat : p[1] < p[2]}

LEMMA Least ==
    ASSUME NEW S, S \subseteq Nat, S # {}
    PROVE  \E m \in S : \A n \in S : m <= n
<1>1. Below = OpToRel(<, Nat)
    BY DEF Below, OpToRel
<1>2. PICK m \in S : \A n \in S : <<n, m>> \notin Below
    BY <1>1, NatLessThanWellFounded, WFMin
<1>3. ASSUME NEW n \in S PROVE m <= n
    <2>1. m \in Nat /\ n \in Nat
        OBVIOUS
    <2>2. n < m => <<n, m>> \in Below
        BY <2>1 DEF Below
    <2> QED
        BY <1>2, <2>1, <2>2
<1> QED
    BY <1>3

\* f repeats, from a on, the steps that G gives.
Repeats(f, N, S, a, G) ==
    f \in [0..N -> S] /\ f[0] = a /\ \A i \in 1..N : f[i] = G[i][f[i - 1]]

\* Whatever is given and steps from one value to the next can be repeated.
LEMMA Iterates ==
    ASSUME NEW N \in Nat, NEW S, NEW a \in S, NEW G \in [1..N -> [S -> S]]
    PROVE  \E f : Repeats(f, N, S, a, G)
<1> DEFINE Upto(n) == \E f \in [0..n -> S] : f[0] = a /\ \A i \in 1..n : f[i] = G[i][f[i - 1]]
           bad == {n \in 0..N : ~Upto(n)}
<1>0. SUFFICES ASSUME bad # {} PROVE FALSE
    <2> SUFFICES Upto(N)
        BY DEF Repeats
    <2> HIDE DEF Upto
    <2>1. N \in 0..N /\ (bad = {} => Upto(N))
        OBVIOUS
    <2> QED
        BY <2>1
<1>1. PICK n \in bad : \A k \in bad : n <= k
    <2>1. bad \subseteq Nat
        OBVIOUS
    <2> HIDE DEF bad
    <2> QED
        BY <1>0, <2>1, Least
<1>2. n \in 0..N /\ ~Upto(n)
    OBVIOUS
<1>3. n # 0
    <2>1. Upto(0)
        <3> DEFINE h == [i \in 0..0 |-> a]
        <3>1. h \in [0..0 -> S] /\ h[0] = a /\ \A i \in 1..0 : h[i] = G[i][h[i - 1]]
            OBVIOUS
        <3> HIDE DEF h
        <3> QED
            BY <3>1
    <2> QED
        BY <1>2, <2>1
<1>4. Upto(n - 1)
    <2>1. n - 1 \in 0..N /\ ~(n <= n - 1)
        BY <1>2, <1>3
    <2> HIDE DEF Upto
    <2> QED
        BY <1>1, <2>1
<1>5. PICK g \in [0..n - 1 -> S] : g[0] = a /\ \A i \in 1..n - 1 : g[i] = G[i][g[i - 1]]
    BY <1>4
<1> DEFINE f == [i \in 0..n |-> IF i = n THEN G[n][g[n - 1]] ELSE g[i]]
<1>6. n \in 1..N /\ n - 1 \in 0..n - 1 /\ G[n][g[n - 1]] \in S
    <2>1. n \in 1..N /\ n - 1 \in 0..n - 1
        BY <1>2, <1>3
    <2>2. g[n - 1] \in S /\ G[n] \in [S -> S]
        BY <2>1, <1>5
    <2> QED
        BY <2>1, <2>2
<1>7. f \in [0..n -> S] /\ f[0] = a
    BY <1>5, <1>6
<1>8. ASSUME NEW i \in 1..n PROVE f[i] = G[i][f[i - 1]]
    <2>1. i \in 0..n /\ i - 1 \in 0..n /\ i - 1 # n /\ f[i - 1] = g[i - 1]
        BY <1>6
    <2>2. CASE i = n
        BY <2>1, <2>2
    <2>3. CASE i # n
        <3>1. i \in 1..n - 1 /\ f[i] = g[i]
            BY <1>6, <2>1, <2>3
        <3> HIDE DEF f
        <3> QED
            BY <1>5, <2>1, <3>1
    <2> QED
        BY <2>2, <2>3
<1> HIDE DEF f
<1> QED
    BY <1>2, <1>7, <1>8

-----------------------------------------------------------------------------
(* The players *)

\* The processes that have been forked and not been waited for.
Held == {p \in Pid : process[p] # "none"}

\* What holds of them at each place of the client.
Players ==
    /\ process \in [Pid -> {"none", "live", "dead"}]
    /\ pc \in {"select", "stop", "waited", "stopped", "forked", "gone"}
    /\ pc \in {"select", "stop"} => Held \subseteq {player_pid}
    /\ pc \in {"waited", "stopped"} => Held = {}
    /\ pc = "forked" => \A p, q \in Held : p = q
    /\ pc = "gone" => Held = {} \/ orphan

LEMMA KilledHeld ==
    ASSUME NEW p, process \in [Pid -> {"none", "live", "dead"}], process' = Killed(p)
    PROVE  process' \in [Pid -> {"none", "live", "dead"}] /\ Held' = Held \ {p}
BY DEF Held, Killed

\* The client is told something, or chooses a channel.
LEMMA LoopPlayers ==
    ASSUME Players, (\E c \in Bytes : ReceiveData(c)) \/ ReceiveList \/ Choose
    PROVE  Players'
<1>1. /\ UNCHANGED <<process, player_pid>> /\ pc = "select" /\ pc' \in {"select", "stop"}
    BY DEF ReceiveData, ReceiveList, Choose, Start
<1> QED
    BY <1>1 DEF Players, Held

\* start_player, step by step.
LEMMA StartingPlayers ==
    ASSUME Players, Starting
    PROVE  Players'
<1>1. CASE StopKills
    <2>1. pc = "stop" /\ pc' = "waited" /\ process' = Killed(player_pid)
        BY <1>1 DEF StopKills, Go
    <2>2. process' \in [Pid -> {"none", "live", "dead"}] /\ Held' = {}
        BY <2>1, KilledHeld DEF Players
    <2> QED
        BY <2>1, <2>2 DEF Players
<1>2. CASE StopClears
    BY <1>2 DEF StopClears, Go, Players, Held
<1>3. CASE Fork
    <2>1. pc = "stopped" /\ pc' = "forked"
        BY <1>3 DEF Fork, Go
    <2>2. PICK p \in Pid : process' = [process EXCEPT ![p] = "live"]
        BY <1>3 DEF Fork, Free
    <2>3. process' \in [Pid -> {"none", "live", "dead"}] /\ Held' \subseteq {p}
        BY <2>1, <2>2 DEF Players, Held
    <2> QED
        BY <2>1, <2>3 DEF Players
<1>4. CASE Started
    <2>1. pc = "forked" /\ pc' = "select" /\ UNCHANGED process
        BY <1>4 DEF Started, Go
    <2>2. player_pid' \in Held
        BY <1>4 DEF Started, Held
    <2> QED
        BY <2>1, <2>2 DEF Players, Held
<1> QED
    BY <1>1, <1>2, <1>3, <1>4 DEF Starting

\* The client goes, whatever it was doing.
LEMMA EndPlayers ==
    ASSUME Players, ForkFails \/ Quit \/ Signal
    PROVE  Players'
<1>1. pc' = "gone"
    BY DEF ForkFails, Quit, Signal, Exit
<1>2. CASE ForkFails
    BY <1>1, <1>2 DEF ForkFails, Players, Held
<1>3. CASE Quit \/ Signal
    <2>1. process' \in [Pid -> {"none", "live", "dead"}] /\ Held' = Held \ {player_pid}
        BY <1>3, KilledHeld DEF Quit, Signal, Players
    <2>2. pc # "gone" /\ (pc # "forked" => Held \subseteq {player_pid}) /\ (pc = "forked" => orphan')
        BY <1>3 DEF Quit, Signal, Players
    <2> QED
        BY <1>1, <2>1, <2>2 DEF Players
<1> QED
    BY <1>2, <1>3

LEMMA DeathPlayers ==
    ASSUME Players, PlayerDies
    PROVE  Players'
<1>1. UNCHANGED <<pc, player_pid, orphan>>
    BY DEF PlayerDies
<1>2. process' \in [Pid -> {"none", "live", "dead"}] /\ Held' = Held
    BY DEF PlayerDies, Players, Held
<1> QED
    BY <1>1, <1>2 DEF Players

LEMMA PlayersStep ==
    ASSUME Players, [Next]_vars
    PROVE  Players'
<1>1. CASE UNCHANGED client
    BY <1>1 DEF client, Players, Held
<1>2. CASE (\E c \in Bytes : ReceiveData(c)) \/ ReceiveList \/ ClientAlone
    BY <1>2, LoopPlayers, StartingPlayers, EndPlayers, DeathPlayers DEF ClientAlone
<1> QED
    BY <1>1, <1>2 DEF Next, vars, Served, Lost, SendChnList, Receive

\* There is at most one player and the client knows which (player_pid), although
\* players die, the user changes channels and a signal may end the client between
\* any two steps of stop_player and start_player; only a signal between fork and
\* the store of its result leaves a player alone (sig_handler).
THEOREM PlayerIsKnown == Spec => []OnePlayer
<1>1. Init => Players
    BY DEF Init, ClientInit, Players, Held
<1>2. Players /\ [Next]_vars => Players'
    BY PlayersStep
<1>3. Players => OnePlayer
    BY DEF Players, OnePlayer, Held
<1> QED
    BY <1>1, <1>2, <1>3, PTL DEF Spec

-----------------------------------------------------------------------------
(* The order in which a channel's files are read *)

\* What a channel's thread keeps has its type.
Places ==
    /\ sender \in [Channels -> {"none", "read", "pay"}]
    /\ cur_ind \in [Channels -> Nat] /\ offset \in [Channels -> Int]
    /\ last \in [Channels -> (Nat \X Nat) \cup {<< >>}] /\ failed \in [Channels -> BOOLEAN]
    /\ \A c \in Channels : cur_ind[c] \in DOMAIN Files[c] /\ offset[c] \in -1..Files[c][cur_ind[c]]

\* Where channel c stands after block k of file f.
After(c, f, k) ==
    /\ f \in DOMAIN Files[c] /\ k \in 0..Files[c][f] - 1
    /\ \/ cur_ind[c] = f /\ offset[c] = k + 1
       \/ offset[c] \in {-1, 0} /\ cur_ind[c] = f /\ failed[c]
       \/ offset[c] \in {-1, 0} /\ k + 1 = Files[c][f] /\ Reached(c, f, cur_ind[c])

Stands(c) == last[c] # << >> => After(c, last[c][1], last[c][2])

InOrder == Places /\ \A c \in Channels : Stands(c)

LEMMA FilesTyped ==
    ASSUME NEW c \in Channels
    PROVE  /\ Files[c] \in Seq(Nat) /\ Len(Files[c]) \in Nat \ {0}
           /\ DOMAIN Files[c] = 1..Len(Files[c])
<1>1. c \in DOMAIN Files
    BY FilesAssumption, DescrAssumption DEF Channels
<1>2. Files[c] \in Seq(Nat) /\ Files[c] # << >>
    BY <1>1, FilesAssumption
<1> QED
    BY <1>2

\* The file after one that was reached is reached too, if that one is empty.
LEMMA NextReached ==
    ASSUME NEW c \in Channels, NEW f \in DOMAIN Files[c], cur_ind[c] \in DOMAIN Files[c]
    PROVE  /\ NextFile(c) \in DOMAIN Files[c]
           /\ cur_ind[c] = f => Reached(c, f, NextFile(c))
           /\ Reached(c, f, cur_ind[c]) /\ Files[c][cur_ind[c]] = 0 /\ Files[c][f] # 0 =>
                Reached(c, f, NextFile(c))
<1> DEFINE n == Len(Files[c])
<1>1. n \in Nat \ {0} /\ DOMAIN Files[c] = 1..n
    BY FilesTyped
<1>2. NextFile(c) \in DOMAIN Files[c]
    BY <1>1 DEF NextFile
<1>3. ASSUME cur_ind[c] = f PROVE Reached(c, f, NextFile(c))
    <2>1. NextFile(c) = Ahead(c, f, 1) /\ 1 \in 1..n
        BY <1>1, <1>3 DEF NextFile, Ahead
    <2> QED
        BY <2>1 DEF Reached
<1>4. ASSUME Reached(c, f, cur_ind[c]), Files[c][cur_ind[c]] = 0, Files[c][f] # 0
      PROVE  Reached(c, f, NextFile(c))
    <2>1. PICK d \in 1..n : /\ cur_ind[c] = Ahead(c, f, d)
                            /\ \A e \in 1..d - 1 : Files[c][Ahead(c, f, e)] = 0
        BY <1>4 DEF Reached
    <2>2. d # n
        BY <1>1, <1>4, <2>1 DEF Ahead
    <2>3. d + 1 \in 1..n /\ NextFile(c) = Ahead(c, f, d + 1)
        <3>1. n \in Nat /\ f \in 1..n /\ d \in 1..n - 1
            BY <1>1, <2>2
        <3>2. cur_ind[c] = (IF f + d > n THEN f + d - n ELSE f + d)
            BY <2>1 DEF Ahead
        <3>3. NextFile(c) = (IF cur_ind[c] + 1 > n THEN 1 ELSE cur_ind[c] + 1)
            BY DEF NextFile
        <3>4. Ahead(c, f, d + 1) = (IF f + (d + 1) > n THEN f + (d + 1) - n ELSE f + (d + 1))
            BY DEF Ahead
        <3> HIDE DEF n
        <3> QED
            BY <3>1, <3>2, <3>3, <3>4
    <2>4. \A e \in 1..(d + 1) - 1 : Files[c][Ahead(c, f, e)] = 0
        <3> SUFFICES ASSUME NEW e \in 1..(d + 1) - 1 PROVE Files[c][Ahead(c, f, e)] = 0
            OBVIOUS
        <3>1. e \in 1..d - 1 \/ e = d
            BY <1>1
        <3> QED
            BY <1>4, <2>1, <3>1
    <2> QED
        BY <2>3, <2>4 DEF Reached
<1> QED
    BY <1>2, <1>3, <1>4

\* A channel's thread stays where it is.
LEMMA SamePlace ==
    ASSUME NEW c \in Channels, Stands(c), cur_ind'[c] = cur_ind[c], offset'[c] = offset[c],
           last'[c] = last[c], failed'[c] = failed[c]
    PROVE  Stands(c)'
BY DEF Stands, After, Reached, Ahead

\* What each step of a channel's thread does to the place it stands at.
LEMMA OpenInOrder ==
    ASSUME InOrder, NEW c \in Channels, Open(c)
    PROVE  InOrder'
<1>1. /\ Places /\ offset[c] = -1 /\ UNCHANGED <<sender, cur_ind, last, failed>>
      /\ offset' \in [Channels -> Int] /\ offset'[c] \in {-1, 0}
      /\ \A d \in Channels \ {c} : offset'[d] = offset[d]
    BY DEF InOrder, Open, Fails, Places
<1>2. Files[c] \in Seq(Nat) /\ Files[c][cur_ind[c]] \in Nat
    BY <1>1, FilesTyped DEF Places
<1>3. Places'
    <2>1. offset'[c] \in -1..Files[c][cur_ind[c]]
        BY <1>1, <1>2
    <2>2. \A d \in Channels : offset'[d] \in -1..Files[d][cur_ind[d]]
        BY <1>1, <2>1 DEF Places
    <2> QED
        BY <1>1, <2>2 DEF Places
<1>4. ASSUME NEW d \in Channels PROVE Stands(d)'
    <2>1. CASE d = c
        BY <1>1, <2>1 DEF InOrder, Stands, After, Reached, Ahead
    <2>2. CASE d # c
        BY <1>1, <2>2, SamePlace DEF InOrder
    <2> QED
        BY <2>1, <2>2
<1> QED
    BY <1>3, <1>4 DEF InOrder

LEMMA ReadFailsInOrder ==
    ASSUME InOrder, NEW c \in Channels, ReadFails(c)
    PROVE  InOrder'
<1>1. /\ Places /\ offset[c] # -1 /\ UNCHANGED <<sender, cur_ind, last>>
      /\ offset' = [offset EXCEPT ![c] = -1] /\ failed' = [failed EXCEPT ![c] = TRUE]
    BY DEF InOrder, ReadFails, Places
<1>2. Files[c] \in Seq(Nat) /\ Files[c][cur_ind[c]] \in Nat
    BY <1>1, FilesTyped DEF Places
<1>3. Places'
    <2>1. /\ offset' \in [Channels -> Int] /\ offset'[c] = -1
          /\ \A d \in Channels \ {c} : offset'[d] = offset[d]
        BY <1>1 DEF Places
    <2>2. failed' \in [Channels -> BOOLEAN]
        BY <1>1 DEF Places
    <2> QED
        BY <1>1, <1>2, <2>1, <2>2 DEF Places
<1>4. ASSUME NEW d \in Channels PROVE Stands(d)'
    <2>1. CASE d = c
        BY <1>1, <2>1 DEF InOrder, Places, Stands, After, Reached, Ahead
    <2>2. CASE d # c
        BY <1>1, <2>2, SamePlace DEF InOrder, Places
    <2> QED
        BY <2>1, <2>2
<1> QED
    BY <1>3, <1>4 DEF InOrder

LEMMA ReadEndInOrder ==
    ASSUME InOrder, NEW c \in Channels, ReadEnd(c)
    PROVE  InOrder'
<1>1. /\ Places /\ offset[c] >= 0 /\ offset[c] >= Files[c][cur_ind[c]]
      /\ UNCHANGED <<sender, last, failed>>
      /\ offset' = [offset EXCEPT ![c] = -1] /\ cur_ind' = [cur_ind EXCEPT ![c] = NextFile(c)]
    BY DEF InOrder, ReadEnd, AtEnd, Places
<1>2. /\ Files[c] \in Seq(Nat) /\ cur_ind[c] \in DOMAIN Files[c]
      /\ NextFile(c) \in DOMAIN Files[c] /\ DOMAIN Files[c] \subseteq Nat
    BY <1>1, FilesTyped, NextReached DEF Places
<1>3. Places'
    BY SMTT(20), <1>1, <1>2 DEF Places
<1>4. Stands(c)'
    <2> SUFFICES ASSUME last[c] # << >> PROVE After(c, last[c][1], last[c][2])'
        BY <1>1 DEF Stands
    <2> DEFINE f == last[c][1]
               k == last[c][2]
    <2>1. After(c, f, k)
        BY DEF InOrder, Stands
    <2>2. f \in DOMAIN Files[c] /\ k \in 0..Files[c][f] - 1 /\ Files[c][f] \in Nat
        <3>1. f \in DOMAIN Files[c] /\ k \in 0..Files[c][f] - 1
            BY <2>1 DEF After
        <3> HIDE DEF f, k
        <3> QED
            BY <1>2, <3>1
    <2>3. offset[c] = Files[c][cur_ind[c]] /\ offset'[c] = -1 /\ cur_ind'[c] = NextFile(c)
        BY <1>1, <1>2 DEF Places
    <2> HIDE DEF f, k
    <2>4. k + 1 = Files[c][f] /\ Reached(c, f, NextFile(c))
        <3>1. CASE cur_ind[c] = f /\ offset[c] = k + 1
            BY <1>2, <2>2, <2>3, <3>1, NextReached
        <3>2. CASE offset[c] \in {-1, 0} /\ cur_ind[c] = f /\ failed[c]
            BY <1>1, <2>2, <2>3, <3>2
        <3>3. CASE offset[c] \in {-1, 0} /\ k + 1 = Files[c][f] /\ Reached(c, f, cur_ind[c])
            <4>1. Files[c][cur_ind[c]] = 0 /\ Files[c][f] # 0
                BY <1>1, <2>2, <2>3, <3>3
            <4> QED
                BY <1>2, <2>2, <3>3, <4>1, NextReached
        <3> QED
            BY <2>1, <3>1, <3>2, <3>3 DEF After
    <2>5. Reached(c, f, cur_ind'[c])
        BY <2>3, <2>4
    <2>6. f = last'[c][1] /\ k = last'[c][2]
        BY <1>1 DEF f, k
    <2> QED
        BY <2>2, <2>3, <2>4, <2>5, <2>6 DEF After, Reached, Ahead
<1>5. ASSUME NEW d \in Channels \ {c} PROVE Stands(d)'
    BY <1>1, SamePlace DEF InOrder, Places
<1> QED
    BY <1>3, <1>4, <1>5 DEF InOrder

\* A block is read: the one PlaysInOrder wants.
Wanted(c) ==
    last'[c] # last[c] /\ last[c] # << >> =>
        LET f == last[c][1]  k == last[c][2]  g == last'[c][1]  l == last'[c][2] IN
        \/ g = f /\ l = k + 1
        \/ l = 0 /\ k + 1 = Files[c][f] /\ Reached(c, f, g) /\ Files[c][g] > 0
        \/ l = 0 /\ g = f /\ failed[c]

LEMMA ReadBlockInOrder ==
    ASSUME InOrder, NEW c \in Channels, ReadBlock(c)
    PROVE  InOrder' /\ \A d \in Channels : Wanted(d)
<1>1. /\ Places /\ offset[c] >= 0 /\ ~(offset[c] >= Files[c][cur_ind[c]])
      /\ last' = [last EXCEPT ![c] = <<cur_ind[c], offset[c]>>]
      /\ offset' = [offset EXCEPT ![c] = @ + 1] /\ UNCHANGED cur_ind
      /\ sender' = [sender EXCEPT ![c] = "pay"] /\ failed' = [failed EXCEPT ![c] = FALSE]
    BY DEF InOrder, ReadBlock, AtEnd
<1>2. /\ Files[c] \in Seq(Nat) /\ cur_ind[c] \in DOMAIN Files[c] /\ cur_ind[c] \in Nat
      /\ Files[c][cur_ind[c]] \in Nat /\ offset[c] \in Nat /\ offset[c] < Files[c][cur_ind[c]]
    BY <1>1, FilesTyped DEF Places
<1>3. last'[c] = <<cur_ind[c], offset[c]>> /\ offset'[c] = offset[c] + 1
    BY <1>1 DEF Places
<1>4. Places'
    <2>1. offset' \in [Channels -> Int] /\ \A d \in Channels \ {c} : offset'[d] = offset[d]
        BY <1>1, <1>2 DEF Places
    <2>2. \A d \in Channels : offset'[d] \in -1..Files[d][cur_ind[d]]
        BY <1>1, <1>2, <1>3, <2>1 DEF Places
    <2>3. last' \in [Channels -> (Nat \X Nat) \cup {<< >>}]
        BY <1>1, <1>2 DEF Places
    <2>4. sender' \in [Channels -> {"none", "read", "pay"}] /\ failed' \in [Channels -> BOOLEAN]
        BY <1>1 DEF Places
    <2> QED
        BY <1>1, <2>1, <2>2, <2>3, <2>4 DEF Places
<1>5. Stands(c)'
    BY <1>1, <1>2, <1>3 DEF Stands, After
<1>6. ASSUME NEW d \in Channels \ {c} PROVE Stands(d)' /\ Wanted(d)
    BY <1>1, SamePlace DEF InOrder, Places, Wanted
<1>7. Wanted(c)
    BY SMTT(20), <1>2, <1>3 DEF InOrder, Stands, After, Wanted
<1> QED
    BY <1>4, <1>5, <1>6, <1>7 DEF InOrder

\* The other steps leave every channel where it is.
LEMMA SamePlaces ==
    ASSUME InOrder, UNCHANGED <<cur_ind, offset, last, failed>>,
           sender' \in [Channels -> {"none", "read", "pay"}]
    PROVE  InOrder'
<1>1. Places'
    BY DEF InOrder, Places
<1> QED
    BY <1>1, SamePlace DEF InOrder

LEMMA InOrderStep ==
    ASSUME InOrder, [Next]_vars
    PROVE  InOrder' /\ \A c \in Channels : Wanted(c)
<1>1. CASE \E c \in Channels : ReadBlock(c)
    BY <1>1, ReadBlockInOrder
<1>2. CASE \E c \in Channels : Open(c) \/ ReadFails(c) \/ ReadEnd(c)
    <2>1. UNCHANGED last
        BY <1>2 DEF Open, ReadFails, ReadEnd
    <2> QED
        BY <1>2, <2>1, OpenInOrder, ReadFailsInOrder, ReadEndInOrder DEF Wanted
<1>3. CASE UNCHANGED server \/ AddTask \/ \E c \in Channels : Pay(c) \/ Send(c)
    <2>1. /\ UNCHANGED <<cur_ind, offset, last, failed>>
          /\ sender' \in [Channels -> {"none", "read", "pay"}]
        BY <1>3 DEF server, AddTask, Pay, Send, InOrder, Places
    <2> QED
        BY <2>1, SamePlaces DEF Wanted
<1> QED
    BY <1>1, <1>2, <1>3 DEF Next, vars, Local, Served, Lost, SendChnList, Receive, ClientAlone

LEMMA InitInOrder == Init => InOrder
<1>1. ASSUME NEW c \in Channels PROVE 1 \in DOMAIN Files[c] /\ Files[c][1] \in Nat
    BY FilesTyped
<1> QED
    BY <1>1 DEF Init, ServerInit, InOrder, Places, Stands

\* A channel plays its files in their order, from first to last block and round
\* again, whatever the files, empty ones among them, and whenever opening or
\* reading one fails; an error repeats the file that was being read, and skips
\* nothing (mlib_read_chn_data).
THEOREM OrderKept == Spec => PlaysInOrder
<1>1. Init => InOrder
    BY InitInOrder
<1>2. InOrder /\ [Next]_vars => InOrder' /\ \A c \in Channels : Wanted(c)
    BY InOrderStep
<1> QED
    BY <1>1, <1>2, PTL DEF Spec, PlaysInOrder, Wanted

-----------------------------------------------------------------------------
(* The list of the channels *)

Int8 == -128..127

LEMMA Int8Typed == ASSUME NEW n \in Int PROVE int8(n) \in Int8
BY DEF int8, Int8

LEMMA DescrTyped ==
    /\ Len(Descr) \in Nat /\ Channels = 1..Len(Descr) /\ 1 \in Channels
    /\ \A i \in Channels : /\ Descr[i] \in Nat /\ Copied(i) \in Nat /\ i \in Nat
                           /\ entry_len(i) \in Int8 /\ chnid(i) \in Int8
<1>1. Descr \in Seq(Nat) /\ Descr # << >>
    BY DescrAssumption
<1>2. Len(Descr) \in Nat /\ Channels = 1..Len(Descr)
    BY <1>1 DEF Channels
<1>3. ASSUME NEW i \in Channels PROVE Descr[i] \in Nat /\ Copied(i) \in Nat /\ i \in Nat
    <2>1. Descr[i] \in Nat
        BY <1>1, <1>3 DEF Channels
    <2> QED
        BY <1>2, <2>1 DEF Copied
<1>4. 1 \in Channels
    <2>1. Len(Descr) # 0
        BY <1>1
    <2> QED
        BY <1>2, <2>1
<1> QED
    BY <1>2, <1>3, <1>4, Int8Typed DEF entry_len, chnid

LEMMA SizedEquation ==
    /\ Sized \in [0..Len(Descr) -> Int] /\ Sized[0] = 1
    /\ \A i \in Channels : Sized[i] = Sized[i - 1] + 2 + Copied(i) + 1
<1> DEFINE N == Len(Descr)
           G == [i \in 1..N |-> [x \in Int |-> x + 2 + Copied(i) + 1]]
           e(f, i) == IF i = 0 THEN 1 ELSE f[i - 1] + 2 + Copied(i) + 1
<1>1. N \in Nat /\ Channels = 1..N /\ \A i \in 1..N : Copied(i) \in Nat
    BY DescrTyped
<1> HIDE DEF N
<1>2. G \in [1..N -> [Int -> Int]]
    BY <1>1
<1>3. \A i \in 1..N, x \in Int : G[i][x] = x + 2 + Copied(i) + 1
    OBVIOUS
<1> HIDE DEF G
<1>4. PICK f \in [0..N -> Int] : f[0] = 1 /\ \A i \in 1..N : f[i] = G[i][f[i - 1]]
    <2>1. N \in Nat /\ 1 \in Int /\ G \in [1..N -> [Int -> Int]]
        BY <1>1, <1>2
    <2>2. \E f : Repeats(f, N, Int, 1, G)
        BY <2>1, Iterates, Zenon
    <2> QED
        BY <2>2 DEF Repeats
<1>5. ASSUME NEW i \in 1..N PROVE i - 1 \in 0..N /\ f[i] = f[i - 1] + 2 + Copied(i) + 1
    <2>1. i - 1 \in 0..N
        BY <1>1
    <2> QED
        BY <2>1, <1>3, <1>4
<1>6. f = [i \in 0..N |-> e(f, i)]
    <2>1. ASSUME NEW i \in 0..N PROVE f[i] = e(f, i)
        BY <1>1, <1>4, <1>5
    <2>2. f = [i \in 0..N |-> f[i]]
        BY <1>4
    <2> HIDE DEF e
    <2> QED
        BY <2>1, <2>2
<1>7. Sized = CHOOSE g : g = [i \in 0..N |-> e(g, i)]
    BY DEF Sized, N
<1>8. Sized = [i \in 0..N |-> e(Sized, i)]
    <2> HIDE DEF e
    <2> QED
        BY <1>6, <1>7
<1>9. \A i \in 0..N : Sized[i] = e(Sized, i)
    <2> HIDE DEF e
    <2> QED
        BY <1>8
<1>10. Sized[0] = 1 /\ \A i \in 1..N : Sized[i] = Sized[i - 1] + 2 + Copied(i) + 1
    BY <1>1, <1>9
<1>11. Sized \in [0..N -> Int]
    <2>1. \A i \in 0..N : Sized[i] = f[i]
        <3> DEFINE bad == {i \in 0..N : Sized[i] # f[i]}
        <3> SUFFICES ASSUME bad # {} PROVE FALSE
            OBVIOUS
        <3>1. PICK i \in bad : \A k \in bad : i <= k
            <4>1. bad \subseteq Nat
                BY <1>1
            <4> HIDE DEF bad
            <4> QED
                BY <4>1, Least
        <3>2. i \in 1..N
            BY <1>1, <1>4, <1>10
        <3>3. i - 1 \in 0..N /\ ~(i <= i - 1)
            BY <1>1, <3>2
        <3>4. Sized[i - 1] = f[i - 1]
            BY <3>1, <3>3
        <3> QED
            BY <1>5, <1>10, <3>2, <3>4
    <2>2. Sized = [i \in 0..N |-> Sized[i]]
        BY <1>8
    <2> QED
        BY <1>4, <2>1, <2>2
<1> QED
    BY <1>1, <1>10, <1>11 DEF N

\* When each length fits its byte, an entry is where the ones before it end.
LEMMA PlaceIsSized ==
    ASSUME Fits
    PROVE  /\ \A i \in Channels : Place[i] = Sized[i - 1]
           /\ \A i \in Channels : Copied(i) = Descr[i] /\ entry_len(i) = Descr[i] + 1
<1> DEFINE N == Len(Descr)
           e(f, i) == IF i = 1 THEN 1 ELSE f[i - 1] + 2 + entry_len(i - 1)
           P == [i \in 1..N |-> Sized[i - 1]]
<1>1. N \in Nat /\ Channels = 1..N
    BY DescrTyped
<1>2. ASSUME NEW i \in Channels PROVE Copied(i) = Descr[i] /\ entry_len(i) = Descr[i] + 1
    <2>1. Descr[i] \in 0..126
        <3>1. Descr[i] < 127
            BY <1>2 DEF Fits
        <3>2. Descr[i] \in Nat
            BY <1>2, DescrTyped
        <3> QED
            BY <3>1, <3>2
    <2>2. Copied(i) = Descr[i]
        BY <2>1 DEF Copied
    <2> QED
        BY <2>1, <2>2 DEF entry_len, int8
<1> HIDE DEF N
<1>3. P = [i \in 1..N |-> e(P, i)]
    <2>1. ASSUME NEW i \in 1..N PROVE P[i] = e(P, i)
        <3>1. CASE i = 1
            BY <3>1, SizedEquation
        <3>2. CASE i # 1
            <4>1. i - 1 \in 1..N /\ i \in 1..N
                BY <1>1, <3>2
            <4>2. P[i] = Sized[i - 1] /\ P[i - 1] = Sized[(i - 1) - 1]
                BY <4>1
            <4>3. Sized[i - 1] = Sized[(i - 1) - 1] + 2 + Copied(i - 1) + 1
                BY <1>1, <4>1, SizedEquation
            <4>4. entry_len(i - 1) = Copied(i - 1) + 1
                BY <1>1, <1>2, <4>1
            <4>5. Copied(i - 1) \in Nat /\ Sized[(i - 1) - 1] \in Int
                <5>1. (i - 1) - 1 \in 0..N
                    BY <1>1, <4>1
                <5> QED
                    BY <1>1, <4>1, <5>1, SizedEquation, DescrTyped DEF N
            <4> HIDE DEF P
            <4> QED
                BY <3>2, <4>2, <4>3, <4>4, <4>5
        <3> QED
            BY <3>1, <3>2
    <2>2. P = [i \in 1..N |-> P[i]]
        OBVIOUS
    <2> HIDE DEF e, P
    <2> QED
        BY <2>1, <2>2
<1>4. Place = CHOOSE f : f = [i \in 1..N |-> e(f, i)]
    BY <1>1 DEF Place
<1>5. Place = [i \in 1..N |-> e(Place, i)]
    <2> HIDE DEF e, P
    <2> QED
        BY <1>3, <1>4
<1>6. \A i \in 1..N : Place[i] = e(Place, i) /\ P[i] = e(P, i)
    <2> HIDE DEF e, P
    <2> QED
        BY <1>3, <1>5
<1>7. \A i \in 1..N : Place[i] = P[i]
    <2> DEFINE bad == {i \in 1..N : Place[i] # P[i]}
    <2> SUFFICES ASSUME bad # {} PROVE FALSE
        OBVIOUS
    <2>1. PICK i \in bad : \A k \in bad : i <= k
        <3>1. bad \subseteq Nat
            BY <1>1
        <3> HIDE DEF bad
        <3> QED
            BY <3>1, Least
    <2>2. i \in 1..N /\ Place[i] # P[i]
        OBVIOUS
    <2>3. i # 1
        <3> HIDE DEF P
        <3> QED
            BY <1>6, <2>2
    <2>4. i - 1 \in 1..N /\ ~(i <= i - 1)
        BY <1>1, <2>2, <2>3
    <2>5. Place[i - 1] = P[i - 1]
        BY <2>1, <2>4
    <2> HIDE DEF P, bad
    <2> QED
        BY <1>6, <2>2, <2>3, <2>5
<1> QED
    BY <1>1, <1>2, <1>7

\* The last element of a set of channels.
LEMMA LastOf ==
    ASSUME NEW S, S \subseteq Channels, S # {}
    PROVE  \E k \in S : \A l \in S : l <= k
<1> DEFINE T == {Len(Descr) - i : i \in S}
<1>1. Len(Descr) \in Nat /\ S \subseteq 1..Len(Descr)
    BY DescrTyped
<1>2. T \subseteq Nat /\ T # {}
    <2>1. \A i \in S : Len(Descr) - i \in Nat
        BY <1>1
    <2> QED
        BY <2>1
<1>3. PICK t \in T : \A u \in T : t <= u
    <2> HIDE DEF T
    <2> QED
        BY <1>2, Least
<1>4. PICK k \in S : t = Len(Descr) - k
    OBVIOUS
<1>5. ASSUME NEW l \in S PROVE l <= k
    <2>1. Len(Descr) - l \in T
        OBVIOUS
    <2>2. Len(Descr) - k <= Len(Descr) - l
        BY <1>3, <1>4, <2>1
    <2>3. l \in Int /\ k \in Int
        BY <1>1
    <2> QED
        BY <1>1, <2>2, <2>3
<1> QED
    BY <1>5

LEMMA ByteTyped == ASSUME NEW q \in Int PROVE Byte(q) \in Int8
<1> DEFINE over == {i \in Channels : q \in Place[i]..Place[i] + 2 + Copied(i)}
           i == CHOOSE m \in over : \A l \in over : l <= m
           k == q - Place[i]
<1>1. over # {} => i \in Channels
    <2>1. over \subseteq Channels
        OBVIOUS
    <2>2. over # {} => \E m \in over : \A l \in over : l <= m
        <3> HIDE DEF over
        <3> QED
            BY <2>1, LastOf
    <2>3. over # {} => i \in over
        <3> HIDE DEF over
        <3> QED
            BY <2>2
    <2> QED
        BY <2>1, <2>3
<1>2. Byte(q) = IF q = 0 \/ over = {} THEN 0
                ELSE CASE k = 0 -> chnid(i)
                       [] k = 1 -> entry_len(i)
                       [] k = 2 + Copied(i) -> 0
                       [] OTHER -> Text
    BY DEF Byte
<1> HIDE DEF over, i, k
<1>3. over = {} \/ (chnid(i) \in Int8 /\ entry_len(i) \in Int8)
    BY <1>1, DescrTyped
<1>4. 0 \in Int8 /\ Text \in Int8
    BY DEF Int8, Text
<1>5. CASE q = 0 \/ over = {}
    BY <1>2, <1>4, <1>5
<1>6. CASE ~(q = 0 \/ over = {})
    BY <1>2, <1>3, <1>4, <1>6
<1> QED
    BY <1>5, <1>6

\* What the client reads at position p, and where it goes on.
Entry == [chnid : Int8, descr : {strlen(q) : q \in Int}]
Here(p) == [chnid |-> Byte(p), descr |-> strlen(p + 2)]
Further(p) == p + 2 + Byte(p + 1)

LEMMA HereTyped == ASSUME NEW p \in Int PROVE Here(p) \in Entry /\ Further(p) \in Int
<1>1. Byte(p) \in Int8 /\ Byte(p + 1) \in Int8 /\ p + 2 \in Int
    BY ByteTyped
<1>2. Further(p) \in Int
    BY <1>1 DEF Further, Int8
<1>3. strlen(p + 2) \in {strlen(q) : q \in Int}
    BY <1>1
<1> QED
    BY <1>1, <1>2, <1>3 DEF Here, Entry

LEMMA OneMore == ASSUME NEW S, NEW x \in S, NEW s \in Seq(S) PROVE <<x>> \o s \in Seq(S)
<1>1. <<x>> \in Seq(S)
    OBVIOUS
<1> QED
    BY <1>1

LEMMA EntriesEquation ==
    /\ \A p \in Int : entries[0][p] = << >>
    /\ \A n \in 1..MAX_CHN, p \in Int :
         entries[n][p] = IF p >= received THEN << >> ELSE <<Here(p)>> \o entries[n - 1][Further(p)]
<1> DEFINE N == MAX_CHN
           S == [Int -> Seq(Entry)]
           none == [p \in Int |-> << >>]
           now(x, p) == IF p >= received THEN << >> ELSE <<Here(p)>> \o x[Further(p)]
           G == [n \in 1..N |-> [x \in S |-> [p \in Int |-> now(x, p)]]]
           e(f, n) == [p \in Int |-> IF n = 0 \/ p >= received THEN << >>
                                     ELSE <<Here(p)>> \o f[n - 1][Further(p)]]
<1>1. N \in Nat /\ none \in S
    BY DEF MAX_CHN
<1>2. \A x \in S : [p \in Int |-> now(x, p)] \in S
    <2> SUFFICES ASSUME NEW x \in S, NEW p \in Int PROVE now(x, p) \in Seq(Entry)
        OBVIOUS
    <2>1. x[Further(p)] \in Seq(Entry) /\ Here(p) \in Entry
        BY HereTyped
    <2>2. << >> \in Seq(Entry)
        OBVIOUS
    <2> QED
        BY <2>1, <2>2, OneMore
<1>3. G \in [1..N -> [S -> S]] /\ \A n \in 1..N, x \in S : G[n][x] = [p \in Int |-> now(x, p)]
    <2> HIDE DEF now, S, N
    <2> QED
        BY <1>2
<1> HIDE DEF G, N, S, none, now
<1>4. PICK f : Repeats(f, N, S, none, G)
    BY <1>1, <1>3, Iterates, Zenon
<1>5. f \in [0..N -> S] /\ f[0] = none /\ \A n \in 1..N : f[n] = G[n][f[n - 1]]
    BY <1>4 DEF Repeats
<1>6. ASSUME NEW n \in 0..N PROVE f[n] = e(f, n)
    <2>1. CASE n = 0
        <3>1. e(f, 0) = none
            BY DEF none
        <3> QED
            BY <1>5, <2>1, <3>1
    <2>2. CASE n # 0
        <3>1. n \in 1..N /\ n - 1 \in 0..N
            BY <1>1, <2>2
        <3>2. f[n] = [p \in Int |-> now(f[n - 1], p)]
            BY <1>3, <1>5, <3>1
        <3>3. e(f, n) = [p \in Int |-> now(f[n - 1], p)]
            BY <2>2 DEF now
        <3> QED
            BY <3>2, <3>3
    <2> QED
        BY <2>1, <2>2
<1>7. f = [n \in 0..N |-> e(f, n)]
    <2>1. f = [n \in 0..N |-> f[n]]
        BY <1>5
    <2> HIDE DEF e
    <2> QED
        BY <1>6, <2>1
<1>8. entries = CHOOSE g : g = [n \in 0..N |-> e(g, n)]
    BY DEF entries, N, Here, Further
<1>9. entries = [n \in 0..N |-> e(entries, n)]
    <2> HIDE DEF e
    <2> QED
        BY <1>7, <1>8
<1>10. \A n \in 0..N : entries[n] = e(entries, n)
    <2> HIDE DEF e
    <2> QED
        BY <1>9
<1>11. \A n \in 0..N, p \in Int :
          entries[n][p] = IF n = 0 \/ p >= received THEN << >>
                          ELSE <<Here(p)>> \o entries[n - 1][Further(p)]
    BY <1>10
<1>12. 0 \in 0..N /\ \A n \in 1..N : n \in 0..N /\ n # 0
    BY <1>1
<1> QED
    BY <1>11, <1>12 DEF N

LEMMA EntriesTyped == \A n \in 0..MAX_CHN, p \in Int : entries[n][p] \in Seq(Entry)
<1> DEFINE bad == {n \in 0..MAX_CHN : \E p \in Int : entries[n][p] \notin Seq(Entry)}
<1> SUFFICES ASSUME bad # {} PROVE FALSE
    OBVIOUS
<1>1. PICK n \in bad : \A k \in bad : n <= k
    <2>1. bad \subseteq Nat
        OBVIOUS
    <2> HIDE DEF bad
    <2> QED
        BY <2>1, Least
<1>2. PICK p \in Int : entries[n][p] \notin Seq(Entry)
    OBVIOUS
<1>3. << >> \in Seq(Entry) /\ n \in 0..MAX_CHN /\ MAX_CHN \in Nat
    BY DEF MAX_CHN
<1>4. n # 0
    BY <1>2, <1>3, EntriesEquation
<1>5. n \in 1..MAX_CHN /\ n - 1 \in 0..MAX_CHN /\ ~(n <= n - 1)
    BY <1>3, <1>4
<1>6. entries[n - 1][Further(p)] \in Seq(Entry) /\ Here(p) \in Entry
    BY <1>1, <1>5, HereTyped
<1>7. <<Here(p)>> \o entries[n - 1][Further(p)] \in Seq(Entry)
    BY <1>6, OneMore
<1> QED
    BY <1>2, <1>3, <1>5, <1>7, EntriesEquation

LEMMA SizedGrows ==
    ASSUME NEW i \in 0..Len(Descr), NEW j \in i..Len(Descr)
    PROVE  Sized[i] <= Sized[j] /\ Sized[i] \in Int /\ Sized[j] \in Int
<1> DEFINE N == Len(Descr)
           bad == {l \in i..N : ~(Sized[i] <= Sized[l])}
<1>1. N \in Nat /\ Channels = 1..N /\ i \in 0..N /\ Sized \in [0..N -> Int] /\ j \in i..N
    BY DescrTyped, SizedEquation
<1>2. bad = {}
    <2> SUFFICES ASSUME bad # {} PROVE FALSE
        OBVIOUS
    <2>1. PICK l \in bad : \A m \in bad : l <= m
        <3>1. bad \subseteq Nat
            BY <1>1
        <3> HIDE DEF bad
        <3> QED
            BY <3>1, Least
    <2>2. l \in i..N /\ ~(Sized[i] <= Sized[l])
        OBVIOUS
    <2> HIDE DEF N
    <2>3. l # i /\ Sized[i] \in Int
        BY <1>1, <2>2
    <2>4. l - 1 \in i..N /\ ~(l <= l - 1) /\ l \in 1..N /\ l - 1 \in 0..N
        BY <1>1, <2>2, <2>3
    <2>5. Sized[i] <= Sized[l - 1]
        BY <2>1, <2>4
    <2>6. Sized[l] = Sized[l - 1] + 2 + Copied(l) + 1 /\ Copied(l) \in Nat /\ Sized[l - 1] \in Int
        BY <1>1, <2>4, SizedEquation, DescrTyped
    <2> QED
        BY <2>2, <2>3, <2>5, <2>6
<1>3. i \in 0..N /\ j \in 0..N
    BY <1>1
<1> QED
    BY <1>1, <1>2, <1>3

\* Where entry i is and where it ends.
LEMMA EntryEnds ==
    ASSUME Fits, NEW i \in Channels
    PROVE  /\ i \in 1..Len(Descr) /\ i - 1 \in 0..Len(Descr) /\ Len(Descr) \in Nat
           /\ Descr[i] \in Nat /\ Sized[i - 1] \in Int /\ Sized[i - 1] >= 1
           /\ Sized[i] = Sized[i - 1] + Descr[i] + 3
           /\ Place[i] = Sized[i - 1] /\ Copied(i) = Descr[i] /\ entry_len(i) = Descr[i] + 1
           /\ received \in Int /\ received >= Sized[i] /\ received = total_size
<1>1. i \in 1..Len(Descr) /\ i - 1 \in 0..Len(Descr) /\ Len(Descr) \in Nat /\ Descr[i] \in Nat
    BY DescrTyped
<1>2. Place[i] = Sized[i - 1] /\ Copied(i) = Descr[i] /\ entry_len(i) = Descr[i] + 1
    BY PlaceIsSized
<1>3. Sized[i - 1] \in Int /\ Sized[i] \in Int
    <2>1. i \in 0..Len(Descr)
        BY <1>1
    <2> QED
        BY <1>1, <2>1, SizedEquation
<1>4. Sized[i] = Sized[i - 1] + Descr[i] + 3
    BY <1>1, <1>2, <1>3, SizedEquation
<1>5. Sized[i - 1] >= 1
    <2>1. 0 \in 0..Len(Descr) /\ i - 1 \in 0..Len(Descr)
        BY <1>1
    <2> QED
        BY <1>3, <2>1, SizedGrows, SizedEquation
<1>6. total_size >= Sized[i] /\ total_size \in Int
    <2>1. i \in 0..Len(Descr) /\ Len(Descr) \in i..Len(Descr)
        BY <1>1
    <2> QED
        BY <2>1, SizedGrows DEF total_size
<1>7. received = total_size
    <2>1. total_size <= MSG_SIZE + 10
        BY DEF Fits
    <2> QED
        BY <1>6, <2>1 DEF received, MSG_SIZE
<1> QED
    BY <1>1, <1>2, <1>3, <1>4, <1>5, <1>6, <1>7

\* The bytes of an entry are those the server wrote for it.
LEMMA ByteInEntry ==
    ASSUME Fits, NEW i \in Channels, NEW k \in 0..Descr[i] + 2
    PROVE  Byte(Sized[i - 1] + k) = CASE k = 0 -> chnid(i)
                                      [] k = 1 -> Descr[i] + 1
                                      [] k = 2 + Descr[i] -> 0
                                      [] OTHER -> Text
<1> DEFINE q == Sized[i - 1] + k
           over == {j \in Channels : q \in Place[j]..Place[j] + 2 + Copied(j)}
<1>1. k \in Int /\ 0 <= k /\ k <= Descr[i] + 2 /\ q \in Int /\ q # 0
    BY SMTT(20), EntryEnds
<1>2. i \in over
    <2>1. q \in Place[i]..Place[i] + 2 + Copied(i)
        <3>1. /\ Place[i] = Sized[i - 1] /\ Copied(i) = Descr[i] /\ Sized[i - 1] \in Int
              /\ Descr[i] \in Nat /\ q = Sized[i - 1] + k
            BY EntryEnds
        <3> HIDE DEF over, q
        <3> QED
            BY <1>1, <3>1
    <2> QED
        BY <2>1
<1>3. ASSUME NEW j \in over PROVE j = i
    <2>1. j \in Channels /\ q \in Place[j]..Place[j] + 2 + Copied(j)
        OBVIOUS
    <2>2. Sized[j - 1] <= q /\ q < Sized[j] /\ Sized[j] \in Int
        <3>1. /\ Place[j] = Sized[j - 1] /\ Copied(j) = Descr[j] /\ Sized[j - 1] \in Int
              /\ Descr[j] \in Nat /\ Sized[j] = Sized[j - 1] + Descr[j] + 3
            BY <2>1, EntryEnds
        <3> HIDE DEF over, q
        <3> QED
            BY <1>1, <2>1, <3>1
    <2>3. Sized[i - 1] <= q /\ q < Sized[i] /\ Sized[i] \in Int
        <3>1. /\ Sized[i] = Sized[i - 1] + Descr[i] + 3 /\ Sized[i - 1] \in Int
              /\ Descr[i] \in Nat /\ q = Sized[i - 1] + k
            BY EntryEnds
        <3> HIDE DEF over, q
        <3> QED
            BY <1>1, <3>1
    <2> HIDE DEF q, over
    <2>4. j \in 1..Len(Descr) /\ i \in 1..Len(Descr) /\ Len(Descr) \in Nat
        BY <2>1, DescrTyped
    <2>5. CASE j < i
        <3>1. j \in 0..Len(Descr) /\ i - 1 \in j..Len(Descr)
            BY <2>4, <2>5
        <3>2. Sized[j] <= Sized[i - 1] /\ Sized[i - 1] \in Int
            BY <3>1, SizedGrows
        <3> QED
            BY <1>1, <2>2, <2>3, <3>2
    <2>6. CASE i < j
        <3>1. i \in 0..Len(Descr) /\ j - 1 \in i..Len(Descr)
            BY <2>4, <2>6
        <3>2. Sized[i] <= Sized[j - 1] /\ Sized[j - 1] \in Int
            BY <3>1, SizedGrows
        <3> QED
            BY <1>1, <2>2, <2>3, <3>2
    <2> QED
        BY <2>4, <2>5, <2>6
<1> DEFINE m == CHOOSE m \in over : \A l \in over : l <= m
           d == q - Place[m]
<1>4. m = i
    <2>1. i <= i
        BY EntryEnds
    <2> HIDE DEF over, q
    <2> QED
        BY <1>2, <1>3, <2>1
<1>5. Byte(q) = IF q = 0 \/ over = {} THEN 0
                ELSE CASE d = 0 -> chnid(m)
                       [] d = 1 -> entry_len(m)
                       [] d = 2 + Copied(m) -> 0
                       [] OTHER -> Text
    BY DEF Byte
<1>6. d = k
    <2>1. d = q - Sized[i - 1]
        BY <1>4, EntryEnds
    <2> HIDE DEF d, m, over
    <2> QED
        BY <1>1, <2>1, EntryEnds
<1>7. over # {} /\ q # 0
    BY <1>1, <1>2
<1> HIDE DEF over, m, d
<1>8. Byte(q) = CASE k = 0 -> chnid(i)
                  [] k = 1 -> entry_len(i)
                  [] k = 2 + Copied(i) -> 0
                  [] OTHER -> Text
    BY <1>4, <1>5, <1>6, <1>7
<1>9. entry_len(i) = Descr[i] + 1 /\ Copied(i) = Descr[i]
    BY EntryEnds
<1> QED
    BY <1>8, <1>9

LEMMA StrlenOfEntry ==
    ASSUME Fits, NEW i \in Channels
    PROVE  strlen(Sized[i - 1] + 2) = Descr[i]
<1> DEFINE q == Sized[i - 1] + 2
           n == Descr[i]
           Ends(l) == (q + l = received \/ Byte(q + l) = 0) /\ \A k \in 0..l - 1 : Byte(q + k) # 0
<1>1. n \in Nat /\ q \in Int /\ received \in Int /\ q + n < received /\ q = Sized[i - 1] + 2
    <2>1. /\ Sized[i - 1] \in Int /\ Descr[i] \in Nat /\ Sized[i] = Sized[i - 1] + Descr[i] + 3
          /\ received \in Int /\ received >= Sized[i]
        BY EntryEnds
    <2> QED
        BY <2>1
<1>2. ASSUME NEW k \in 0..n PROVE Byte(q + k) = IF k = n THEN 0 ELSE Text
    <2>1. 2 + k \in 0..Descr[i] + 2 /\ Sized[i - 1] + (2 + k) = q + k /\ Sized[i - 1] \in Int
        <3>1. Sized[i - 1] \in Int /\ Descr[i] \in Nat /\ k \in 0..Descr[i]
            BY EntryEnds
        <3> QED
            BY <3>1
    <2>2. Byte(Sized[i - 1] + (2 + k)) = CASE 2 + k = 0 -> chnid(i)
                                           [] 2 + k = 1 -> Descr[i] + 1
                                           [] 2 + k = 2 + Descr[i] -> 0
                                           [] OTHER -> Text
        BY <2>1, ByteInEntry
    <2>3. 2 + k # 0 /\ 2 + k # 1 /\ (2 + k = 2 + Descr[i] <=> k = n)
        BY <1>1
    <2> HIDE DEF q, n
    <2> QED
        BY <2>1, <2>2, <2>3
<1> HIDE DEF q, n
<1>3. Text # 0
    BY DEF Text
<1>4. Ends(n) /\ n \in 0..received - q
    BY <1>1, <1>2, <1>3
<1>5. ASSUME NEW l \in 0..received - q, Ends(l) PROVE l = n
    <2>1. CASE l < n
        <3>1. l \in 0..n /\ q + l # received /\ Byte(q + l) # 0
            BY <1>1, <1>2, <1>3, <2>1
        <3> QED
            BY <1>5, <3>1
    <2>2. CASE n < l
        <3>1. n \in 0..l - 1 /\ Byte(q + n) = 0
            BY <1>1, <1>2, <2>2
        <3> QED
            BY <1>5, <3>1
    <2> QED
        BY <1>1, <2>1, <2>2
<1>6. strlen(q) = CHOOSE l \in 0..received - q : Ends(l)
    BY DEF strlen
<1> HIDE DEF Ends
<1>7. strlen(q) = n
    BY <1>4, <1>5, <1>6
<1> QED
    BY <1>7 DEF q, n

\* The channels after the first i.
Rest(i) == [j \in 1..Len(Descr) - i |-> [chnid |-> chnid(i + j), descr |-> Descr[i + j]]]

Channel == {[chnid |-> chnid(j), descr |-> Descr[j]] : j \in Int}

LEMMA RestTyped ==
    ASSUME NEW i \in 0..Len(Descr)
    PROVE  /\ Rest(i) \in Seq(Channel) /\ Len(Rest(i)) = Len(Descr) - i
           /\ \A j \in 1..Len(Descr) - i :
                Rest(i)[j] = [chnid |-> chnid(i + j), descr |-> Descr[i + j]]
<1>1. PICK m \in Nat : m = Len(Descr) - i
    BY SMTT(20), DescrTyped
<1>2. Rest(i) = [j \in 1..m |-> [chnid |-> chnid(i + j), descr |-> Descr[i + j]]]
    BY <1>1 DEF Rest
<1>3. \A j \in 1..m : [chnid |-> chnid(i + j), descr |-> Descr[i + j]] \in Channel
    <2>1. \A j \in 1..m : i + j \in Int
        OBVIOUS
    <2> QED
        BY <2>1 DEF Channel
<1>4. Rest(i) \in [1..m -> Channel]
    BY <1>2, <1>3
<1>5. Rest(i) \in Seq(Channel) /\ Len(Rest(i)) = m
    <2>1. Rest(i) \in Seq(Channel)
        BY <1>4
    <2>2. DOMAIN Rest(i) = 1..m
        BY <1>4
    <2> QED
        BY <2>1, <2>2, LenProperties
<1> QED
    BY <1>1, <1>2, <1>5

\* From the end of entry i on, the client finds the channels that remain.
LEMMA FindsTheRest ==
    ASSUME Fits
    PROVE  \A n \in 0..MAX_CHN, i \in 0..Len(Descr) :
             Len(Descr) - i <= n => entries[n][Sized[i]] = Rest(i)
<1> DEFINE N == Len(Descr)
           bad == {n \in 0..MAX_CHN : \E i \in 0..N : N - i <= n /\ entries[n][Sized[i]] # Rest(i)}
<1>1. /\ N \in Nat /\ MAX_CHN \in Nat /\ Channels = 1..N
      /\ \A i \in 0..N : Sized[i] \in Int
    BY DescrTyped, SizedEquation DEF MAX_CHN
<1> SUFFICES ASSUME bad # {} PROVE FALSE
    OBVIOUS
<1>2. PICK n \in bad : \A m \in bad : n <= m
    <2>1. bad \subseteq Nat
        BY <1>1
    <2> HIDE DEF bad
    <2> QED
        BY <2>1, Least
<1>3. PICK i \in 0..N : N - i <= n /\ entries[n][Sized[i]] # Rest(i)
    OBVIOUS
<1>4. n \in 0..MAX_CHN
    OBVIOUS
<1> HIDE DEF N
<1>5. received = total_size /\ total_size = Sized[N]
    BY EntryEnds, DescrTyped DEF total_size, N
<1>6. CASE i = N
    <2>1. Rest(i) = << >>
        <3>1. Rest(i) \in Seq(Channel) /\ Len(Rest(i)) = N - i
            BY RestTyped DEF N
        <3>2. Len(Rest(i)) = 0
            BY <1>1, <1>6, <3>1
        <3> QED
            BY <3>1, <3>2, EmptySeq
    <2>2. Sized[i] >= received /\ Sized[i] \in Int
        BY <1>1, <1>5, <1>6
    <2>3. entries[n][Sized[i]] = << >>
        <3>1. n = 0 \/ n \in 1..MAX_CHN
            BY <1>1, <1>4
        <3> QED
            BY <2>2, <3>1, EntriesEquation
    <2> QED
        BY <1>3, <2>1, <2>3
<1>7. CASE i # N
    <2>1. /\ i + 1 \in Channels /\ (i + 1) - 1 = i /\ n \in 1..MAX_CHN /\ n - 1 \in 0..MAX_CHN
          /\ i + 1 \in 0..N /\ N - (i + 1) <= n - 1 /\ ~(n <= n - 1)
        BY <1>1, <1>3, <1>4, <1>7
    <2> DEFINE c == i + 1
    <2> HIDE DEF c
    <2>2. /\ c \in Channels /\ c - 1 = i /\ Sized[i] \in Int /\ Descr[c] \in Nat
          /\ Sized[c] = Sized[i] + Descr[c] + 3 /\ received >= Sized[c] /\ received \in Int
        BY <2>1, EntryEnds DEF c
    <2>3. Sized[i] \in Int /\ ~(Sized[i] >= received) /\ received \in Int
        BY <2>2
    <2>4. Byte(Sized[i] + 0) = chnid(c) /\ Byte(Sized[i] + 1) = Descr[c] + 1
        <3>1. 0 \in 0..Descr[c] + 2 /\ 1 \in 0..Descr[c] + 2
            BY <2>2
        <3> QED
            BY <2>2, <3>1, ByteInEntry
    <2>5. Here(Sized[i]) = [chnid |-> chnid(c), descr |-> Descr[c]]
        <3>1. strlen(Sized[i] + 2) = Descr[c] /\ Sized[i] + 0 = Sized[i]
            BY <2>2, StrlenOfEntry
        <3> QED
            BY <2>4, <3>1 DEF Here
    <2>6. Further(Sized[i]) = Sized[c]
        BY <2>2, <2>4 DEF Further
    <2>7. entries[n][Sized[i]] = <<Here(Sized[i])>> \o entries[n - 1][Sized[c]]
        BY <2>1, <2>3, <2>6, EntriesEquation
    <2>8. entries[n - 1][Sized[c]] = Rest(c)
        <3>1. c \in 0..N /\ N - c <= n - 1 /\ n - 1 \in 0..MAX_CHN /\ n - 1 \notin bad
            BY <1>2, <2>1 DEF c
        <3> QED
            BY <3>1 DEF N
    <2>9. <<Here(Sized[i])>> \o Rest(c) = Rest(i)
        <3>1. N - c \in Nat /\ N - i = (N - c) + 1
            BY <1>1, <2>1 DEF c
        <3>2. PICK m \in Nat : m = N - c
            BY <3>1
        <3>3. /\ Rest(c) \in Seq(Channel) /\ Len(Rest(c)) = m
              /\ Rest(i) \in Seq(Channel) /\ Len(Rest(i)) = m + 1
            BY <2>1, <3>1, <3>2, RestTyped DEF N, c
        <3>4. Here(Sized[i]) \in Channel
            <4>1. c \in Int
                BY <2>1 DEF c
            <4> QED
                BY <2>5, <4>1 DEF Channel
        <3>5. /\ <<Here(Sized[i])>> \o Rest(c) \in Seq(Channel)
              /\ Len(<<Here(Sized[i])>> \o Rest(c)) = m + 1
              /\ (<<Here(Sized[i])>> \o Rest(c))[1] = Here(Sized[i])
              /\ \A j \in 2..m + 1 : (<<Here(Sized[i])>> \o Rest(c))[j] = Rest(c)[j - 1]
            BY <3>3, <3>4
        <3>6. Rest(i)[1] = Here(Sized[i])
            <4>1. 1 \in 1..N - i /\ c = i + 1
                BY <3>1, <3>2 DEF c
            <4> QED
                BY <2>5, <4>1, RestTyped DEF N
        <3>7. ASSUME NEW j \in 2..m + 1 PROVE Rest(i)[j] = Rest(c)[j - 1]
            <4>1. j \in 1..N - i /\ j - 1 \in 1..N - c /\ i + j = c + (j - 1)
                <5>1. c = i + 1 /\ i \in Int /\ N \in Int /\ m \in Nat
                    BY <1>1 DEF c
                <5> QED
                    BY <3>2, <5>1
            <4>2. Rest(i)[j] = [chnid |-> chnid(i + j), descr |-> Descr[i + j]]
                BY <4>1, RestTyped DEF N
            <4>3. Rest(c)[j - 1] = [chnid |-> chnid(c + (j - 1)), descr |-> Descr[c + (j - 1)]]
                <5>1. c \in 0..N
                    BY <2>1 DEF c
                <5> QED
                    BY <4>1, <5>1, RestTyped DEF N
            <4> QED
                BY <4>1, <4>2, <4>3
        <3>8. \A j \in 1..m + 1 : (<<Here(Sized[i])>> \o Rest(c))[j] = Rest(i)[j]
            <4>1. \A j \in 1..m + 1 : j = 1 \/ j \in 2..m + 1
                OBVIOUS
            <4> QED
                BY <3>5, <3>6, <3>7, <4>1
        <3> QED
            BY <3>3, <3>5, <3>8, SeqEqual
    <2> QED
        BY <1>3, <2>7, <2>8, <2>9
<1> QED
    BY <1>6, <1>7

\* The list that the client parses is the one the server means.
LEMMA ParsedIsList ==
    ASSUME Fits
    PROVE  Parsed = [i \in Channels |-> [chnid |-> chnid(i), descr |-> Descr[i]]]
<1>1. Len(Descr) \in Nat /\ Len(Descr) <= MAX_CHN /\ Channels = 1..Len(Descr)
    BY DescrTyped DEF Fits
<1>2. entries[MAX_CHN][1] = Rest(0)
    <2>1. /\ MAX_CHN \in 0..MAX_CHN /\ 0 \in 0..Len(Descr) /\ Len(Descr) - 0 <= MAX_CHN
          /\ Sized[0] = 1
        BY <1>1, SizedEquation DEF MAX_CHN
    <2> QED
        BY <2>1, FindsTheRest
<1>3. Rest(0) = [i \in Channels |-> [chnid |-> chnid(i), descr |-> Descr[i]]]
    <2>1. 1..Len(Descr) - 0 = Channels /\ \A j \in Channels : 0 + j = j
        BY <1>1
    <2> QED
        BY <2>1 DEF Rest
<1> QED
    BY <1>2, <1>3 DEF Parsed

\* A list that has been received has been parsed, once.
Listed == list_received => valid_chns = Parsed

LEMMA ListedStep == ASSUME Listed, [Next]_vars PROVE Listed'
<1>1. CASE UNCHANGED <<list_received, valid_chns>>
    BY <1>1 DEF Listed
<1>2. CASE ReceiveList
    BY <1>2 DEF ReceiveList, Listed
<1>3. CASE ForkFails \/ Quit \/ Signal
    BY <1>3 DEF ForkFails, Quit, Signal, Exit, Listed
<1>4. CASE Choose \/ Starting \/ PlayerDies
    BY <1>1, <1>4 DEF Choose, Starting, StopKills, StopClears, Fork, Started, PlayerDies
<1>5. CASE \E c \in Bytes : ReceiveData(c)
    BY <1>1, <1>5 DEF ReceiveData
<1>6. CASE UNCHANGED client
    BY <1>1, <1>6 DEF client
<1> QED
    BY <1>2, <1>3, <1>4, <1>5, <1>6
    DEF Next, vars, Served, Lost, SendChnList, Receive, ClientAlone

\* The client has the list that the server means, number by number and
\* description by description, for any library whose list fits: what
\* send_chn_list writes, moving its pointer by the lengths it stores, the loop of
\* client.c finds again, moving its own by the lengths it reads.
THEOREM ListArrives == Spec => []ListIntact
<1>1. Init => Listed
    BY DEF Init, ClientInit, Listed
<1>2. Listed /\ [Next]_vars => Listed'
    BY ListedStep
<1>3. Listed => ListIntact
    BY ParsedIsList DEF Listed, ListIntact
<1> QED
    BY <1>1, <1>2, <1>3, PTL DEF Spec

-----------------------------------------------------------------------------
(* Types *)

ServerTyped ==
    added \in 0..Len(Descr) /\ fetched \in [Channels -> 0..Size] /\ net \subseteq Bytes

ClientTyped ==
    /\ list_received \in BOOLEAN /\ pipe \in BOOLEAN /\ orphan \in BOOLEAN
    /\ player_pid \in Pid \cup {NoPid} /\ process \in [Pid -> {"none", "live", "dead"}]
    /\ pc \in {"select", "stop", "waited", "stopped", "forked", "gone"}
    /\ current_chnid \in Int8 /\ starting \in Int8 /\ valid_chns \in Seq(Entry)

Typed == InOrder /\ ServerTyped /\ ClientTyped

LEMMA BytesTyped == Bytes \subseteq Int8 /\ -1 \in Int8
<1>1. CHN_LIST_ID \in Int8 /\ -1 \in Int8
    BY DEF CHN_LIST_ID, Int8
<1> QED
    BY <1>1, DescrTyped DEF Bytes

LEMMA ServerTypes ==
    ASSUME Typed, [Next]_vars
    PROVE  ServerTyped'
<1>1. Size \in Nat \ {0} /\ Len(Descr) \in Nat
    BY FilesAssumption, DescrTyped
<1>2. added' \in 0..Len(Descr)
    <2>1. CASE AddTask
        BY <1>1, <2>1 DEF AddTask, Typed, ServerTyped
    <2>2. CASE UNCHANGED added
        BY <2>2 DEF Typed, ServerTyped
    <2> QED
        BY <2>1, <2>2 DEF Next, vars, server, Local, Open, ReadBlock, ReadEnd, ReadFails, Pay,
                          Served, Lost, Send, SendChnList, Receive
<1>3. fetched' \in [Channels -> 0..Size]
    <2>1. fetched \in [Channels -> 0..Size]
        BY DEF Typed, ServerTyped
    <2>2. ASSUME NEW c \in Channels, Pay(c) PROVE fetched' \in [Channels -> 0..Size]
        <3>1. PICK ret \in 1..Size - fetched[c] : fetched' = [fetched EXCEPT ![c] = @ + ret]
            BY <2>2 DEF Pay
        <3>2. fetched[c] + ret \in 0..Size
            BY <1>1, <2>1, <3>1
        <3> QED
            BY <2>1, <3>1, <3>2
    <2>3. ASSUME NEW c \in Channels, fetched' = [fetched EXCEPT ![c] = 0]
          PROVE  fetched' \in [Channels -> 0..Size]
        BY <1>1, <2>1, <2>3
    <2> QED
        BY <2>1, <2>2, <2>3 DEF Next, vars, server, AddTask, Local, Open, ReadBlock, ReadEnd,
                                ReadFails, Served, Lost, Send, SendChnList, Receive
<1>4. net' \subseteq Bytes
    <2>1. CASE UNCHANGED net \/ net' = {} \/ \E c \in Bytes : net' = net \ {c} \/ net' = net \cup {c}
        BY <2>1 DEF Typed, ServerTyped
    <2>2. CASE \E c \in Channels : Served(c)
        <3>1. \A c \in Channels : chnid(c) \in Bytes
            BY DEF Bytes
        <3> QED
            BY <2>1, <2>2, <3>1 DEF Served, sendto
    <2>3. CASE SendChnList
        BY <2>1, <2>3 DEF SendChnList, sendto, Bytes
    <2>4. CASE \E c \in Bytes : Receive(c)
        BY <2>1, <2>4 DEF Receive
    <2>5. CASE ClientAlone /\ net' = IF pc' = "gone" THEN {} ELSE net
        BY <2>1, <2>5
    <2>6. CASE UNCHANGED net
        BY <2>1, <2>6
    <2> QED
        BY <2>2, <2>3, <2>4, <2>5, <2>6 DEF Next, vars, Lost
<1> QED
    BY <1>2, <1>3, <1>4 DEF ServerTyped

LEMMA ClientTypes ==
    ASSUME Typed, [Next]_vars
    PROVE  ClientTyped'
<1>1. ClientTyped /\ Bytes \subseteq Int8 /\ -1 \in Int8 /\ << >> \in Seq(Entry)
    BY BytesTyped DEF Typed
<1>2. Parsed \in Seq(Entry)
    <2>1. MAX_CHN \in 0..MAX_CHN /\ 1 \in Int
        BY DEF MAX_CHN
    <2> QED
        BY <2>1, EntriesTyped DEF Parsed
<1>3. CASE UNCHANGED client
    BY <1>1, <1>3 DEF client, ClientTyped
<1>4. CASE ReceiveList
    BY <1>1, <1>2, <1>4 DEF ReceiveList, ClientTyped
<1>5. ASSUME NEW c \in Bytes, ReceiveData(c) PROVE ClientTyped'
    BY <1>1, <1>5 DEF ReceiveData, Start, ClientTyped
<1>6. CASE Choose
    <2>1. PICK choice \in DOMAIN valid_chns : Start(valid_chns[choice].chnid, "stop")
        BY <1>6 DEF Choose
    <2>2. valid_chns[choice].chnid \in Int8
        <3>1. valid_chns \in Seq(Entry)
            BY <1>1 DEF ClientTyped
        <3>2. valid_chns[choice] \in Entry
            BY <2>1, <3>1
        <3> QED
            BY <3>2 DEF Entry
    <2> QED
        BY <1>1, <1>6, <2>1, <2>2 DEF Choose, Start, ClientTyped
<1>7. \A p : process \in [Pid -> {"none", "live", "dead"}] =>
          Killed(p) \in [Pid -> {"none", "live", "dead"}]
    BY DEF Killed
<1>8. CASE Starting
    <2>1. CASE StopKills
        BY <1>1, <1>7, <2>1 DEF StopKills, Go, ClientTyped
    <2>2. CASE StopClears
        BY <1>1, <2>2 DEF StopClears, Go, ClientTyped
    <2>3. CASE Fork
        BY <1>1, <2>3 DEF Fork, Go, ClientTyped
    <2>4. CASE Started
        BY <1>1, <2>4 DEF Started, Go, ClientTyped
    <2> QED
        BY <1>8, <2>1, <2>2, <2>3, <2>4 DEF Starting
<1>9. CASE ForkFails \/ Quit \/ Signal
    <2>1. Exit /\ process' \in [Pid -> {"none", "live", "dead"}]
        BY <1>1, <1>7, <1>9 DEF ForkFails, Quit, Signal, ClientTyped
    <2>2. orphan' \in BOOLEAN
        <3>1. orphan' = orphan \/ orphan' = (pc = "forked")
            BY <1>9 DEF ForkFails, Quit, Signal
        <3> QED
            BY <1>1, <3>1 DEF ClientTyped
    <2>3. list_received' \in BOOLEAN /\ pipe' \in BOOLEAN
        BY <2>1 DEF Exit
    <2> QED
        BY <1>1, <2>1, <2>2, <2>3 DEF Exit, ClientTyped
<1>10. CASE PlayerDies
    BY <1>1, <1>10 DEF PlayerDies, ClientTyped
<1> QED
    BY <1>3, <1>4, <1>5, <1>6, <1>8, <1>9, <1>10
    DEF Next, vars, Served, Lost, SendChnList, Receive, ClientAlone

\* Every variable has its type, whatever the library and the processes: a
\* channel's index is that of one of its files and its offset within that file
\* (mlib_read_chn_data), never more tokens are fetched than a block costs
\* (chn_sender), and every number the client keeps fits its int8_t.
THEOREM TypeCorrect == Spec => []TypeOK
<1>1. Init => Typed
    <2>1. Init => InOrder
        BY InitInOrder
    <2>2. Init => ServerTyped
        BY FilesAssumption, DescrTyped DEF Init, ServerInit, ServerTyped
    <2>3. Init => ClientTyped
        BY BytesTyped, EmptySeq DEF Init, ClientInit, ClientTyped
    <2> QED
        BY <2>1, <2>2, <2>3 DEF Typed
<1>2. Typed /\ [Next]_vars => Typed'
    BY InOrderStep, ServerTypes, ClientTypes DEF Typed
<1>3. Typed => TypeOK
    BY DEF Typed, InOrder, Places, ServerTyped, ClientTyped, TypeOK, Int8
<1> QED
    BY <1>1, <1>2, <1>3, PTL DEF Spec
=============================================================================
