------------------------------- MODULE Stream -------------------------------
(***************************************************************************)
(* The stream server and a client of its multicast group.  Datagrams can   *)
(* be lost and overtake one another; the client's socket holds one of each *)
(* channel.                                                                *)
(***************************************************************************)
EXTENDS StreamServer, StreamClient

VARIABLE net    \* the first bytes of the datagrams at the client's socket

vars == <<server, client, net>>

CHN_LIST_ID == 0

Init == ServerInit /\ ClientInit /\ net = {}

-----------------------------------------------------------------------------

sendto(chn) == pc # "gone" /\ chn \notin net /\ net' = net \cup {chn}

SendChnList ==
    /\ added = Len(Descr) /\ sendto(CHN_LIST_ID) /\ UNCHANGED <<server, client>>

Served(c) == Send(c) /\ sendto(chnid(c)) /\ UNCHANGED client
Lost(c)   == Send(c) /\ UNCHANGED <<client, net>>

Local(c) == Open(c) \/ ReadBlock(c) \/ ReadEnd(c) \/ ReadFails(c) \/ Pay(c)

Receive(chn) ==
    /\ chn \in net /\ net' = net \ {chn} /\ UNCHANGED server
    /\ IF chn = CHN_LIST_ID THEN ReceiveList ELSE ReceiveData(chn)

Bytes == {CHN_LIST_ID} \cup {chnid(c) : c \in Channels}

Next ==
    \/ AddTask /\ UNCHANGED <<client, net>>
    \/ \E c \in Channels : (Local(c) /\ UNCHANGED <<client, net>>) \/ Served(c) \/ Lost(c)
    \/ SendChnList \/ \E chn \in Bytes : Receive(chn)
    \/ ClientAlone /\ UNCHANGED server /\ net' = IF pc' = "gone" THEN {} ELSE net

\* The senders' threads run, and tokens come.
Spec == Init /\ [][Next]_vars /\ \A c \in Channels : WF_server(Local(c) \/ Send(c))

-----------------------------------------------------------------------------
(* Properties *)

\* Every variable has its type; what a channel reads is one of its files.
TypeOK ==
    /\ added \in 0..Len(Descr) /\ sender \in [Channels -> {"none", "read", "pay"}]
    /\ \A c \in Channels : cur_ind[c] \in DOMAIN Files[c] /\ offset[c] \in -1..Files[c][cur_ind[c]]
    /\ fetched \in [Channels -> 0..Size] /\ failed \in [Channels -> BOOLEAN]
    /\ list_received \in BOOLEAN /\ pipe \in BOOLEAN /\ orphan \in BOOLEAN
    /\ player_pid \in Pid \cup {NoPid} /\ process \in [Pid -> {"none", "live", "dead"}]
    /\ pc \in {"select", "stop", "waited", "stopped", "forked", "gone"}
    /\ current_chnid \in -128..127 /\ net \subseteq Bytes

\* The d-th file after file f of channel c, for d up to the number of its files.
Ahead(c, f, d) == IF f + d > Len(Files[c]) THEN f + d - Len(Files[c]) ELSE f + d

\* File g comes after file f when the empty ones between them are passed over.
Reached(c, f, g) ==
    \E d \in 1..Len(Files[c]) :
        g = Ahead(c, f, d) /\ \A e \in 1..d - 1 : Files[c][Ahead(c, f, e)] = 0

\* A channel plays its files in their order, from first to last block, and from
\* the last file to the first; an error takes it back to the beginning of the
\* file that was being read, and skips nothing.
PlaysInOrder ==
    [][\A c \in Channels : last'[c] # last[c] /\ last[c] # << >> =>
        LET f == last[c][1]  k == last[c][2]  g == last'[c][1]  l == last'[c][2] IN
        \/ g = f /\ l = k + 1
        \/ l = 0 /\ k + 1 = Files[c][f] /\ Reached(c, f, g) /\ Files[c][g] > 0
        \/ l = 0 /\ g = f /\ failed[c]]_vars

HasBlocks(c) == \E f \in DOMAIN Files[c] : Files[c][f] > 0

\* A channel with something to play is never silent for good: empty files and
\* files that fail for a while do not keep it.
NeverSilent ==
    \A c \in Channels : HasBlocks(c) => (sender[c] = "read" ~> sender[c] = "pay")

\* The client has the list that the server means, number by number and
\* description by description, when the list fits (the code does not check it).
ListIntact ==
    Fits /\ list_received => valid_chns = [i \in Channels |-> [chnid |-> chnid(i), descr |-> Descr[i]]]

\* There is at most one player, the one the client knows, and none when it has
\* gone, however it went; but a signal between fork and the store of its result
\* leaves the new player alone.
OnePlayer ==
    \A p \in Pid : process[p] = "live" =>
        IF pc = "gone" THEN orphan
        ELSE IF pc = "forked" THEN \A q \in Pid \ {p} : process[q] # "live" ELSE p = player_pid
=============================================================================
