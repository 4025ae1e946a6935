---------------------------- MODULE StreamServer ----------------------------
(***************************************************************************)
(* The stream server: the media library's reading of a channel's files     *)
(* (mlib.c) and the thread that sends each channel (chn_sender and main,   *)
(* server.c).  The thread pool runs every task it takes (ThreadPool) and   *)
(* the buckets fill up again (TokenBucket).  Opening and reading a file    *)
(* are external and may fail.                                              *)
(***************************************************************************)
EXTENDS ChannelList

CONSTANTS Files,    \* the blocks in each file of each channel
          Size,     \* the tokens a block costs
          MaxFail   \* bound: files that could not be opened or read

ASSUME FilesAssumption ==
    /\ Files \in Seq(Seq(Nat)) /\ Len(Files) = Len(Descr)
    /\ \A c \in Channels : Files[c] # << >>
    /\ Size \in Nat \ {0} /\ MaxFail \in Nat

VARIABLES
    added,      \* the channels main has made a task for
    sender,     \* chn_sender of each channel: none, read or pay
    cur_ind,    \* chn_context_st: the file that is read,
    offset,     \*   and the descriptor's offset in it, -1 if there is none
    fetched,    \* the tokens paid for the block in hand
    last,       \* history: the block read last, a file and its place in it
    failed,     \* history: the read that failed since
    fails

server == <<added, sender, cur_ind, offset, fetched, last, failed, fails>>

ServerInit ==
    /\ added = 0 /\ sender = [c \in Channels |-> "none"]
    /\ cur_ind = [c \in Channels |-> 1] /\ offset = [c \in Channels |-> -1]
    /\ fetched = [c \in Channels |-> 0] /\ last = [c \in Channels |-> << >>]
    /\ failed = [c \in Channels |-> FALSE] /\ fails = 0

Fails == fails < MaxFail /\ fails' = fails + 1

\* main: no bucket, no memory or no pool, and the channel has no sender.
AddTask ==
    /\ added < Len(Descr) /\ added' = added + 1
    /\ \/ sender' = [sender EXCEPT ![added + 1] = "read"] /\ UNCHANGED fails
       \/ Fails /\ UNCHANGED sender
    /\ UNCHANGED <<cur_ind, offset, fetched, last, failed>>

-----------------------------------------------------------------------------
(* mlib_read_chn_data: the turns of its loop, and its returns *)

Reading(c) == sender[c] = "read"

Open(c) ==
    /\ Reading(c) /\ offset[c] = -1
    /\ \/ offset' = [offset EXCEPT ![c] = 0] /\ UNCHANGED fails
       \/ Fails /\ UNCHANGED offset
    /\ UNCHANGED <<added, sender, cur_ind, fetched, last, failed>>

AtEnd(c) == offset[c] >= Files[c][cur_ind[c]]

ReadBlock(c) ==
    /\ Reading(c) /\ offset[c] >= 0 /\ ~AtEnd(c)
    /\ last' = [last EXCEPT ![c] = <<cur_ind[c], offset[c]>>]
    /\ offset' = [offset EXCEPT ![c] = @ + 1]
    /\ sender' = [sender EXCEPT ![c] = "pay"] /\ fetched' = [fetched EXCEPT ![c] = 0]
    /\ failed' = [failed EXCEPT ![c] = FALSE]
    /\ UNCHANGED <<added, cur_ind, fails>>

\* A bug to detect: the index is one past the last file.
Next_Past(c) == IF cur_ind[c] > Len(Files[c]) THEN 1 ELSE cur_ind[c] + 1

\* A bug to detect: the file is played again.
Next_Same(c) == cur_ind[c]

NextFile(c) == IF cur_ind[c] + 1 > Len(Files[c]) THEN 1 ELSE cur_ind[c] + 1

ReadEnd(c) ==
    /\ Reading(c) /\ offset[c] >= 0 /\ AtEnd(c)
    /\ offset' = [offset EXCEPT ![c] = -1] /\ cur_ind' = [cur_ind EXCEPT ![c] = NextFile(c)]
    /\ UNCHANGED <<added, sender, fetched, last, failed, fails>>

\* A bug to detect: an error ends the file.
ReadFails_NextFile(c) ==
    /\ Reading(c) /\ offset[c] >= 0 /\ Fails
    /\ offset' = [offset EXCEPT ![c] = -1] /\ failed' = [failed EXCEPT ![c] = TRUE]
    /\ cur_ind' = [cur_ind EXCEPT ![c] = NextFile(c)]
    /\ UNCHANGED <<added, sender, fetched, last>>

\* The same file is opened again.
ReadFails(c) ==
    /\ Reading(c) /\ offset[c] >= 0 /\ Fails
    /\ offset' = [offset EXCEPT ![c] = -1] /\ failed' = [failed EXCEPT ![c] = TRUE]
    /\ UNCHANGED <<added, sender, cur_ind, fetched, last>>

-----------------------------------------------------------------------------
(* chn_sender *)

\* tbf_fetch_token gives some of what is missing; or none, and he sleeps.
Pay(c) ==
    /\ sender[c] = "pay" /\ fetched[c] < Size
    /\ \E ret \in 1..Size - fetched[c] : fetched' = [fetched EXCEPT ![c] = @ + ret]
    /\ UNCHANGED <<added, sender, cur_ind, offset, last, failed, fails>>

Send(c) ==
    /\ sender[c] = "pay" /\ fetched[c] >= Size
    /\ sender' = [sender EXCEPT ![c] = "read"] /\ fetched' = [fetched EXCEPT ![c] = 0]
    /\ UNCHANGED <<added, cur_ind, offset, last, failed, fails>>
=============================================================================
