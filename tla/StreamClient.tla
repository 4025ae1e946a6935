---------------------------- MODULE StreamClient ----------------------------
(***************************************************************************)
(* The stream client (client.c): its loop over the socket and the          *)
(* keyboard, the player it starts and stops, and the signals that end it   *)
(* between any two steps.  The player (mplayer, at the end of a pipe) and  *)
(* the kernel's processes are external.  A player reads what it is given,  *)
(* so that a write to the pipe does not wait.                              *)
(***************************************************************************)
EXTENDS ChannelList

CONSTANTS Pid,          \* the processes a player can be
          NoPid,
          MaxDeaths,    \* bound: the players that die
          MaxChoices    \* bound: the channels the user chooses

ASSUME ClientAssumption == NoPid \notin Pid /\ MaxDeaths \in Nat /\ MaxChoices \in Nat

VARIABLES
    list_received,
    valid_chns,     \* with chn_descrs, and chn_count, its length
    current_chnid,  \* -1 before the first player
    player_pid,
    pipe,           \* pipe_fd[1] is open
    pc,             \* select; in start_player: stop, waited, stopped, forked; gone
    starting,       \* start_player's chnid
    process,        \* each player: none, live, or dead and not waited for
    orphan,         \* history: a signal came between fork and its result
    deaths, choices

client == <<list_received, valid_chns, current_chnid, player_pid, pipe, pc, starting, process,
            orphan, deaths, choices>>

ClientInit ==
    /\ list_received = FALSE /\ valid_chns = << >> /\ current_chnid = -1
    /\ player_pid = NoPid /\ pipe = FALSE /\ pc = "select" /\ starting = -1
    /\ process = [p \in Pid |-> "none"] /\ orphan = FALSE /\ deaths = 0 /\ choices = 0

\* The process ends, and its memory with it.
Exit ==
    /\ pc' = "gone" /\ list_received' = FALSE /\ valid_chns' = << >> /\ current_chnid' = -1
    /\ player_pid' = NoPid /\ pipe' = FALSE /\ starting' = -1
    /\ deaths' = 0 /\ choices' = 0

\* kill and waitpid.
Killed(p) == [q \in Pid |-> IF q = p THEN "none" ELSE process[q]]

-----------------------------------------------------------------------------
(* The loop *)

\* Only the first list is read.
ReceiveList ==
    /\ pc = "select" /\ list_received' = TRUE
    /\ valid_chns' = IF list_received THEN valid_chns ELSE Parsed
    /\ UNCHANGED <<current_chnid, player_pid, pipe, pc, starting, process, orphan, deaths, choices>>

Start(c, from) == pc' = from /\ starting' = c

\* A bug to detect: the player before is left alone.
ReceiveData_NoStop(c) ==
    /\ pc = "select"
    /\ IF c = current_chnid /\ pipe /\ process[player_pid] # "live"
       THEN Start(c, "stopped") ELSE UNCHANGED <<pc, starting>>
    /\ UNCHANGED <<list_received, valid_chns, current_chnid, player_pid, pipe, process, orphan,
                   deaths, choices>>

\* The current channel's data goes to the player; EPIPE if it is dead.
ReceiveData(c) ==
    /\ pc = "select"
    /\ IF c = current_chnid /\ pipe /\ process[player_pid] # "live"
       THEN Start(c, "stop") ELSE UNCHANGED <<pc, starting>>
    /\ UNCHANGED <<list_received, valid_chns, current_chnid, player_pid, pipe, process, orphan,
                   deaths, choices>>

\* The user enters a number; one that is not in 1..chn_count is refused.
Choose ==
    /\ pc = "select" /\ choices < MaxChoices /\ choices' = choices + 1
    /\ \E choice \in DOMAIN valid_chns :
         LET new == valid_chns[choice].chnid IN new # current_chnid /\ Start(new, "stop")
    /\ UNCHANGED <<list_received, valid_chns, current_chnid, player_pid, pipe, process, orphan, deaths>>

-----------------------------------------------------------------------------
(* start_player, its first half being stop_player *)

Go(from, to) == pc = from /\ pc' = to

StopKills ==
    /\ Go("stop", "waited") /\ process' = Killed(player_pid)
    /\ UNCHANGED <<list_received, valid_chns, current_chnid, player_pid, pipe, starting, orphan,
                   deaths, choices>>

StopClears ==
    /\ Go("waited", "stopped") /\ player_pid' = NoPid /\ pipe' = FALSE
    /\ UNCHANGED <<list_received, valid_chns, current_chnid, starting, process, orphan, deaths, choices>>

\* The child is any process that is free; which does not matter.
Free == {p \in Pid : process[p] = "none"}

Fork ==
    /\ Go("stopped", "forked") /\ pipe' = TRUE
    /\ Free # {} /\ process' = [process EXCEPT ![CHOOSE p \in Free : TRUE] = "live"]
    /\ UNCHANGED <<list_received, valid_chns, current_chnid, player_pid, starting, orphan, deaths, choices>>

\* No pipe or no process: exit(1).
ForkFails == pc = "stopped" /\ Exit /\ UNCHANGED <<process, orphan>>

\* fork's result is stored; p is the child.
Started ==
    /\ Go("forked", "select") /\ current_chnid' = starting /\ starting' = -1
    /\ \E p \in Pid : process[p] # "none" /\ player_pid' = p
    /\ UNCHANGED <<list_received, valid_chns, pipe, process, orphan, deaths, choices>>

-----------------------------------------------------------------------------
(* The end *)

\* `q', and select's error.
Quit == pc = "select" /\ Exit /\ process' = Killed(player_pid) /\ UNCHANGED orphan

\* sig_handler.
Signal == pc # "gone" /\ Exit /\ process' = Killed(player_pid) /\ orphan' = (pc = "forked")

PlayerDies ==
    /\ deaths < MaxDeaths /\ deaths' = deaths + 1
    /\ \E p \in Pid : process[p] = "live" /\ process' = [process EXCEPT ![p] = "dead"]
    /\ UNCHANGED <<list_received, valid_chns, current_chnid, player_pid, pipe, pc, starting, orphan, choices>>

Starting == StopKills \/ StopClears \/ Fork \/ Started

ClientAlone == Choose \/ Starting \/ ForkFails \/ Quit \/ Signal \/ PlayerDies
=============================================================================
