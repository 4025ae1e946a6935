---------------------------- MODULE ChannelList ----------------------------
(***************************************************************************)
(* The packet that lists the channels: send_chn_list (server.c) writes it, *)
(* the client (client.c) reads it, both moving a pointer by an int8_t from *)
(* the packet itself.  A description is its length; the packet is a        *)
(* function from positions, from 0, to bytes.                              *)
(***************************************************************************)
EXTENDS Integers, Sequences

CONSTANT Descr      \* strlen of each channel's description, in order

MAX_CHN == 200
MSG_SIZE == 8192

ASSUME DescrAssumption == Descr \in Seq(Nat) /\ Descr # << >>

int8(n) == ((n + 128) % 256) - 128

Channels == DOMAIN Descr

\* The number __get_chn_info gives the channel.
chnid(i) == int8(i)

-----------------------------------------------------------------------------
(* send_chn_list *)

Copied(i) == IF Descr[i] > 255 THEN 255 ELSE Descr[i]

\* A bug to detect: the final 0 is not counted.
entry_len_NoZero(i) == int8(Copied(i))

entry_len(i) == int8(Copied(i) + 1)

\* The size of a packet of the first i entries.
Sized[i \in 0..Len(Descr)] == IF i = 0 THEN 1 ELSE Sized[i - 1] + 2 + Copied(i) + 1

total_size == Sized[Len(Descr)]

\* Where entry i is written.
Place[i \in Channels] == IF i = 1 THEN 1 ELSE Place[i - 1] + 2 + entry_len(i - 1)

Text == 65  \* a byte of a description

\* The byte at position q: what the last entry over it wrote there.
Byte(q) ==
    LET over == {i \in Channels : q \in Place[i]..Place[i] + 2 + Copied(i)}
        i == CHOOSE m \in over : \A l \in over : l <= m
        k == q - Place[i]
    IN  IF q = 0 \/ over = {} THEN 0
        ELSE CASE k = 0 -> chnid(i)
               [] k = 1 -> entry_len(i)
               [] k = 2 + Copied(i) -> 0
               [] OTHER -> Text

-----------------------------------------------------------------------------
(* The client *)

\* recvfrom fills a buffer of MSG_SIZE + 10; nothing is known of what is past it.
received == IF total_size > MSG_SIZE + 10 THEN MSG_SIZE + 10 ELSE total_size

\* The length of the string at position q.
strlen(q) == CHOOSE n \in 0..received - q :
                 (q + n = received \/ Byte(q + n) = 0) /\ \A k \in 0..n - 1 : Byte(q + k) # 0

\* The entries from position p on, when there is room for n more.
entries[n \in 0..MAX_CHN] ==
    [p \in Int |->
        IF n = 0 \/ p >= received THEN << >>
        ELSE <<[chnid |-> Byte(p), descr |-> strlen(p + 2)]>> \o entries[n - 1][p + 2 + Byte(p + 1)]]

Parsed == entries[MAX_CHN][1]

\* What the code takes for granted of the library: the length of each entry
\* fits its byte, and the list the client's buffer and its arrays.
Fits ==
    /\ Len(Descr) <= MAX_CHN /\ \A i \in Channels : Descr[i] < 127
    /\ total_size <= MSG_SIZE + 10
=============================================================================
