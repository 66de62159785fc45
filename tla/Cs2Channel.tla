----------------------------- MODULE Cs2Channel ------------------------------
(* One data channel of a CS2 connection over UDP (camera/native_cs2.go): the    *)
(* peer cuts a stream of length prefixed messages into numbered DRW packets and *)
(* repeats each until it is acknowledged; the worker puts packets back in order *)
(* (PushSeq), takes messages out of the stream (Push) and hands them to the     *)
(* reader (Pop). Packets and acknowledgements are lost, repeated and reordered. *)
(* A byte of the stream is <<m, i>>, the i-th byte of message m with its prefix.*)
EXTENDS Integers, Sequences, FiniteSets, Functions

CONSTANTS
  Sizes,       \* the length of each message, without its prefix
  Header,      \* the length of the prefix (4 in the code)
  Cut,         \* the length of a packet's payload
  SeqSpace,    \* the number of sequence numbers (2^16 in the code)
  Window,      \* how many packets the peer sends ahead of the first unacknowledged one
  InFlight,    \* bound: copies of packets under way
  PushSize,    \* capacity of pushBuf: packets that came too early
  PopSize      \* capacity of popBuf: messages waiting for the reader

\* Where message m ends in the stream.
End[m \in 0..Len(Sizes)] == IF m = 0 THEN 0 ELSE End[m - 1] + Header + Sizes[m]

Total == End[Len(Sizes)]
Count == (Total + Cut - 1) \div Cut
Packets == 1..Count

Byte(p) ==
  LET m == CHOOSE k \in 1..Len(Sizes) : End[k - 1] < p /\ p <= End[k]
  IN <<m, p - End[m - 1]>>

Payload == [n \in Packets |->
  [i \in 1..(IF n = Count THEN Total - Cut * (n - 1) ELSE Cut) |-> Byte(Cut * (n - 1) + i)]]

Messages == [m \in 1..Len(Sizes) |-> [i \in 1..Sizes[m] |-> <<m, Header + i>>]]

VARIABLES
  net,         \* packets of which a copy is under way
  acked,       \* packets the peer knows to be acknowledged
  pc,          \* the worker: "read", "push" or "ack"
  current,     \* the packet the worker handles
  waitSeq,     \* the sequence number PushSeq waits for
  taken,       \* history: packets taken in order
  pushBuf,     \* payloads that came too early, by sequence number
  waitData,    \* bytes in order that do not make a message yet
  waitSize,    \* the length of the message they begin, 0 when not known
  popBuf,      \* messages for the reader
  popped,      \* history: messages read
  ended        \* the worker has returned and closed the channel

vars == <<net, acked, pc, current, waitSeq, taken, pushBuf, waitData, waitSize, popBuf, popped, ended>>

Init ==
  /\ net = {} /\ acked = {} /\ pc = "read" /\ current = 1 /\ waitSeq = 0 /\ taken = 0
  /\ pushBuf = <<>> /\ waitData = <<>> /\ waitSize = 0 /\ popBuf = <<>> /\ popped = <<>>
  /\ ended = FALSE

seq(n) == (n - 1) % SeqSpace

\* Mutation of diff: the distance is taken without a sign.
diffUnsigned(s) == (s - waitSeq) % SeqSpace

\* int16(sequence - waitSeq): the distance in a space that wraps.
diff(s) ==
  LET d == (s - waitSeq) % SeqSpace
  IN IF d < SeqSpace \div 2 THEN d ELSE d - SeqSpace
------------------------------------------------------------------------------
(* The peer and the network *)

\* The first packet that is not acknowledged, Count + 1 when there is none.
Low == CHOOSE n \in 1..Count + 1 : n \notin acked /\ 1..n - 1 \subseteq acked

\* The peer sends a packet of its window, again if need be. The copy is lost, or
\* takes the place of another when too many are under way.
Send(n) ==
  /\ n \in Packets \ (acked \cup net) /\ n < Low + Window
  /\ net' \in {net} \cup (IF Cardinality(net) < InFlight THEN {net \cup {n}}
                          ELSE {(net \ {k}) \cup {n} : k \in net \ {Low}})
  /\ UNCHANGED <<acked, pc, current, waitSeq, taken, pushBuf, waitData, waitSize, popBuf, popped, ended>>

\* No copy is older than half the sequence space.
Recent(n) == n + SeqSpace \div 2 > taken
------------------------------------------------------------------------------
(* The worker *)

\* Mutation of PushEarly: a packet that finds no room is acknowledged too.
PushEarlyAlwaysAcked(n) ==
  /\ IF seq(n) \in DOMAIN pushBuf \/ Cardinality(DOMAIN pushBuf) = PushSize
     THEN UNCHANGED pushBuf
     ELSE pushBuf' = [s \in DOMAIN pushBuf \cup {seq(n)} |->
                        IF s = seq(n) THEN Payload[n] ELSE pushBuf[s]]
  /\ pc' = "ack" /\ UNCHANGED waitData

\* Mutation of PushEarly: the capacity of pushBuf is not looked at.
PushEarlyUnbounded(n) ==
  /\ pushBuf' = [s \in DOMAIN pushBuf \cup {seq(n)} |->
                   IF s = seq(n) THEN Payload[n] ELSE pushBuf[s]]
  /\ pc' = "ack" /\ UNCHANGED waitData

\* PushSeq, the packet came too early: keep it when there is room. Only a packet
\* that is kept is acknowledged.
PushEarly(n) ==
  /\ IF seq(n) \in DOMAIN pushBuf \/ Cardinality(DOMAIN pushBuf) = PushSize
     THEN UNCHANGED pushBuf
     ELSE pushBuf' = [s \in DOMAIN pushBuf \cup {seq(n)} |->
                        IF s = seq(n) THEN Payload[n] ELSE pushBuf[s]]
  /\ pc' = IF seq(n) \in DOMAIN pushBuf' THEN "ack" ELSE "read"
  /\ UNCHANGED waitData

\* The worker reads a DRW packet and calls PushSeq. The network may repeat it.
Receive(n) ==
  /\ pc = "read" /\ ~ended /\ n \in net /\ Recent(n)
  /\ net' \in {net, net \ {n}} /\ current' = n
  /\ \/ diff(seq(n)) > 0 /\ PushEarly(n)
     \/ diff(seq(n)) < 0 /\ pc' = "ack" /\ UNCHANGED <<pushBuf, waitData>>
     \/ diff(seq(n)) = 0 /\ pc' = "push" /\ waitData' = waitData \o Payload[n] /\ UNCHANGED pushBuf
  /\ UNCHANGED <<acked, waitSeq, taken, waitSize, popBuf, popped, ended>>

\* What Push knows after it has looked for the prefix of the next message.
Known ==
  IF waitSize = 0
  THEN [size |-> Sizes[waitData[1][1]], data |-> SubSeq(waitData, Header + 1, Len(waitData))]
  ELSE [size |-> waitSize, data |-> waitData]

HasMessage == Len(waitData) > Header /\ Known.size <= Len(Known.data)

\* Push: one complete message goes to the reader, or the reader is too slow and
\* the connection ends with an error (after the packet has been acknowledged).
PushMessage ==
  /\ pc = "push" /\ HasMessage
  /\ IF Len(popBuf) < PopSize
     THEN /\ popBuf' = Append(popBuf, SubSeq(Known.data, 1, Known.size))
          /\ waitData' = SubSeq(Known.data, Known.size + 1, Len(Known.data)) /\ waitSize' = 0
          /\ UNCHANGED <<pc, ended>>
     ELSE /\ ended' = TRUE /\ pc' = "ack"
          /\ UNCHANGED <<popBuf, waitData, waitSize>>
  /\ UNCHANGED <<net, acked, current, waitSeq, taken, pushBuf, popped>>

\* Push returns: PushSeq goes on with the next packet if it came early.
PushNext ==
  /\ pc = "push" /\ ~HasMessage
  /\ waitSeq' = (waitSeq + 1) % SeqSpace /\ taken' = taken + 1
  /\ LET rest == IF Len(waitData) > Header THEN Known ELSE [size |-> waitSize, data |-> waitData]
     IN /\ waitSize' = rest.size
        /\ IF waitSeq' \in DOMAIN pushBuf
           THEN /\ waitData' = rest.data \o pushBuf[waitSeq']
                /\ pushBuf' = Restrict(pushBuf, DOMAIN pushBuf \ {waitSeq'}) /\ UNCHANGED pc
           ELSE /\ waitData' = rest.data /\ pc' = "ack" /\ UNCHANGED pushBuf
  /\ UNCHANGED <<net, acked, current, popBuf, popped, ended>>

\* The worker writes the acknowledgement, which may be lost.
Ack ==
  /\ pc = "ack" /\ pc' = "read"
  /\ acked' \in {acked, acked \cup {current}}
  /\ UNCHANGED <<net, current, waitSeq, taken, pushBuf, waitData, waitSize, popBuf, popped, ended>>

\* Conn.Read fails: the deadline of the pipeline has passed or Close was called.
ReadFails ==
  /\ pc = "read" /\ ~ended /\ ended' = TRUE
  /\ UNCHANGED <<net, acked, pc, current, waitSeq, taken, pushBuf, waitData, waitSize, popBuf, popped>>

\* The reader takes a message (ReadPacket, ReadCommand); after the end of the
\* connection it still gets those that were complete.
Pop ==
  /\ popBuf # <<>> /\ popped' = Append(popped, Head(popBuf)) /\ popBuf' = Tail(popBuf)
  /\ UNCHANGED <<net, acked, pc, current, waitSeq, taken, pushBuf, waitData, waitSize, ended>>
------------------------------------------------------------------------------
Worker == (\E n \in Packets : Receive(n)) \/ PushMessage \/ PushNext \/ Ack \/ ReadFails

Next == (\E n \in Packets : Send(n)) \/ Worker \/ Pop

Spec == Init /\ [][Next]_vars

\* The first packet that is not acknowledged arrives, is read, is acknowledged.
LowArrives == \E n \in Packets \cap {Low} : Send(n) /\ n \in net'
LowReceived == \E n \in net \cap {Low} : Receive(n)
LowAcked == Ack /\ current = Low /\ current \in acked'

\* Goroutines run, the peer goes on sending what is not acknowledged, and what is
\* sent again and again arrives in the end, in both directions.
Fairness ==
  /\ WF_vars(LowArrives) /\ SF_vars(LowReceived) /\ SF_vars(LowAcked)
  /\ WF_vars(PushMessage \/ PushNext \/ Ack) /\ WF_vars(Pop)

FairSpec == Spec /\ Fairness
------------------------------------------------------------------------------
TypeOK ==
  /\ net \subseteq Packets /\ Cardinality(net) <= InFlight /\ acked \subseteq Packets
  /\ pc \in {"read", "push", "ack"} /\ current \in Packets
  /\ waitSeq \in 0..SeqSpace - 1 /\ taken \in 0..Count
  /\ DOMAIN pushBuf \subseteq 0..SeqSpace - 1 /\ Cardinality(DOMAIN pushBuf) <= PushSize
  /\ \A s \in DOMAIN pushBuf : pushBuf[s] \in Range(Payload)
  /\ Len(waitData) \in 0..Total /\ waitSize \in {0} \cup Range(Sizes)
  /\ Len(popBuf) <= PopSize /\ ended \in BOOLEAN

\* The peer never sends an acknowledged packet again, so PushSeq must have taken
\* it, be taking it, or hold its payload under its number until it is its turn.
AckedIsKept ==
  ended \/ \A n \in acked :
    \/ n <= taken \/ (pc = "push" /\ n = taken + 1)
    \/ seq(n) \in DOMAIN pushBuf /\ pushBuf[seq(n)] = Payload[n]

\* The reader gets every message once, unharmed and in order, whatever the
\* network does; and all of them unless the connection ends.
Promised == INSTANCE OrderedStream WITH out <- popped, closed <- ended

ImplementsStream == Promised!Spec
=============================================================================
