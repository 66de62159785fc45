----------------------------- MODULE MissSession ------------------------------
(***************************************************************************)
(* Opening the native connection to a camera: the CS2 handshake over UDP   *)
(* (camera/native_cs2.go), first for TCP and then for any transport, and   *)
(* the MISS authorization on top of it (native_miss.go).  The network      *)
(* loses, repeats and reorders datagrams; a deadline ends the handshake.   *)
(***************************************************************************)
EXTENDS Naturals, FiniteSets

CONSTANTS Offered,   \* transports the camera supports: a subset of {"udp", "tcp"}
          NoTransport

VARIABLES
  phase,     \* idle, search, punch, dial, auth, media, failed
  wanted,    \* the transport parameter: "tcp", then "any"
  sockets,   \* sockets that are open: "udp", "tcp"
  transport, \* of the connection
  reading,   \* the worker of the connection runs
  deadline,  \* a deadline is set on the UDP socket
  net,       \* datagrams of this socket under way
  answer,    \* what waits in channel 0: none, success, refused
  encrypt    \* encryptType: supported, unsupported

vars == <<phase, wanted, sockets, transport, reading, deadline, net, answer, encrypt>>

Datagrams == {"lanSearch", "punchPkt", "punchBack", "rdyUDP", "rdyTCP", "authReq", "authAns"}

TypeOK ==
  /\ phase \in {"idle", "search", "punch", "dial", "auth", "media", "failed"}
  /\ wanted \in {"tcp", "any"} /\ sockets \subseteq {"udp", "tcp"}
  /\ transport \in {"udp", "tcp", NoTransport} /\ {reading, deadline} \subseteq BOOLEAN
  /\ net \subseteq Datagrams /\ answer \in {"none", "success", "refused"}
  /\ encrypt \in {"supported", "unsupported"}

Init ==
  /\ phase = "idle" /\ wanted = "tcp" /\ sockets = {} /\ transport = NoTransport
  /\ reading = FALSE /\ deadline = FALSE /\ net = {} /\ answer = "none" /\ encrypt = "supported"

Send(d) == net' = net \cup {d}

-----------------------------------------------------------------------------
(* The handshake *)

\* miHomeCS2Handshake: a socket, a deadline of five seconds and the first request.
Open ==
  /\ phase = "idle" /\ phase' = "search"
  /\ sockets' = sockets \cup {"udp"} /\ deadline' = TRUE /\ net' = {"lanSearch"}
  /\ UNCHANGED <<wanted, transport, reading, answer, encrypt>>

\* The ticker of writeUntil repeats the request that waits for its answer.
Resend ==
  /\ \/ phase = "search" /\ Send("lanSearch")
     \/ phase = "punch" /\ Send("punchBack")
  /\ UNCHANGED <<phase, wanted, sockets, transport, reading, deadline, answer, encrypt>>

\* The answer to lanSearch is sent back as the next request; anything else is read and
\* dropped.
Punch ==
  /\ phase = "search" /\ "punchPkt" \in net /\ phase' = "punch" /\ Send("punchBack")
  /\ UNCHANGED <<wanted, sockets, transport, reading, deadline, answer, encrypt>>

\* Mutation of Accepted: a transport that was not asked for is taken as well.
AcceptedAny(t) == t \in {"udp", "tcp"}

Accepted(t) == wanted = "any" \/ wanted = t

Connected(t) ==
  /\ phase' = "auth" /\ transport' = t /\ reading' = TRUE /\ answer' = "none"

\* The deadline is cleared before the connection is used.
ReadyUDP ==
  /\ phase = "punch" /\ "rdyUDP" \in net /\ Accepted("udp")
  /\ Connected("udp") /\ deadline' = FALSE /\ net' = {"authReq"}
  /\ UNCHANGED <<wanted, sockets, encrypt>>

ReadyTCP ==
  /\ phase = "punch" /\ "rdyTCP" \in net /\ Accepted("tcp")
  /\ phase' = "dial" /\ deadline' = FALSE /\ sockets' = sockets \ {"udp"} /\ net' = {}
  /\ UNCHANGED <<wanted, transport, reading, answer, encrypt>>


\* miHomeMissOpenConn: TCP first, then once more for any transport.
Failed ==
  IF wanted = "tcp" THEN wanted' = "any" /\ phase' = "idle"
  ELSE phase' = "failed" /\ UNCHANGED wanted

\* newMiHomeCS2UDPConn finds no socket.
OpenFails ==
  /\ phase = "idle" /\ Failed
  /\ UNCHANGED <<sockets, transport, reading, deadline, net, answer, encrypt>>

\* A read that fails, or the deadline.
DeadlineFires ==
  /\ phase \in {"search", "punch"} /\ deadline /\ Failed
  /\ sockets' = sockets \ {"udp"} /\ deadline' = FALSE /\ net' = {}
  /\ UNCHANGED <<transport, reading, answer, encrypt>>

\* newMiHomeCS2TCPConn: three seconds at most.
Dial ==
  /\ phase = "dial"
  /\ \/ /\ sockets' = sockets \cup {"tcp"} /\ Connected("tcp") /\ Send("authReq")
        /\ UNCHANGED wanted
     \/ Failed /\ UNCHANGED <<sockets, transport, reading, answer, net>>
  /\ UNCHANGED <<deadline, encrypt>>

-----------------------------------------------------------------------------
(* The camera and the network *)

Camera(d) ==
  CASE d = "lanSearch" -> {"punchPkt"}
    [] d = "punchBack" -> {"rdyUDP" : t \in Offered \cap {"udp"}}
                             \cup {"rdyTCP" : t \in Offered \cap {"tcp"}}
    [] d = "authReq"   -> {"authAns"}
    [] OTHER           -> {}

CameraAnswers ==
  /\ \E d \in net : Camera(d) # {} /\ \E r \in Camera(d) : Send(r)
  /\ UNCHANGED <<phase, wanted, sockets, transport, reading, deadline, answer, encrypt>>

\* TCP loses nothing while it is connected.
Lose ==
  /\ transport # "tcp" /\ \E d \in net : net' = net \ {d}
  /\ UNCHANGED <<phase, wanted, sockets, transport, reading, deadline, answer, encrypt>>

-----------------------------------------------------------------------------
(* The authorization *)

\* The worker puts the command that answers into channel 0.
WorkerReceives ==
  /\ reading /\ phase = "auth" /\ "authAns" \in net /\ net' = net \ {"authAns"}
  /\ answer' \in {"success", "refused"} /\ encrypt' \in {"supported", "unsupported"}
  /\ UNCHANGED <<phase, wanted, sockets, transport, reading, deadline>>

\* A read error of the worker: the channels are closed.
WorkerFails ==
  /\ reading /\ reading' = FALSE
  /\ UNCHANGED <<phase, wanted, sockets, transport, deadline, net, answer, encrypt>>

CloseConn ==
  /\ phase' = "failed" /\ sockets' = sockets \ {transport} /\ transport' = NoTransport
  /\ reading' = FALSE /\ net' = {}

\* ReadCommand takes what is in the channel before it sees that it is closed.
Authorize ==
  /\ phase = "auth"
  /\ \/ answer = "success" /\ phase' = "media"
        /\ UNCHANGED <<sockets, transport, reading, net>>
     \/ answer = "refused" /\ CloseConn
     \/ answer = "none" /\ ~reading /\ CloseConn
  /\ UNCHANGED <<wanted, deadline, answer, encrypt>>

\* StartMedia of an encryption that is not supported fails, and so do commands on a
\* broken connection; the one who asked closes the client, as it does at the end.
MediaEnds ==
  /\ phase = "media" /\ CloseConn
  /\ UNCHANGED <<wanted, deadline, answer, encrypt>>

Next ==
  \/ Open \/ OpenFails \/ Resend \/ Punch \/ ReadyUDP \/ ReadyTCP \/ DeadlineFires \/ Dial
  \/ CameraAnswers \/ Lose \/ WorkerReceives \/ WorkerFails \/ Authorize \/ MediaEnds

\* The deadline fires, a dial ends, the caller runs; the network owes nothing.
Fairness == WF_vars(Open \/ OpenFails) /\ WF_vars(DeadlineFires) /\ WF_vars(Dial) /\ WF_vars(Authorize)

Spec == Init /\ [][Next]_vars /\ Fairness

-----------------------------------------------------------------------------
(* Properties *)

\* The sockets that are open are those of the step under way: a handshake, dial or
\* authorization that fails leaves none, and the transport is one that the camera has
\* and this attempt asked for.
SocketsAreOwned ==
  /\ sockets = IF phase \in {"search", "punch"} THEN {"udp"}
               ELSE IF phase \in {"auth", "media"} THEN {transport} ELSE {}
  /\ transport # NoTransport => transport \in Offered /\ wanted \in {"any", transport}

\* Whatever the network loses, the handshake ends, with a connection or without.
HandshakeEnds == (phase \in {"search", "punch", "dial"}) ~> (phase \in {"auth", "failed"})

\* Expected of the code but not kept by it (README, "What the code does not keep"):
\* the authorization ends as well; over UDP its request is sent once, without a deadline.
OpeningEnds == (phase = "auth") ~> (phase \in {"media", "failed"})
=============================================================================
