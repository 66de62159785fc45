----------------------------- MODULE MCLanControl -----------------------------
(***************************************************************************)
(* TLC instance of LanControl and LanUplink, two parts of LANClient.  They *)
(* have no variable in common: each is checked with the other at rest.     *)
(***************************************************************************)
EXTENDS LanControl, Naturals, TLC

CONSTANTS Loops, Count, IdSpace, Malformed, Window, Lifetime

ASSUME UplinkConstants == Count \in Nat /\ IdSpace \in Nat \ {0}

\* The copies of one message arrive within the window that remembers its id.
ASSUME WindowIsLongEnough == Window \in Nat /\ Lifetime \in Nat /\ Lifetime < Window

\* The device does not use an id for two messages while the model follows it.
ASSUME IdsDoNotWrap == Count <= IdSpace

VARIABLES part,
          allowed, subscribed, age, acked, recent, reader, copy, dispatched, muted

Uplink == INSTANCE LanUplink WITH pc <- reader

\* Voters, runtimes and read loops are interchangeable.
Symmetry == Permutations(Voters) \cup Permutations(Runtimes) \cup Permutations(Loops)

uplink == <<allowed, subscribed, age, acked, recent, reader, copy, dispatched, muted>>

MCInit ==
  /\ part \in {"control", "uplink"}
  /\ Init /\ Uplink!Init
  \* One of the initial states of the part at rest.
  /\ part # "uplink" => allowed /\ subscribed

MCNext ==
  /\ UNCHANGED part
  /\ \/ part = "control" /\ Next /\ UNCHANGED uplink
     \/ part = "uplink" /\ Uplink!Next /\ UNCHANGED vars

MCSpec == MCInit /\ [][MCNext]_<<part, vars, uplink>>

\* The variables of the models have their types.
LanControlTypeOK == TypeOK /\ Uplink!TypeOK

\* Whatever calls overlap nothing leaks; undisturbed, the runtime obeys the votes and the gateway,
\* and subscribers know the truth (lan.go setEnabled, startRuntime, stopRuntime).
ControlObeys == NothingLeaks /\ RuntimeObeys /\ ToldTheTruth

\* A repeated message is seen once and what is acknowledged was handled (lan.go
\* recordRecentUplink, handlePacket).
HandledOnce == Uplink!AtMostOnce /\ Uplink!AckedWasHandled
=============================================================================
