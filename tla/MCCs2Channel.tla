----------------------------- MODULE MCCs2Channel ----------------------------
(* Cs2Channel for TLC: four messages in nine packets, which wrap the sequence   *)
(* space once; the third is no longer than a prefix.                            *)
EXTENDS Integers, Sequences

CONSTANTS Sizes, Header, Cut, SeqSpace, Window, InFlight, PushSize, PopSize

VARIABLES copies, acked, receiver, current, waitSeq, taken, pushBuf, waitData, waitSize, popBuf,
          popped, ended

Channel == INSTANCE Cs2Channel WITH net <- copies, pc <- receiver

MCSizes == <<3, 1, 2, 4>>

\* The last message is longer than a prefix: Push looks at no more than Header
\* waiting bytes, so a shorter one could wait for a next packet that never comes.
ASSUME Cs2Assumption ==
  /\ {Header, Cut, Window, InFlight, PopSize} \subseteq Nat \ {0} /\ PushSize \in Nat
  /\ Sizes \in Seq(Nat \ {0}) /\ Len(Sizes) > 0 /\ Sizes[Len(Sizes)] > Header
  /\ SeqSpace \in Nat /\ SeqSpace % 2 = 0 /\ 2 * Window < SeqSpace

ChannelSpec == Channel!FairSpec

\* The variables have their types, and what was acknowledged is never lost before it is read
\* (native_cs2.go PushSeq).
ChannelIsSound == Channel!TypeOK /\ Channel!AckedIsKept

\* The reader gets every message once, unharmed and in order, whatever the network does; and all of
\* them unless the connection ends (native_cs2.go PushSeq, Push, Pop).
ImplementsStream == Channel!ImplementsStream
=============================================================================
