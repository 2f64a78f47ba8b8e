------------------------------- MODULE MCNode -------------------------------
(***************************************************************************)
(* Instances of MosaicNode: two rivals for one seal, chains of two and of  *)
(* three capsules.                                                         *)
(***************************************************************************)
EXTENDS MosaicNode, TLC

\* Weights 2, 1, 1: the total is 4 and the threshold 3.
ThreeMembers == {"m1", "m2", "m3"}
HeavyFirst == "m1" :> 2 @@ "m2" :> 1 @@ "m3" :> 1

\* Weights 2, 1: the total and the threshold are 3.
TwoMembers == {"m1", "m2"}
TwoWeights == "m1" :> 2 @@ "m2" :> 1

\* Weights 3, 1: m1 closes alone.
Leading == "m1" :> 3 @@ "m2" :> 1

OneResource == {"r"}

\* a and b compete for the genesis seal.
Rivals == {"a", "b"}
RivalPred == "a" :> "r" @@ "b" :> "r"
RivalAttempt == [x \in Rivals |-> 0]
RivalResource == [s \in OneResource \cup Rivals |-> "r"]
RivalVersion == "r" :> 0 @@ "a" :> 1 @@ "b" :> 1

\* c follows a.
Chain == {"a", "c"}
ChainPred == "a" :> "r" @@ "c" :> "a"
ChainAttempt == [x \in Chain |-> 0]
ChainResource == [s \in OneResource \cup Chain |-> "r"]
ChainVersion == "r" :> 0 @@ "a" :> 1 @@ "c" :> 2

\* e follows c.
Long == {"a", "c", "e"}
LongPred == ChainPred @@ "e" :> "c"
LongAttempt == [x \in Long |-> 0]
LongResource == [s \in OneResource \cup Long |-> "r"]
LongVersion == ChainVersion @@ "e" :> 3

\* Each rival has a client of its own.
RivalClients == {<<"m1", "a">>, <<"m2", "b">>}

Nothing == {}
OnlyM3 == {"m3"}
OnlyM1 == {"m1"}
OnlyM2 == {"m2"}

\* Member m3 signs both rivals and assembles a proof that verifies once m1
\* has signed b.
Equivocation == {ReceiptMessage(ReceiptOf("a", "m3", "ACCEPT")),
                 ReceiptMessage(ReceiptOf("b", "m3", "ACCEPT")),
                 ClosureMessage("b", {"m1", "m3"})}

\* A client sends the capsules to the nodes itself.
Broadcasts == {CapsuleMessage(c) : c \in Capsule}

\* Everything that m1 sends while it closes the capsules alone, for m2 to
\* receive in any order, and a client at m2.
FromM1 == {ReceiptMessage(ReceiptOf(c, "m1", "ACCEPT")) : c \in Capsule}
            \cup {ClosureMessage(c, {"m1"}) : c \in Capsule}
ClientsAtM2 == {"m2"} \X {"c"}

=============================================================================
