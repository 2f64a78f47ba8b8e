------------------------------ MODULE MCLocal -------------------------------
(***************************************************************************)
(* An instance of LocalProtocol.                                           *)
(***************************************************************************)
EXTENDS LocalProtocol, TLC

\* Two interchangeable members; both are needed for a quorum.
EqualWeights == [m \in Member |-> 1]
Interchangeable == Permutations(Member)

\* a and d are rivals of the first attempt for the seal r, b is a second
\* attempt, and x consumes the seal of another resource.
Resources == {"r", "q"}
Capsules == {"a", "b", "d", "x"}
Preds == "a" :> "r" @@ "b" :> "r" @@ "d" :> "r" @@ "x" :> "q"
Attempts == "a" :> 0 @@ "b" :> 1 @@ "d" :> 0 @@ "x" :> 0
SealResource == [s \in Resources \cup Capsules |-> IF s \in {"q", "x"} THEN "q" ELSE "r"]
SealVersion == [s \in Resources \cup Capsules |-> IF s \in Resources THEN 0 ELSE 1]

\* A bundle joins the two resources.
Joint == {{"b", "x"}}

=============================================================================
