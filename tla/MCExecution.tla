---------------------------- MODULE MCExecution -----------------------------
(***************************************************************************)
(* An instance of Execution: a counter that is raised and lowered again,   *)
(* so that an earlier root comes back.                                     *)
(***************************************************************************)
EXTENDS Execution, TLC

OneMember == {"m"}
OneWeight == "m" :> 1
OneResource == {"r"}
OneKey == {"k"}

State(v) == [key \in Key |-> v]
Instruction(op, v) == [operation |-> op, key |-> "k", value |-> v]
Transaction(u, n, gas, program) ==
    [caller |-> u, nonce |-> n, gasLimit |-> gas, instructions |-> program, signed |-> TRUE]

Raise == Transaction("u", 0, 100, <<Instruction("ADD_INT", 1)>>)
Lower == Transaction("u", 1, 100, <<Instruction("ADD_INT", -1)>>)
Clear == Transaction("v", 0, 100, <<Instruction("DELETE", Absent)>>)
\* Fails: its second instruction adds to a text.
Spoil == Transaction("u", 1, 100, <<Instruction("SET", Text), Instruction("ADD_INT", 1)>>)
\* Fails: the second instruction exceeds the gas limit.
Dear == Transaction("v", 0, 15, <<Instruction("SET", Text), Instruction("DELETE", Absent)>>)

Transactions == {Raise, Lower, Clear, Spoil, Dear}
Batches == {<<Raise, Lower>>, <<Lower, Clear>>, <<Raise, Spoil>>, <<Clear, Raise>>}

\* a raises and b lowers the counter; c follows b and names the transaction
\* of a again; d is a rival of b that clears the counter.
Capsules == {"a", "b", "c", "d"}
Preds == "a" :> "r" @@ "b" :> "a" @@ "c" :> "b" @@ "d" :> "a"
Attempts == [x \in Capsules |-> 0]
SealResource == [s \in OneResource \cup Capsules |-> "r"]
SealVersion == "r" :> 0 @@ "a" :> 1 @@ "b" :> 2 @@ "d" :> 2 @@ "c" :> 3

GenesisRoot == "r" :> State(0)
Roots == "a" :> State(1) @@ "b" :> State(0) @@ "c" :> State(1) @@ "d" :> State(Absent)
Witnesses == "a" :> Raise @@ "b" :> Lower @@ "c" :> Raise @@ "d" :> Clear

=============================================================================
