------------------------------ MODULE MCNexus -------------------------------
(***************************************************************************)
(* The two deployments of CCD/NEXUS, chosen in the initial state: a        *)
(* replicated domain (NexusNetwork) with a leader of weight 2 and two      *)
(* replicas of weight 1, one of them Byzantine, where the threshold is 3   *)
(* of 4; or two domains in one process with that committee (NexusJoin).    *)
(* Object a is in domain 1, b and c are in domain 2.                       *)
(***************************************************************************)
EXTENDS NexusNetwork, NexusJoin, TLC

ThreeMembers == {"l", "r1", "r2"}
Weights == "l" :> 2 @@ "r1" :> 1 @@ "r2" :> 1
OnlyR2 == {"r2"}
Objects == {"a", "b", "c"}
Domains == "a" :> 1 @@ "b" :> 2 @@ "c" :> 2

(***************************************************************************)
(* p and q consume the same version of a, s consumes it together with b,   *)
(* and t follows p.  s and w span both domains and have the same input in  *)
(* domain 1; w waits in domain 2 for s or z; z overlaps with s in domain   *)
(* 2; u comes second.                                                      *)
(***************************************************************************)
Operations == {"p", "q", "s", "t", "u", "w", "z"}
OperationInputs == "p" :> ("a" :> 0) @@ "q" :> ("a" :> 0) @@ "s" :> ("a" :> 0 @@ "b" :> 0)
                    @@ "t" :> ("a" :> 1) @@ "w" :> ("a" :> 0 @@ "b" :> 1)
                    @@ "z" :> ("b" :> 0 @@ "c" :> 0) @@ "u" :> ("a" :> 1 @@ "c" :> 1)
Signers == [op \in Operations |-> IF op = "t" THEN "y" ELSE "x"]
Owners == [op \in Operations |-> IF op = "p" THEN "y" ELSE "x"]

Workloads == {{"p", "q"}, {"p", "s"}, {"p", "t"}}
OnlyQ == {"q"}
JoinRequests == {"q", "s", "u", "w", "z"}

-----------------------------------------------------------------------------
VARIABLE deployment

EitherInit ==
    /\ Init
    /\ JoinInit
    /\ deployment \in {"replicated", "joined"}

EitherNext ==
    \/ deployment = "replicated" /\ Next /\ UNCHANGED <<deployment, joinVars>>
    \/ deployment = "joined" /\ JoinNext /\ UNCHANGED <<deployment, vars>>

EitherSpec == EitherInit /\ [][EitherNext]_<<vars, joinVars, deployment>>

=============================================================================
