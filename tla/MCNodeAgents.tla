---------------------------- MODULE MCNodeAgents ----------------------------
(***************************************************************************)
(* A small instance of NodeAgents: all operations of the docker daemon,    *)
(* whose calls are few, and over NATS a query and one other operation.     *)
(***************************************************************************)
EXTENDS NodeAgents, TLC

SomeOps == [m \in Modes |->
    CASE m = "DirectDocker" -> AllOps
      [] m = "DirectStar"   -> {"start", "query_all"}
      [] OTHER              -> {"stop", "query_all"}]

FewCalls == [m \in Modes |-> IF m = "IndirectStar" THEN 3 ELSE 2]

SomeFaults == [m \in Modes |->
    CASE m = "DirectDocker" -> 2 [] m = "DirectStar" -> 1 [] OTHER -> 0]

\* Over NATS no action tells operations, containers or nodes apart; the docker
\* daemon is the local node's alone, and its states have no mirror image.
Alike == Permutations(Apps) \cup Permutations(Jobs) \cup Permutations(Nodes)
=============================================================================
