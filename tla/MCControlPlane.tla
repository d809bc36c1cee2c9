--------------------------- MODULE MCControlPlane ---------------------------
(* ControlPlane for TLC.  A client is a name and nothing else: no action and no
   property treats two of them differently. *)
EXTENDS ControlPlane, TLC

ClientsAlike == Permutations(Clients)

=============================================================================
