--------------------------- MODULE MCCommandRelease ---------------------------
(* Instances of CommandRelease for TLC.                                     *)
EXTENDS CommandRelease, TLC

AllOps == GatewayOps \cup ReleaseOps \cup PublishOps
DecisionOps == {"create", "approve", "reject"}

\* Handlers are interchangeable; so are the commands not yet created.
Symmetry == Permutations(Handlers) \cup Permutations(Commands)

=============================================================================
