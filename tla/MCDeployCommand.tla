--------------------------- MODULE MCDeployCommand ---------------------------
(* Instances of DeployCommand, and of HostPreparation in it, for TLC. *)
EXTENDS DeployCommand, TLC
\* A complete machine, one that passes Verify without a usable pair, and one
\* with docker-compose as a program of its own.
Machines == {{"git", "docker", "plugin"},
             {"git", "docker", "podman-compose"},
             {"git", "docker", "docker-compose"}}
AnyImages == Permutations(Images)
=============================================================================
