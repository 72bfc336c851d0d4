---------------------------- MODULE MCProvisioning ----------------------------
\* One person whose address is also written in upper case, and another.
EXTENDS Provisioning, TLC
CONSTANTS ana, ANA, bob
MCLow == (ana :> ana @@ ANA :> ana @@ bob :> bob)
MCFiles == {{ana, bob}}
MCSymmetry == Permutations(Request)
===============================================================================
