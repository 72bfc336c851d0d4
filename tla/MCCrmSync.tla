------------------------------ MODULE MCCrmSync ------------------------------
EXTENDS CrmSync, TLC

CONSTANTS i1, i2, a1, a2

\* Every integration takes the leads of every location.
MCRoutes == [l \in Lead |-> Integration]

\* Neither integrations nor retries are told apart.
MCSymmetry == Permutations({i1, i2}) \union Permutations({a1, a2})
==============================================================================
