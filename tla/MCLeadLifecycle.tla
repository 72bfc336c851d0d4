--------------------------- MODULE MCLeadLifecycle ---------------------------
EXTENDS LeadLifecycle, TLC

CONSTANTS r1, r2, r3

\* All submissions come from one person.
MCAlike == {p \in Lead \X Lead : p[1] # p[2]}

MCSymmetry == Permutations(Lead) \union Permutations(Request)
==============================================================================
