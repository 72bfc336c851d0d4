----------------------------- MODULE MCCardTurnover -----------------------------
\* Three requests on two cards.
EXTENDS CardTurnover, TLC
MCSymmetry == Permutations(Request) \union Permutations(Old)
===============================================================================
