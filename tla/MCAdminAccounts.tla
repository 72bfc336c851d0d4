---------------------------- MODULE MCAdminAccounts ----------------------------
\* Three requests on one account, in every order.
EXTENDS AdminAccounts, TLC
MCSymmetry == Permutations(Request) \union Permutations(Code)
===============================================================================
