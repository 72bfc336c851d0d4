--------------------------- MODULE MCBackupRestore ---------------------------
\* Two requests and two restores around one card, with an earlier backup and a new one.
EXTENDS BackupRestore, TLC
MCSymmetry == Permutations(Request) \union Permutations(Restore)
===============================================================================
