--------------------------- MODULE MCBackupRestore ---------------------------
EXTENDS BackupRestore, TLC

Symmetry == Permutations(Processes)

==============================================================================
