--------------------------- MODULE MCCodexProduct ---------------------------
EXTENDS CodexProduct, TLC

\* The Act of the start may be authorized again, that of the continuation may not.
TwoThenOne == <<2, 1>>
OnlyOne == <<1>>

Symmetry == Permutations(Callers)

=============================================================================
