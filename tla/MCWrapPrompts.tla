--------------------------- MODULE MCWrapPrompts ----------------------------
\* Small instances of WrapPrompts.  Questions are interchangeable.
EXTENDS WrapPrompts, TLC

Symmetry == Permutations(Question)
=============================================================================
