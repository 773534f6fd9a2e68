------------------------ MODULE MCUnicodeStringView ------------------------
EXTENDS UnicodeStringView, TLC

\* No view is special.
Symmetry == Permutations(Views)
=============================================================================
