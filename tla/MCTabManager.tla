----------------------------- MODULE MCTabManager -----------------------------
EXTENDS TabManager
PageSymmetry == Permutations(Pages)
=============================================================================
