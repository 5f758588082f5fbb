---------------------------- MODULE MCWalletSends ----------------------------
EXTENDS WalletSends, TLC

Symmetry == Permutations(Workers)
=============================================================================
