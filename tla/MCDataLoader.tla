---------------------------- MODULE MCDataLoader ----------------------------
EXTENDS DataLoader
=============================================================================
