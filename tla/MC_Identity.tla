---------------------------- MODULE MC_Identity ----------------------------
EXTENDS Identity
CONSTANTS alice, bob, c1, c2

=============================================================================
