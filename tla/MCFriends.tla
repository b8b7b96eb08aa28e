------------------------------ MODULE MCFriends ------------------------------
EXTENDS Friends, TLC

Symmetric == Permutations(Users)

=============================================================================
