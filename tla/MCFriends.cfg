SPECIFICATION FriendsSpec
CONSTANTS
  Users = {ann, bob, cid}
  ann = ann
  bob = bob
  cid = cid
  MaxRequests = 4
  MaxCalls = 2
SYMMETRY Symmetric
INVARIANTS FriendshipIsMutual ViewsAgree
CHECK_DEADLOCK FALSE
