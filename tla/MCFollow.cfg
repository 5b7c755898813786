CONSTANTS
  ann = ann
  bob = bob
  east = east
  west = west
  Users = {ann, bob}
  Servers = {east, west}
  Home <- Apart
  MaxReq <- TwiceOneWay
  MaxBlk <- OnceEach
  MaxNet = 2
  Lossy = TRUE
SPECIFICATION MCSpec
CHECK_DEADLOCK FALSE
INVARIANTS NoRelationAcrossBlock FollowIsGranted NoPendingBesideFollow
PROPERTIES ImplementsLifecycle DeliveredBlockIsFelt
