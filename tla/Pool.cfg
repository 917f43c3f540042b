SPECIFICATION WebdarFairSpec
CONSTANTS
    Objects = {c1, c2}
    Listeners <- MCListeners
    MaxServer = 1
    Pool = Pool
    Main = Main
    Nobody = Nobody
    Commands <- MCCommands
INVARIANTS PeersBounded StartsAsAsked
PROPERTIES DyingIsDeleted CancelledPoolEnds
