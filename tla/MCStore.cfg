CONSTANTS
  AdKeys = {j, k}
  XNames = {"s", "t"}
  SubNames = {"u", "v"}
  Stores <- AllStores
SYMMETRY StoreSymmetry
SPECIFICATION CoSpec
INVARIANT ViewsFollow
INVARIANT Recovers
PROPERTY FailedCommitRestores
