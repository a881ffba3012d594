CONSTANTS
  AdKeys = {j, k}
  XNames = {"s", "t"}
  SubNames = {"u", "v"}
  Stores <- OnlyPaired
SYMMETRY StoreSymmetry
SPECIFICATION CoSpec
INVARIANT ReadsBack
