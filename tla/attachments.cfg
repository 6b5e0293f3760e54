\* One operator uploads up to three files and removes some of them.
CONSTANTS
  Clients = {c1}
  Names = {f, g}
  None = None
  MaxUploads = 3
SPECIFICATION Spec
CHECK_DEADLOCK FALSE
INVARIANT OthersAreServed
