\* One model whose template leaves the opening of the block to the model, and
\* one streamed call of two deltas: one of each kind, in either order.
CONSTANTS
  None = None
  Ids = {"one", "two", "three"}
  Settings <- MCSettings
  Files <- OneFile
  Width = 4
  Calls <- OneCall
  MaxEvents = 2
  Delays = {0, 1500}
SPECIFICATION Spec
INVARIANT PlacesMatchBody
