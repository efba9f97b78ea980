CONSTANTS
  Nil = Nil
  Keys <- SevenKeys
  Addresses <- FifteenAddresses
  Duplicates = FALSE
SPECIFICATION Spec
INVARIANTS
  AATree
  ValuesOwned
PROPERTIES
  ImplementsMap
