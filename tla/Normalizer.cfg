CONSTANTS
  Texts <- MCTexts
  Machines <- MCMachines
SPECIFICATION Spec
INVARIANTS
  ValuesHidden
  ListsAreOne
  SameEverywhere
