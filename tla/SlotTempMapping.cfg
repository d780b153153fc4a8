SPECIFICATION Spec
CONSTANTS
  TableEntries = 6
  BootSlots = 1
  MaxSlots = 13
  MaxFree = 2
INVARIANT LinkedWhereMeant
