SPECIFICATION Spec
CONSTANTS
  MaxTerm = 1
  MaxLog = 3
INVARIANTS EveryEntryOnDisk
