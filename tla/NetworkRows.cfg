CONSTANTS
  Addresses <- MCAddresses
  Entries <- MCEntries
  MaxEntries = 2
  MaxChanges = 1
SPECIFICATION Spec
INVARIANTS TypeOK RowsAgree LeaksAreKnown
PROPERTIES RowsFit OpeningEnds
