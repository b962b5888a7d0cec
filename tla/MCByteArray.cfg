\* Nodes of 2 bytes, at most 2 of them, writes and reads of 1 or 2 bytes
\* (reads also of 0): a write can start mid-node, end a node exactly or
\* span the two nodes, and a position can reach the end of the list.
CONSTANTS
  a = a
  b = b
  Junk = Junk
  Null = Null
  Base = 2
  MaxNodes = 2
  MaxLen = 2
  Vals <- MCVals
  IntWidth = 16
  VarintInputs <- MCVarintInputs
  ZigzagInputs <- MCZigzagInputs
SPECIFICATION Spec
INVARIANT TypeOK
INVARIANT LayoutOK
INVARIANT OnlyEmptyReadCrashes
INVARIANT CodecRoundTrip
PROPERTY ImplementsFlatBuffer
