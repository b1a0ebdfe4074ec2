CONSTANTS
  Packets <- MCPackets
  Sizes = {1, 3, 5, 12}
  Averages = {3, 4, 5}
  Xpads = {0, 1, 3}
  Block = 4
  QueryOverhead = 2
  Initial = 3
  Safe = 7
  MaxSize = 12
SPECIFICATION SizeSpec
INVARIANTS PaddedRight
PROPERTIES RetryFits
