\* Two transfers of three bytes and three broken connections.
SPECIFICATION FairSpec
CONSTANTS
  Total = 3
  MaxTransfers = 2
  MaxDrops = 3
\* The fetcher is idle once the bound on transfers is reached.
CHECK_DEADLOCK FALSE
INVARIANTS
  IInv
PROPERTIES
  FetcherKeepsInterface
  TransferComesToAnEnd
