CONSTANTS
  Addresses = {0, 1}
  MaxModbusPktSize = 260
  Requests <- TheRequests
  ReadSizes = {5}
  LossSizes = {3}
  MaxFaults = 1
SPECIFICATION LinkSpec
INVARIANTS ServedInOrder ServerRecovers
PROPERTIES AcceptedIsTrue
