SPECIFICATION Spec
CONSTANTS
  client = client
  server = server
  accepted = accepted
  fd1 = fd1
  fd2 = fd2
  None = None
  Clients <- MCClients
  Servers <- MCServers
  Accepted = accepted
  Descriptors <- MCDescriptors
  Radix = 2
  Values <- MCValues
  Widths <- MCWidths
  RecvSizes <- MCRecvSizes
  MaxTraffic = 3
  MaxBuffered = 2
SYMMETRY DescriptorSymmetry
INVARIANT OwnsWhatItUses
INVARIANT NoLeakedDescriptor
INVARIANT StreamsIntact
