CONSTANTS
  NoAddress = NoAddress
  HostAddress = HostAddress
  FirstAddress = FirstAddress
  LastAddress = LastAddress
  Addresses <- AllAddresses
  Files <- HostNotLast
SPECIFICATION Spec
INVARIANTS
  TableMatchesFile
  TableTransmitted
