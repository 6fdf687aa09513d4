CONSTANTS
  NoAddress = NoAddress
  HostAddress = HostAddress
  FirstAddress = FirstAddress
  LastAddress = LastAddress
  Addresses <- AllAddresses
  Files <- AllFiles
SPECIFICATION Spec
INVARIANTS
  LastMachineSaved
