SPECIFICATION RingSpec
CONSTANTS
  Bytes <- MCBytes
  Inputs <- MCInputs
  ring_buffer_len = 4
INVARIANTS
  RingTypeOK
  AddressesAgree
PROPERTY
  ImplementsQueue
