CONSTANTS
  Clients = {a, b}
  Metadata <- MCMetadata
  Requests <- MCRequests
  Invalid <- MCInvalid
  BackingFails = TRUE
  None = None
SPECIFICATION Spec
PROPERTIES ImplementsTree CallsReturn
