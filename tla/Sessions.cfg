\* Three declarations or values and two sessions, in every order.
CONSTANTS
  Node <- Nodes
  Height <- Heights
  Decls <- AllDecls
  Params <- Lists
  MaxDepth = 2
  Slots = {1, 2}
  Slot <- SlotOf
  Stamps = 3
  Value <- AllValues
  Threshold = 1
  AdmitSlot <- AdmitOf
  FilterBit <- BitOf
  MaxChecks = 3
  MaxWork = 3
  MaxSessions = 2
SPECIFICATION Spec
INVARIANTS AcceptsTruly EntriesTrue ForceRight IdsLive
CHECK_DEADLOCK FALSE
