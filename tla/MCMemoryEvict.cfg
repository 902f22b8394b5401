SPECIFICATION Spec
CONSTANTS
 Lines = {0,1,2,4,6}
 Words = 2
 Sets = 2
 None = None
 Slots = 2
 WriteBuffers = 1
 PutBuffers = 2
 Dram = {0,1}
 Rom = {4}
 Bad = {6}
 Shared = {2}
 Faulty = {6}
 Mshrs = 3
 PutSlots = 2
 Reserve = 1
 Reservation = 2
 Together = TRUE
 Scenarios <- EvictScenario
INVARIANT LoadsExact
