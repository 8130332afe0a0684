SPECIFICATION Spec
CONSTANTS
  OfferJobs = {o1, o2}
  Reasons = {"Abandoned"}
  Topics = {"accepted", "terminated", "expired"}
  Faults = {"chain", "db", "broker", "job"}
  MaxFaults = 1
SYMMETRY OfferSymmetry
INVARIANTS
  TypeOK
  BlameIsTrue
  EndedIsOver
  SlotHeldWhileLive
  AnnouncementsAreTrue
PROPERTIES
  CancelIsFinal
