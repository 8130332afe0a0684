SPECIFICATION FairSpec
CONSTANTS
  OfferJobs = {o1}
  Reasons = {"NotWanted"}
  Topics = {}
  Faults = {}
  MaxFaults = 0
PROPERTIES
  CancelEnds
