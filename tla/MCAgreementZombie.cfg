SPECIFICATION FairSpec
CONSTANTS
  OfferJobs = {o1}
  Reasons = {}
  Topics = {"accepted", "terminated"}
  Faults = {"job"}
  MaxFaults = 1
PROPERTIES
  ZombieEnds
  EndIsAnnounced
