CONSTANTS
  Kind = {"config", "trans"}
  MaxRequests = 2
  MaxResults = 2
  QueueMax = 2
  MaxFaults = 1
  MaxEarly = 1
SPECIFICATION FairSpec
INVARIANTS TypeOK AnsweredIsHandled ResultsConserved
PROPERTIES AllSettled
