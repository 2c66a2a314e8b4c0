SPECIFICATION TestedSpec
CONSTANTS
  MaxDefaults = 1
  MaxItem = 2
  MaxQueue = 2
  Endpoints <- MCEndpoints
  Sliced <- MCSliced
  Requests <- MCRequests
  ContentOf <- MCContentOf
  TestBodies <- MCTestBodies
INVARIANTS
  OwnComesFirst
  AnswerIsOfWholeBody
  RejectedKeepsBody
  UpgradeIsKept
PROPERTY DefaultsReachEndpoint
