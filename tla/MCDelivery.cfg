SPECIFICATION DeliverySpec
CONSTANTS
  app = app
  appdev = appdev
  Keys = {app, appdev}
  Inside <- MCInside
  MaxRuns = 2
  MaxFaults = 3
  MaxTickets = 2
CHECK_DEADLOCK FALSE
INVARIANTS
  SentMeansHeld
  ErrorsAreFaults
  OneTicketUnlessBlind
PROPERTY
  PushesEnd
