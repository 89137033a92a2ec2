SPECIFICATION Spec
CONSTANTS
  o1 = o1
  o2 = o2
  Components = {"auth", "events"}
  EventWriter = "events"
  Observers = {o1, o2}
  Limit = 1
  DomainKinds = {"request", "routine"}
  Routine = {"routine"}
  None = None
  MaxFailures = 2
  MaxFacts = 1
  MaxCancels = 1
  MaxRestarts = 1
  MaxTime = 1
CONSTRAINT OneAtATime
SYMMETRY Symmetry
INVARIANTS FailuresStayOpen RecoveriesArePaired WalksAreComplete
CHECK_DEADLOCK FALSE
