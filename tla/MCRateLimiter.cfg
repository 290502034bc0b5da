CONSTANTS
  Address = {zero}
  Zero = zero
  Limits = {0, 2}
  Durations = {0, 2}
  Requests = {0, 1, 2}
  MaxTime = 2
  MaxAdmitted = 3
  Adjustable = {"mint"}
SPECIFICATION LogSpec
INVARIANTS CurrentMatchesLog NeverStricterThanSliding TwiceTheLimitInAnyWindow
