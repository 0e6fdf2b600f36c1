SPECIFICATION Spec
CONSTANTS
  Reporting = {"perlmutter", "cfs"}
  Draws <- MCDraws
  Iterations = 3
  Limits <- MCLimits
INVARIANTS
  LinksResolve
  PagesAddUp
  AnswersMatchLinks
  LocationsAddUp
  AllocationsAreUsable
