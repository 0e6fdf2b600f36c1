SPECIFICATION Spec
CONSTANTS
  Resources = {pm, cfs}
  Iterations = 6
  MaxGap = 2
SYMMETRY Symmetry
INVARIANTS
  TypeOK
  LinksAgree
  OutagesAreExplained
  IncidentsAreOutages
  IncidentSpansItsEvents
  IncidentsDoNotOverlap
CHECK_DEADLOCK FALSE
