SPECIFICATION TaskSpec
CONSTANTS
  Completers = {c1, c2}
  Principals = {alice, bob}
  Nobody = Nobody
  MaxVersion = 2
  Unassigned = {}
INVARIANTS TaskTypeOK ProjectionIsPastFact ShownIsAnnounced AnswersAreRecorded
PROPERTIES NeverBackwards  DeadOwnerIsReplaced
