SPECIFICATION FairSpec
CONSTANTS
  Tasks = {1, 2}
  Dispatchers = {1, 2}
  Group <- MCGroup
  Sequence <- MCSequence
  Drafts <- MCDrafts
  Strict = {2}
  Sovereign = FALSE
  MaxChanges = 1
PROPERTIES RunsSafely InOrder TakenUp
CHECK_DEADLOCK FALSE
