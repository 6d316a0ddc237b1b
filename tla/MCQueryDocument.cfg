SPECIFICATION Spec
CONSTANTS
  Commands = {status, store}
  Others = {other}
  MaxNesting = 4
  MaxIgnored = 3
INVARIANTS
  TypeOK
  AtMostOneCommand
  AtMostOneReply
  QueryAnswered
PROPERTY
  CommandIsChildOfRoot
CHECK_DEADLOCK FALSE
