SPECIFICATION Spec
CONSTANTS
  Texts = {"failed", "failed again", ""}
  EmptyText = ""
  AllocMayFail = TRUE
INVARIANTS
  TypeOK
  ReturnIsLastRun
  NoRunOnBadArguments
  MessageOfThisCall
