SPECIFICATION Spec
CONSTANTS
  Texts = {"failed", "failed again", ""}
  EmptyText = ""
  AllocMayFail = FALSE
INVARIANTS
  ThrowingFunctionThrows
