SPECIFICATION Spec
CONSTANTS
  None = None
  app = app
  Apps = {app}
  Instances = {i1, i2}
  Threads = {t1, t2}
  Jobs <- MCJobs
  Choices = {"full", "limited"}
  MaxCommands = 2
  MaxGen = 2
  MaxEpoch = 2
  MaxItems = 2
  MaxBlank = 1
SYMMETRY Alike
INVARIANTS
  CommandTypeOK
  HandedOutOnce
  ClaimsOfThisGeneration
  OldestFirst
  WithdrawnGrantsStop
  GrantsAreBacked
PROPERTIES
  AnswersAreFinal
  OneInstancePerGrant
