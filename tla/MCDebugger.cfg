SPECIFICATION FairSpec
CONSTANTS
  Marks <- ProgramMarks
  Start = "start"
  Flow <- ProgramFlow
  Files = {"A", "B"}
  Lines = {1, 2, 3}
  FileOf <- MarkFile
  LineOf <- MarkLine
  Exit = Exit
  Codes <- ExitCodes
  None = None
CHECK_DEADLOCK FALSE
INVARIANTS TypeOK StandsWhereReported ResumeNeverStale ExitedIsOver
PROPERTIES RequestsAnswered ImplementsSession
