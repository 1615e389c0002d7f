\* Two requests, a restart, names for all the files they may leave.
CONSTANTS
  Requests = {r1, r2}
  Bodies = {{"log", "args"}, {}}
  TmpNames = {t1, t2, t3, t4}
  NoName = NoName
  NoFile = NoFile
  MaxUploads = 2
  MaxRestarts = 1
SPECIFICATION Spec
INVARIANTS
  TypeOK
  MinesItsOwnRequest
  NoFileIsShared
  LeftFilesHaveAReason
PROPERTIES
  EveryRequestIsAnswered
\* The clients have their answers.
CHECK_DEADLOCK FALSE
