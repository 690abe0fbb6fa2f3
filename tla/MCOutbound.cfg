CONSTANTS
  MaxCommands = 2
  MaxInputs = 2
  Slots = 2
  QueueRoom = 2
  Budget = 2
  Worst = 2
  Lane = 1
  Room = 1
SPECIFICATION Spec
CHECK_DEADLOCK FALSE
INVARIANTS PermitsConserved AnswersSound
PROPERTIES CommandsDecided Departs AnswersArrive
