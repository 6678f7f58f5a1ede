SPECIFICATION Spec
CONSTANTS
    RecurringToolCallLimit = 3
    AutomaticToolCalling = TRUE
    MessagesPerTurn = 2
INVARIANT AnswersReturned
CHECK_DEADLOCK FALSE
