SPECIFICATION AnswerSpec
CONSTANTS
  Messages <- MessagesDef
  Paths = {"pi", "translated", "passed", "whole"}
INVARIANT ChunksDoNotShow BilledAsReported
PROPERTY ImplementsTelling
CHECK_DEADLOCK FALSE
