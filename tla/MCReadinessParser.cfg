SPECIFICATION ParserSpec
CONSTANT Outputs <- MCOutputs
INVARIANTS VerdictRight
CHECK_DEADLOCK FALSE
