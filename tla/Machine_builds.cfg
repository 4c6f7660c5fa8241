SPECIFICATION Spec
CONSTANTS
  Builds <- MCBuilds
  Starting <- MCStarting
  Jumping <- MCJumping
  Writing <- MCWriting
  Arity <- MCArity
  Arguments = {1, 2}
  Answers <- MCAnswers
  Values = {0, 5}
  MaxFrames = 3
INVARIANTS
  TypeOK
  StackIsBalanced
PROPERTIES
  ImplementsProcess
CHECK_DEADLOCK FALSE
