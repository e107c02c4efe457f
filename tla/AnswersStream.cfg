SPECIFICATION Spec
CONSTANTS
  Questions = {q1, q2}
  Workers = {w1, w2}
  Nobody = Nobody
  NoQuestion = NoQuestion
  ROUNDS = 1
  MAX_ATTEMPTS = 2
  MAX_TROUBLES = 4
SYMMETRY AnswersSymmetry
INVARIANTS CompletedIsStored ToldIsFinal OneQuestionAtATime AnsweredOnce
CHECK_DEADLOCK FALSE
