----------------------------- MODULE MCAnswers -----------------------------
EXTENDS Answers, TLC

AnswersSymmetry == Permutations(Questions) \cup Permutations(Workers)
=============================================================================
