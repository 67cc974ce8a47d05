--------------------------- MODULE MCJudgeQueue ---------------------------
(* More tasks than a round claims.                                         *)
EXTENDS JudgeQueue
CONSTANTS t1, t2, t3
ThreeTasks == {t1, t2, t3}
===========================================================================
