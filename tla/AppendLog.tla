------------------------------ MODULE AppendLog ------------------------------
(* What an evaluation history promises: a log per history that grows by one     *)
(* acceptable record at a time and never loses or changes one.                  *)
EXTENDS EvaluationTrend

CONSTANT History

VARIABLE log

Init == log = [h \in History |-> <<>>]

AppendRecord(h) ==
    \E run \in Run, baseline \in Run \cup {None} :
        /\ Acceptable(log[h], run, baseline)
        /\ log' = [log EXCEPT ![h] = Appended(@, run, baseline)]

Next == \E h \in History : AppendRecord(h)

Spec == Init /\ [][Next]_log

==============================================================================
