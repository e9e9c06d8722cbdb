---------------------------- MODULE MCAssistantChat ----------------------------
(* Small instances of AssistantChat: two messages and a clear on two          *)
(* connections, by users that do some of that.                                *)
EXTENDS AssistantChat

One(set) == {CHOOSE x \in set : TRUE}

Patient  == [patient |-> TRUE, conns |-> Conns, sends |-> Sends, clears |-> Clears, selects |-> 4, days |-> 1]
Hasty    == [Patient EXCEPT !.patient = FALSE, !.clears = {}, !.days = 0]
Staying  == [Hasty EXCEPT !.conns = One(Conns), !.clears = Clears, !.selects = 2]
Crossing == [Hasty EXCEPT !.selects = 3]

SomeUsers == {Patient, Staying, Crossing}
================================================================================
