------------------------------ MODULE MCScratch -------------------------------
(* Instances of Scratch: a thread that reads large texts, with a call      *)
(* nested in another; one that uses two models; and two threads at once.   *)
EXTENDS Scratch

CONSTANTS t1, t2

Off == [dims |-> {}, text |-> {}, ids |-> {}, depth |-> 0, fails |-> 0]
Small == [dims |-> {1}, text |-> {}, ids |-> {}, depth |-> 1, fails |-> 0]
Growing == [dims |-> {1}, text |-> {}, ids |-> {2}, depth |-> 1, fails |-> 0]
Large == [dims |-> {1}, text |-> {2}, ids |-> {2, 3}, depth |-> 2, fails |-> 1]
TwoModels == [dims |-> {1, 2}, text |-> {}, ids |-> {}, depth |-> 2, fails |-> 1]

MCWorkloads ==
  {[t \in Threads |-> IF t = t1 THEN first ELSE second] :
     <<first, second>> \in {<<Large, Off>>, <<TwoModels, Off>>, <<Growing, Small>>}}
=============================================================================
