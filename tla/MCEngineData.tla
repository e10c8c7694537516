---------------------------- MODULE MCEngineData ----------------------------
(* A small instance of the learning log and of the parts of EngineData.     *)
(* `scenario' says which one runs; the others rest in their initial state.  *)
(* The records of the learning log alternate between two items.             *)
EXTENDS LearningLog, EngineData

CONSTANTS a, b

MCItems  == {a, b}
MCItemOf == [r \in 1..MaxRecords |-> IF r % 2 = 1 THEN a ELSE b]

VARIABLE scenario

DataInit ==
  /\ scenario \in {"log", "inputs", "rerank", "click", "ai"}
  /\ LogInit /\ Init /\ H!Init /\ R!Init /\ A!Init
  /\ scenario # "log" =>
       /\ disk.forgetBak = Absent /\ disk.compactBak = Absent /\ ~disk.clearBak
       /\ disk.log = Absent /\ disk.versions = {}

DataNext ==
  /\ UNCHANGED scenario
  /\ \/ scenario = "log"      /\ LogNext /\ UNCHANGED <<ih, rr, ai, ui>>
     \/ scenario = "inputs"   /\ H!Next  /\ UNCHANGED <<vars, rr, ai, ui>>
     \/ scenario = "rerank"   /\ R!Next  /\ UNCHANGED <<vars, ih, ai, ui>>
     \/ scenario = "click"    /\ Next    /\ UNCHANGED <<vars, ih, rr, ai>>
     \/ scenario = "ai"       /\ A!Next  /\ UNCHANGED <<vars, ih, rr, ui>>

DataSpec == DataInit /\ [][DataNext]_<<scenario, vars, ih, rr, ai, ui>>
=============================================================================
