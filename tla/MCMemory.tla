------------------------------- MODULE MCMemory -------------------------------
(***************************************************************************)
(* Instances of the modules that manage memory, one in each behaviour:     *)
(* malloc's heap, the collector of Lua and the tables of Lua.  `part` says  *)
(* which one runs, the others keep their initial state.                    *)
(***************************************************************************)
EXTENDS Heap, Table, Gc

VARIABLE part

\* Keys that collide with one another, in small tables.
MCHash(k) ==
  IF k[1] = "str" THEN (IF k[2] = "a" THEN 1 ELSE 3) ELSE IF k[2] = 5 THEN 2 ELSE k[2]

mcVars == <<part, vars, tvars, gvars>>
MCInit ==
  /\ part \in {"heap", "table", "collector"}
  /\ Init /\ TableInit /\ GcInit
  /\ part # "collector" => g = NewState
HeapRun      == part = "heap" /\ Next /\ UNCHANGED <<part, tvars, gvars>>
TableRun     == part = "table" /\ TableNext /\ UNCHANGED <<part, vars, gvars>>
CollectorRun == part = "collector" /\ GcNext /\ UNCHANGED <<part, vars, tvars>>
MCNext == HeapRun \/ TableRun \/ CollectorRun
\* The fairness of FairSpec.
MCSpec == MCInit /\ [][MCNext]_mcVars /\ WF_vars(Step)
===============================================================================
