---------------------------- MODULE MCTraceSinks ----------------------------
(* Runs with nested operations and a late event, a short one and one that  *)
(* stops in the middle; the file sink gets fewer events.                   *)
EXTENDS TraceSinks
CONSTANTS long, short, broken, c1, c2
E(kind, inv, parent) == [kind |-> kind, inv |-> inv, parent |-> parent]
Nested == <<E("run_started", 0, 0), E("started", 1, 0), E("started", 2, 1), E("finished", 2, 1),
            E("point", 0, 2), E("finished", 1, 0), E("run_finished", 0, 0), E("point", 0, 1)>>
Short == <<E("run_started", 0, 0), E("point", 0, 0), E("run_finished", 0, 0)>>
Broken == <<E("run_started", 0, 0), E("started", 1, 0)>>
MCScript == [s \in {"jsonl", "memory", "telemetry"} |->
  [r \in {long, short, broken} |->
     CASE r = long   -> IF s = "jsonl" THEN Broken ELSE Nested
       [] r = short  -> IF s = "jsonl" THEN Broken ELSE Short
       [] r = broken -> IF s = "jsonl" THEN <<>> ELSE Broken]]
=============================================================================
