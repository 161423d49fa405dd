------------------------------ MODULE MCScripts ------------------------------
(* Instances of Scripts for TLC: three keys, two sorted indexes, and what  *)
(* the handlers return.                                                    *)
EXTENDS Scripts

CONSTANTS k1, k2, k3, v1, v2, v3, red, blue

(* v1 and v2 differ in the first field; the second index lists v3 but not  *)
(* v2, and v3 lacks the first field.  v2 is larger than a record may be.   *)
MCFieldOf ==
    LET first == (v1 :> red) @@ (v2 :> blue) @@ (v3 :> NoField)
        second == (v1 :> blue) @@ (v2 :> NoField) @@ (v3 :> blue)
    IN [i \in Indexes |-> [v \in Values |-> IF i = 1 THEN first[v] ELSE second[v]]]

MCSize == LET size == (v1 :> 2) @@ (v2 :> 3) @@ (v3 :> 1) IN [v \in Values |-> size[v]]
MCSorted == [i \in Indexes |-> "sorted"]

Put(k, v) == [op |-> "upsert", known |-> TRUE, key |-> k, val |-> v]
Del(k) == [op |-> "delete", known |-> TRUE, key |-> k]
Unknown(op) == [op EXCEPT !.known = FALSE]
Push(fine) == [op |-> "push", fine |-> fine]

MCBatches ==
    {<<Put(k1, v1), Put(k2, v1)>>, <<Put(k2, v3), Del(k1), Put(k1, v1)>>,
     <<Put(k1, v2), Del(k2)>>, <<Put(k1, v1), Unknown(Del(k1)), Del(k1)>>,
     <<Unknown(Put(k2, v3)), Put(k1, v3)>>, <<Push(FALSE), Put(k1, v3)>>,
     <<Put(k2, NoValue), Push(TRUE), Del(k2)>>, <<Put(k1, v3), Malformed>>}

MCRanges == {{red}, {red, blue}}

-----------------------------------------------------------------------------

(* A cron or lifecycle script whose handler is declared in it, as a route  *)
(* or an on_ingest may be, has it run.                                     *)
DeclaredHandlersRun ==
    [][\A t \in Workers : NoHandler(t) => script[t].style = "none"]_scriptVars

=============================================================================
