---------------------------- MODULE MCTaskBroker ----------------------------
(***************************************************************************)
(* Small instances of TaskBroker: the runners and the requests all have    *)
(* one task type, except where a cfg names a request or runner of another. *)
(***************************************************************************)
EXTENDS TaskBroker

CONSTANTS Python \* the requests and runners of task type python

MCTypeOf == [x \in Requests \cup Runners |-> IF x \in Python THEN "python" ELSE "javascript"]
=============================================================================
