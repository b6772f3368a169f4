------------------------------ MODULE MCResponses ------------------------------
(* Small answers: a list container whose entries hold a secret, devices and  *)
(* nested entries; a job with details and a status; an error message.        *)
EXTENDS ResponseReaders

MCChild ==
    [doc |-> {"response"}, response |-> {"result", "msg"}, result |-> {"dg", "job"},
     dg |-> {"entry"}, entry |-> {"devices", "key"}, devices |-> {"entry"},
     key |-> {"line"}, line |-> {}, msg |-> {"line"},
     job |-> {"details", "status"}, details |-> {"status"}, status |-> {"line"}]
MCTextIn == {"doc", "key", "line", "status", "msg"}
MCSecret == {"key"}
MCAsks ==
    {[about |-> {"response", "result", "dg", "entry", "devices", "key", "line"},
      offset |-> o, limit |-> 2 - o, depth |-> 3] : o \in {0, 1}}
    \cup
    {[about |-> {"response", "result", "job", "details", "status", "line"},
      offset |-> 0, limit |-> 1, depth |-> 2],
     [about |-> {"response", "msg", "line"}, offset |-> 0, limit |-> 1, depth |-> 2]}

\* These answers are among those the theorems speak of.
ASSUME NoneNested == NeverNested("dg") /\ NeverNested("status")
=============================================================================
