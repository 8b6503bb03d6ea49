------------------------------- MODULE MCHost -------------------------------
EXTENDS Deployment

CONSTANTS v, t, i, path, bak, gone, service, manual, r1

\* schema_version, a table and an index; version 1 lacked the index
MCSchema == <<v, t, i>>
MCAdded == <<{}, {i}>>

MCFound == {[objects |-> {}, versions |-> {}],
            [objects |-> {v, t}, versions |-> {1}],
            [objects |-> {v, t, i}, versions |-> {3}]}
=============================================================================
