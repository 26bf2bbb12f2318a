----------------------------- MODULE MC_LabPage -----------------------------
\* The API changes labs, or the page shows them.
EXTENDS MC_LabLifecycle, WebClient

CONSTANTS labA, labB, f1
VARIABLE part

\* The second lab is built once, the first one again.
MC_Polls == {<<labA, 1>>, <<labA, 2>>, <<labB, 1>>}

LabPageInit == /\ part \in {"api", "page"} /\ Init
               /\ IF part = "page" THEN PageInit ELSE Closed
LabPageNext == /\ UNCHANGED part
               /\ \/ part = "api" /\ Next /\ UNCHANGED pageVars
                  \/ part = "page" /\ PageNext /\ UNCHANGED vars
LabPageSpec == LabPageInit /\ [][LabPageNext]_<<part, vars, pageVars>>
=============================================================================
