--------------------------- MODULE MC_RuntimePlane ---------------------------
\* A lab is validated, or a run of a validated lab is made and ended, or the page
\* of its learner is open.
EXTENDS RangePlane, LabValidation, WebClient
CONSTANTS d1, d2, labA, labB, f1
VARIABLE part

\* The second lab is built once, the first one again.
MC_Polls == {<<labA, 1>>, <<labA, 2>>, <<labB, 1>>}

Validated ==
    /\ lab = [team |-> "red", reviewer |-> "external", flaw |-> "none"]
    /\ api = "validated" /\ chain = "pass" /\ box = "answered"
    /\ made = Len(BoxObjects) /\ vspace = "gone" /\ job = NoJob
    /\ index = "absent" /\ evidence = {} /\ troubles = 0
    /\ canary = TRUE /\ blinked = FALSE /\ unheard = {} /\ kept = FALSE

PlaneInit == /\ part \in {"validation", "range", "page"} /\ RangeInit
             /\ part # "range" => req = CHOOSE r \in Requests : TRUE
             /\ IF part = "validation" THEN ValidationInit ELSE Validated
             /\ IF part = "page" THEN PageInit ELSE Closed
PlaneNext == /\ UNCHANGED part
             /\ \/ part = "validation" /\ ValidationNext /\ UNCHANGED <<rangeVars, pageVars>>
                \/ part = "range" /\ RangeNext /\ UNCHANGED <<validationVars, pageVars>>
                \/ part = "page" /\ PageNext /\ UNCHANGED <<rangeVars, validationVars>>
PlaneSpec == /\ PlaneInit /\ [][PlaneNext]_<<part, rangeVars, validationVars, pageVars>>
             /\ RangeFairness /\ ValidationFairness /\ PageFairness
=============================================================================
