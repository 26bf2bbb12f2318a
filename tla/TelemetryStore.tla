--------------------------- MODULE TelemetryStore ---------------------------
(* The telemetry of one blue-team run: the index that the telemetry service *)
(* (services/telemetry) makes at Elasticsearch for it, the deploy and the   *)
(* teardown at the API that ask for it, and what either leaves behind when  *)
(* a call fails, is lost or is given up while its work goes on.             *)
EXTENDS FiniteSets

CONSTANT Events   \* identifiers of the lab's events

VARIABLES
    elastic,   \* the index of the run: is it there, its manifest, its events
    writer,    \* where the service's provision of the run is
    deploy,    \* the deploy at the API
    teardown   \* the teardown at the API

telemetryVars == <<elastic, writer, deploy, teardown>>

Gone == [there |-> FALSE, manifest |-> FALSE, events |-> {}]
Empty == [Gone EXCEPT !.there = TRUE]

TelemetryTypeOK ==
    /\ elastic \in [there : BOOLEAN, manifest : BOOLEAN, events : SUBSET Events]
    /\ writer \in {"idle", "look", "create", "bulk", "undo", "made", "failed"}
    /\ deploy \in {"none", "provisioning", "recorded", "failed"}
    /\ teardown \in {"none", "asked", "done"}

TelemetryInit ==
    elastic = Gone /\ writer = "idle" /\ deploy = "none" /\ teardown = "none"

WriterGoes(from, to) == writer = from /\ writer' = to

\* POST /v1/runs of the service: the manifest tells a replay from a first call.
StartProvision ==
    /\ deploy = "none" /\ deploy' = "provisioning" /\ WriterGoes("idle", "look")
    /\ UNCHANGED <<elastic, teardown>>

LookForManifest ==
    /\ WriterGoes("look", IF elastic.manifest THEN "made" ELSE "create")
    /\ UNCHANGED <<elastic, deploy, teardown>>

\* Elasticsearch refuses a name that is taken.  Nothing is undone here.
CreateIndex ==
    /\ IF elastic.there THEN WriterGoes("create", "failed") /\ UNCHANGED elastic
                        ELSE WriterGoes("create", "bulk") /\ elastic' = Empty
    /\ UNCHANGED <<deploy, teardown>>

\* Defect: a bulk is taken as done once its first document is.
ManifestTaken(manifest, events) == manifest

\* Any document of a bulk may be rejected alone; an index that is not there is
\* made by the bulk.  The manifest is one of the documents.
Written(manifest, events) ==
    [there |-> TRUE, manifest |-> manifest, events |-> elastic.events \cup events]
AllTaken(manifest, events) == manifest /\ events = Events
WriteEvents ==
    /\ \E manifest \in BOOLEAN, events \in SUBSET Events :
         /\ elastic' = Written(manifest, events)
         /\ WriterGoes("bulk", IF AllTaken(manifest, events) THEN "made" ELSE "undo")
    /\ UNCHANGED <<deploy, teardown>>

\* The delete is tried once and its failure swallowed.
Undo ==
    /\ WriterGoes("undo", "failed") /\ elastic' \in {Gone, elastic}
    /\ UNCHANGED <<deploy, teardown>>

\* A request to Elasticsearch fails or is aborted after eight seconds, and may
\* have been carried out.
CallFails ==
    /\ \/ writer = "look" /\ writer' = "failed" /\ UNCHANGED elastic
       \/ /\ writer = "create" /\ writer' = "failed"
          /\ elastic' \in {elastic, IF elastic.there THEN elastic ELSE Empty}
       \/ /\ writer = "bulk" /\ writer' = "undo"
          /\ elastic' \in {elastic, Written(TRUE, Events)}
    /\ UNCHANGED <<deploy, teardown>>

-----------------------------------------------------------------------------
(* The API.                                                                *)

\* The row is inserted only after the service has said that all is written.
RecordRun ==
    /\ deploy = "provisioning" /\ writer = "made" /\ deploy' = "recorded"
    /\ UNCHANGED <<elastic, writer, teardown>>

\* The insert fails: the index is deleted, as far as that succeeds.
RecordFails ==
    /\ deploy = "provisioning" /\ writer = "made" /\ deploy' = "failed"
    /\ elastic' \in {Gone, elastic} /\ UNCHANGED <<writer, teardown>>

\* The service failed, or the API no longer waits for it: the environment is
\* destroyed, the index is not.
DeployFails ==
    /\ deploy = "provisioning" /\ deploy' = "failed"
    /\ UNCHANGED <<elastic, writer, teardown>>

\* The end of the run: a failing delete is logged and the run ends all the same.
TearDown ==
    /\ deploy = "recorded" /\ teardown = "none" /\ teardown' = "asked"
    /\ UNCHANGED <<elastic, writer, deploy>>
DropIndex ==
    /\ teardown = "asked" /\ teardown' = "done" /\ elastic' \in {Gone, elastic}
    /\ UNCHANGED <<writer, deploy>>

TelemetryNext ==
    \/ StartProvision \/ LookForManifest \/ CreateIndex \/ WriteEvents \/ Undo
    \/ CallFails \/ RecordRun \/ RecordFails \/ DeployFails
    \/ TearDown \/ DropIndex
=============================================================================
