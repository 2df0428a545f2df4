--------------------------- MODULE DeclaredClients ---------------------------
(***************************************************************************)
(* OIDC clients that are declared, not stored: by the environment, and by  *)
(* the labels of Docker containers on the same host, which are read anew   *)
(* whenever Docker reports that one has started or stopped (util/          *)
(* config.ts).  A client of the table is hidden by a declared one of the   *)
(* same client_id, and cannot be changed then (oidc/adapter.ts).           *)
(***************************************************************************)
EXTENDS Naturals, FiniteSets

CONSTANTS
  AppIds,              \* client_ids
  EnvironmentDeclares, \* those with variables in the environment
  Containers,
  LabelsDeclare,       \* [Containers -> SUBSET AppIds]
  ContainerBound,      \* how often a container starts or stops
  StoreBound           \* how often an administrator saves or removes a client

VARIABLES
  running,             \* the containers that run
  reports,             \* events of Docker that have not been received
  declared,            \* DECLARED_CLIENTS: [AppIds -> where its variables come from]
  inspection,          \* of the containers, by the refresh that made this map
  older,               \* containers that earlier refreshes have still to inspect
  stored,              \* clients with a row
  happened             \* what the bounds count

declaredVars == <<running, reports, declared, inspection, older, stored, happened>>

Sources == Containers \cup {"environment"}

DeclaredTypeOK ==
  /\ running \subseteq Containers /\ reports \in 0..ContainerBound
  /\ declared \in [AppIds -> SUBSET Sources]
  /\ inspection \in [pc : {"listing", "inspecting", "done", "failed"}, left : SUBSET Containers]
  /\ older \subseteq Containers /\ stored \subseteq AppIds
  /\ happened \in [containers : 0..ContainerBound, stores : 0..StoreBound]

(* The variables of the environment, which are read at once.               *)
byEnvironment == [a \in AppIds |-> IF a \in EnvironmentDeclares THEN {"environment"} ELSE {}]

Listing == [pc |-> "listing", left |-> {}]

(* The module config ends with a first refresh.                            *)
DeclaredInit ==
  /\ running \in SUBSET Containers /\ reports = 0
  /\ declared = byEnvironment /\ inspection = Listing
  /\ older = {} /\ stored = {} /\ happened = [containers |-> 0, stores |-> 0]

-----------------------------------------------------------------------------
(* A container starts or stops, and Docker reports it.                     *)
ContainerChanged(k) ==
  /\ happened.containers < ContainerBound
  /\ happened' = [happened EXCEPT !.containers = @ + 1]
  /\ running' = IF k \in running THEN running \ {k} ELSE running \cup {k}
  /\ reports' = reports + 1
  /\ UNCHANGED <<declared, inspection, older, stored>>

(* Mistaken: an inspection that is under way is not disturbed.             *)
RefreshedUnlessBusy ==
  /\ reports > 0 /\ reports' = reports - 1
  /\ IF inspection.pc \in {"listing", "inspecting"} THEN UNCHANGED <<declared, inspection>>
     ELSE declared' = byEnvironment /\ inspection' = Listing
  /\ UNCHANGED <<running, older, stored, happened>>

(* refreshDeclaredClients: a new map takes the place of the old one before *)
(* any container is looked at.  An earlier refresh goes on inspecting, and *)
(* fills a map nobody uses.                                                *)
Refreshed ==
  /\ reports > 0 /\ reports' = reports - 1
  /\ declared' = byEnvironment /\ inspection' = Listing
  /\ older' = older \cup (IF inspection.pc = "listing" THEN running ELSE inspection.left)
  /\ UNCHANGED <<running, stored, happened>>

(* listContainers, which may fail.                                         *)
ContainersListed ==
  /\ inspection.pc = "listing"
  /\ inspection' \in {[pc |-> "inspecting", left |-> running], [pc |-> "failed", left |-> {}]}
  /\ UNCHANGED <<running, reports, declared, older, stored, happened>>

(* One is inspected: if it still runs the variables of its labels are      *)
(* registered, over those a client may have already.                       *)
ContainerInspected(k) ==
  /\ inspection.pc = "inspecting" /\ k \in inspection.left
  /\ inspection' = [inspection EXCEPT !.left = @ \ {k}]
  /\ declared' = [a \in AppIds |-> IF k \in running /\ a \in LabelsDeclare[k]
                                   THEN declared[a] \cup {k} ELSE declared[a]]
  /\ UNCHANGED <<running, reports, older, stored, happened>>

OlderInspected(k) ==
  /\ k \in older /\ older' = older \ {k}
  /\ UNCHANGED <<running, reports, declared, inspection, stored, happened>>

InspectionDone ==
  /\ inspection.pc = "inspecting" /\ inspection.left = {}
  /\ inspection' = [inspection EXCEPT !.pc = "done"]
  /\ UNCHANGED <<running, reports, declared, older, stored, happened>>

(* A container is gone by then, whichever refresh asks.  Nobody handles    *)
(* the error, so the process ends; it is started again, as at first.       *)
InspectionFailed(k) ==
  /\ k \in (inspection.left \cup older) \ running
  /\ declared' = byEnvironment /\ inspection' = Listing /\ older' = {} /\ reports' = 0
  /\ UNCHANGED <<running, stored, happened>>

changeable(a) ==
  /\ declared[a] = {}
  /\ happened.stores < StoreBound /\ happened' = [happened EXCEPT !.stores = @ + 1]
  /\ UNCHANGED <<running, reports, declared, inspection, older>>

upsertClient(a) == changeable(a) /\ stored' = stored \cup {a}
removeClient(a) == changeable(a) /\ stored' = stored \ {a}

(* POST and PATCH /client; between its check that there is no such client, *)
(* or is one, and the upsert the map may have changed.                     *)
AppStored(a) == upsertClient(a)

(* DELETE /client/:client_id.                                              *)
AppRemoved(a) == a \in stored /\ removeClient(a)

Inspects ==
  Refreshed \/ ContainersListed \/ InspectionDone \/ \E k \in Containers : ContainerInspected(k)

DeclaredNext ==
  \/ Inspects
  \/ \E k \in Containers : ContainerChanged(k) \/ OlderInspected(k) \/ InspectionFailed(k)
  \/ \E a \in AppIds : AppStored(a) \/ AppRemoved(a)

-----------------------------------------------------------------------------
(* getClient, and the adapter's _findBy.                                   *)
found(a) == IF declared[a] # {} THEN "declared" ELSE IF a \in stored THEN "stored" ELSE "none"

declarers(a) == {k \in running : a \in LabelsDeclare[k]} \cup byEnvironment[a]

(***************************************************************************)
(* However containers start and stop while others are being inspected, the *)
(* declared clients are in the end those of the environment and of the     *)
(* containers that run, unless Docker refuses to list them; and a client   *)
(* declared in the environment is at no moment taken for a stored one      *)
(* (registerDockerListener, refreshDeclaredClients).                       *)
(***************************************************************************)
DeclaredSettles ==
  /\ [](\A a \in EnvironmentDeclares : found(a) = "declared")
  /\ []<>(inspection.pc = "failed" \/ \A a \in AppIds : declared[a] = declarers(a))
=============================================================================
