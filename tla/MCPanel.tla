------------------------------ MODULE MCPanel ------------------------------
(***************************************************************************)
(* An instance for TLC of the parts of the panel that neither wait for one *)
(* another nor share a variable: the edits of an account's term and those  *)
(* of its traffic limit, its provisioning, the administrator's sessions,   *)
(* the endpoint change, the profiles, the backup schedules and the Firefox *)
(* sidecar.  One run explores them as alternatives: `part' is the one that *)
(* runs, and the variables of the others stay as they began.               *)
(***************************************************************************)
EXTENDS AccountEdits, LimitEdits, Provisioning, AdminSessions, EndpointChange, Profiles,
        BackupSchedule, FirefoxSidecar, TLC

CONSTANTS u1, a1, a2, b1, b2, s1, s2, s3, e1, e2, e3, h1, o1, c1, m1, k1, k2, v1, v2, q1, q2

VARIABLE part

Admins == {a1, a2}
OneAccount == {u1}
Browsers == {b1, b2}
Rows == {s1, s2, s3}
Endpoints == {e1, e2, e3}
Hosts == {h1}
OneOwner == {o1}
OneMozilla == {m1}
OneCountry == {c1}
Sockets == {k1, k2}
Visitors == {v1, v2}
Sites == {q1, q2}

\* Each part has sets of its own, so exchanging two elements of every set at
\* once is a symmetry of all.
Swap(x, y) == x :> y @@ y :> x
Exchange == Swap(a1, a2) @@ Swap(b1, b2) @@ Swap(s1, s2) @@ Swap(e2, e3)
              @@ Swap(k1, k2) @@ Swap(v1, v2)
Symmetries == {[x \in DOMAIN Exchange |-> IF exchanged THEN Exchange[x] ELSE x] :
                 exchanged \in BOOLEAN}

\* The state of the part that runs tells two states of the panel apart.
PartState ==
    CASE part = "edits"        -> <<part, editVars>>
      [] part = "limits"       -> <<part, limitVars>>
      [] part = "provisioning" -> <<part, provisioningVars>>
      [] part = "sessions"     -> <<part, authVars>>
      [] part = "endpoint"     -> <<part, endpointVars>>
      [] part = "profiles"     -> <<part, profileVars>>
      [] part = "backup"       -> <<part, backupVars>>
      [] part = "sidecar"      -> <<part, sidecarVars>>

PanelVars == <<part, editVars, limitVars, provisioningVars, authVars, endpointVars, profileVars,
               backupVars, sidecarVars>>

PanelInit ==
    /\ part \in {"edits", "limits", "provisioning", "sessions", "endpoint", "profiles",
                "backup", "sidecar"}
    /\ EditsInit /\ LimitInit /\ ProvisioningInit /\ AuthInit /\ EndpointInit /\ ProfilesInit
    /\ BackupInit /\ SidecarInit
    \* what the row starts with matters only in its part
    /\ part # "edits" => row.expires = NoDate /\ row.days = NoDate
    /\ part # "limits" => quota = [total |-> NoLimit, unlimited |-> TRUE]

PanelNext ==
    \/ /\ part = "edits"
       /\ UNCHANGED <<part, limitVars, provisioningVars, authVars, endpointVars, profileVars,
                      backupVars, sidecarVars>>
       /\ EditsNext
    \/ /\ part = "limits"
       /\ UNCHANGED <<part, editVars, provisioningVars, authVars, endpointVars, profileVars,
                      backupVars, sidecarVars>>
       /\ LimitNext
    \/ /\ part = "provisioning"
       /\ UNCHANGED <<part, editVars, limitVars, authVars, endpointVars, profileVars,
                      backupVars, sidecarVars>>
       /\ ProvisioningNext
    \/ /\ part = "sessions"
       /\ UNCHANGED <<part, editVars, limitVars, provisioningVars, endpointVars, profileVars,
                      backupVars, sidecarVars>>
       /\ AuthNext
    \/ /\ part = "endpoint"
       /\ UNCHANGED <<part, editVars, limitVars, provisioningVars, authVars, profileVars,
                      backupVars, sidecarVars>>
       /\ EndpointNext
    \/ /\ part = "profiles"
       /\ UNCHANGED <<part, editVars, limitVars, provisioningVars, authVars, endpointVars,
                      backupVars, sidecarVars>>
       /\ ProfilesNext
    \/ /\ part = "backup"
       /\ UNCHANGED <<part, editVars, limitVars, provisioningVars, authVars, endpointVars,
                      profileVars, sidecarVars>>
       /\ BackupNext
    \/ /\ part = "sidecar"
       /\ UNCHANGED <<part, editVars, limitVars, provisioningVars, authVars, endpointVars,
                      profileVars, backupVars>>
       /\ SidecarNext

PanelSpec == PanelInit /\ [][PanelNext]_PanelVars

\* The variables of every part are of their types.
PanelType ==
    /\ EditsType /\ LimitType /\ ProvisioningType /\ AuthType /\ EndpointType
    /\ ProfilesType /\ BackupType /\ SidecarType

=============================================================================
