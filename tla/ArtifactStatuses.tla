-------------------------- MODULE ArtifactStatuses --------------------------
(* The status lifecycle of pm_system/artifacts/store.py.                   *)

ArtifactStatus == {"draft", "approved", "stale", "superseded"}

\* The statuses that may follow s (ALLOWED_TRANSITIONS).
AllowedTransitions(s) ==
    {u \in ArtifactStatus :
        \/ s = "draft"    /\ u \in {"approved", "superseded"}
        \/ s = "approved" /\ u \in {"stale", "superseded"}
        \/ s = "stale"    /\ u = "superseded"}
=============================================================================
