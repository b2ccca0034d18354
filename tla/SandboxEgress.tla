--------------------------- MODULE SandboxEgress ---------------------------
(***************************************************************************)
(* DockerSandbox.run of pm_system/sandbox/runner.py in allowlist mode: what *)
(* _ensure_allowlist_infra does to the one internal network and the one    *)
(* proxy container that all runs of a policy share, when several ticket    *)
(* workers (or several projects) start a sandboxed command at once.  Each  *)
(* docker command is one step of the docker daemon; nothing holds a lock   *)
(* from one to the next.  A command run with check=True that fails raises  *)
(* CalledProcessError, which no caller handles.                            *)
(***************************************************************************)
EXTENDS FiniteSets

CONSTANT
    Runs       \* calls of DockerSandbox.run, each by a thread of its own

ASSUME EgressAssumption == Runs # {} /\ IsFiniteSet(Runs)

VARIABLES
    command,        \* the docker command each run gives next
    network,   \* does INTERNAL_NETWORK exist?
    proxy,     \* the proxy container
    bridged,   \* is it connected to the bridge network?
    routed,    \* the runs whose task started with a way out
    faulted    \* has a docker command failed, or the proxy died, by itself?

egressVars == <<command, network, proxy, bridged, routed, faulted>>

EgressTypeOK ==
    /\ command \in [Runs -> {"inspectNetwork", "createNetwork", "inspectProxy",
                        "remove", "start", "connect", "task", "done", "raised"}]
    /\ network \in BOOLEAN
    /\ proxy \in {"absent", "stopped", "running"}
    /\ bridged \in BOOLEAN
    /\ bridged => proxy # "absent"
    /\ routed \subseteq Runs
    /\ faulted \in BOOLEAN

\* What earlier runs left: nothing, the network, a stopped proxy, or all of it.
EgressInit ==
    /\ command = [r \in Runs |-> "inspectNetwork"]
    /\ network \in BOOLEAN
    /\ proxy \in {"absent", "stopped", "running"}
    /\ proxy # "absent" => network
    /\ bridged = (proxy # "absent")
    /\ routed = {}
    /\ faulted = FALSE

Goto(r, step) == command' = [command EXCEPT ![r] = step]

\* docker network inspect
InspectNetwork(r) ==
    /\ command[r] = "inspectNetwork"
    /\ Goto(r, IF network THEN "inspectProxy" ELSE "createNetwork")
    /\ UNCHANGED <<network, proxy, bridged, routed, faulted>>

\* docker network create: fails where another run has created it meanwhile.
CreateNetwork(r) ==
    /\ command[r] = "createNetwork"
    /\ network' = TRUE
    /\ Goto(r, IF network THEN "raised" ELSE "inspectProxy")
    /\ UNCHANGED <<proxy, bridged, routed, faulted>>

\* Mutant of InspectProxy: any proxy container will do.
InspectExists(r) ==
    /\ command[r] = "inspectProxy"
    /\ Goto(r, IF proxy # "absent" THEN "task" ELSE "remove")
    /\ UNCHANGED <<network, proxy, bridged, routed, faulted>>

\* docker inspect: a running proxy is taken for a finished one.
InspectProxy(r) ==
    /\ command[r] = "inspectProxy"
    /\ Goto(r, IF proxy = "running" THEN "task" ELSE "remove")
    /\ UNCHANGED <<network, proxy, bridged, routed, faulted>>

\* docker rm -f: also a proxy that another run has started since.
RemoveProxy(r) ==
    /\ command[r] = "remove"
    /\ proxy' = "absent" /\ bridged' = FALSE
    /\ Goto(r, "start")
    /\ UNCHANGED <<network, routed, faulted>>

\* Mutant of StartProxy: the second leg is left out.
StartUnbridged(r) ==
    /\ command[r] = "start"
    /\ \/ proxy = "absent" /\ proxy' = "running" /\ Goto(r, "task")
       \/ proxy # "absent" /\ Goto(r, "raised") /\ UNCHANGED proxy
    /\ UNCHANGED <<network, bridged, routed, faulted>>

\* docker run -d --name: fails where the name is taken.
StartProxy(r) ==
    /\ command[r] = "start"
    /\ \/ proxy = "absent" /\ proxy' = "running" /\ Goto(r, "connect")
       \/ proxy # "absent" /\ Goto(r, "raised") /\ UNCHANGED proxy
    /\ UNCHANGED <<network, bridged, routed, faulted>>

\* docker network connect bridge: fails where the proxy is gone or has its
\* second leg already.
ConnectBridge(r) ==
    /\ command[r] = "connect"
    /\ \/ proxy # "absent" /\ ~ bridged /\ bridged' = TRUE /\ Goto(r, "task")
       \/ (proxy = "absent" \/ bridged) /\ Goto(r, "raised") /\ UNCHANGED bridged
    /\ UNCHANGED <<network, proxy, routed, faulted>>

\* The internal network and the proxy address a task is given lead outside
\* through a running proxy with both legs, and nowhere without it.
HasRoute == proxy = "running" /\ bridged

\* docker run of the task, which ends by itself or is killed at its timeout.
RunTask(r) ==
    /\ command[r] = "task"
    /\ routed' = IF HasRoute THEN routed \cup {r} ELSE routed
    /\ Goto(r, "done")
    /\ UNCHANGED <<network, proxy, bridged, faulted>>

\* A checked docker command fails for a reason of its own.
CommandFails(r) ==
    /\ faulted' = TRUE
    /\ command[r] \in {"createNetwork", "start", "connect"}
    /\ Goto(r, "raised")
    /\ UNCHANGED <<network, proxy, bridged, routed>>

\* The proxy process ends: the container stays, stopped.
ProxyDies ==
    /\ faulted' = TRUE
    /\ proxy = "running"
    /\ proxy' = "stopped"
    /\ UNCHANGED <<command, network, bridged, routed>>

Step(r) ==
    \/ InspectNetwork(r) \/ CreateNetwork(r) \/ InspectProxy(r)
    \/ RemoveProxy(r) \/ StartProxy(r) \/ ConnectBridge(r) \/ RunTask(r)

EgressNext == ProxyDies \/ \E r \in Runs : Step(r) \/ CommandFails(r)

EgressSpec == EgressInit /\ [][EgressNext]_egressVars

-----------------------------------------------------------------------------
Over == \A r \in Runs : command[r] \in {"done", "raised"}

\* Whatever the runs do to each other, a proxy that lacks its second leg has a
\* run on the way that is about to add it: they never leave a half-built proxy
\* for later runs to take for a finished one.
HalfBuiltHasBuilder ==
    ~ faulted /\ proxy = "running" /\ ~ bridged =>
        \E r \in Runs : command[r] = "connect"

\* The runs may make each other fail, but not all of them: one gets through to
\* its task, and the infrastructure is complete when they are over.
OneGetsThrough ==
    ~ faulted /\ Over =>
        /\ \E r \in Runs : command[r] = "done"
        /\ proxy = "running" /\ bridged

\* "allowlist mode runs tasks on an internal Docker network whose only route
\* out is an allowlisting proxy sidecar": a task that started had that route.
TaskHasRoute ==
    ~ faulted => \A r \in Runs : command[r] = "done" => r \in routed
=============================================================================
