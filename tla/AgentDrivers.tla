---------------------------- MODULE AgentDrivers ----------------------------
(***************************************************************************)
(* ProcessDriver.run and DockerDriver.run of adapters/process.py: the      *)
(* first is exchange, the second looks up its image, runs exchange with    *)
(* the Docker client as the process, and then removes its container.       *)
(***************************************************************************)
EXTENDS ProcessExchange

CONSTANTS
    Isolations \* the drivers: "trusted_subprocess", "docker_network_none"

ASSUME DriversConfigured ==
    Isolations \subseteq {"trusted_subprocess", "docker_network_none"}

VARIABLES
    isolation, \* which driver runs
    stage,     \* where its run is
    container, \* the agent's container
    rm         \* the process docker rm

driverVars == <<exchangeVars, isolation, stage, container, rm>>

Docker == isolation = "docker_network_none"

DriverInit ==
    /\ ExchangeInit
    /\ isolation \in Isolations
    /\ stage = IF Docker THEN "inspect" ELSE "exchange"
    /\ container = "none"
    /\ rm = "none"

\* docker image inspect names the image; or docker, its daemon or the image is
\* not there, or it takes ten seconds.
Inspect ==
    /\ stage = "inspect"
    /\ \/ stage' = "exchange" /\ UNCHANGED outcome
       \/ stage' = "over" /\ outcome' \in {"unavailable", "timeout"}
    /\ UNCHANGED <<childVars, stdin, pc, loopVars, isolation, container, rm>>

\* The container is there once the Docker client is at work, and --rm removes
\* it when its agent ends.  A client that is killed leaves it.
Container ==
    IF ~Docker THEN "none"
    ELSE IF child = "boot" /\ child' \in {"work", "mute"} THEN "running"
    ELSE IF child' = "exited" /\ container = "running" THEN "gone"
    ELSE container

\* A step of exchange.
Within(step) ==
    /\ stage = "exchange"
    /\ step
    /\ container' = Container
    /\ UNCHANGED <<isolation, stage, rm>>

Exchange == Within(ExchangeNext)

\* An agent whose Docker client was killed may still end by itself.
ContainerEnds ==
    /\ container = "running" /\ child = "killed"
    /\ container' = "gone"
    /\ UNCHANGED <<exchangeVars, isolation, stage, rm>>

\* Mutant: the container is removed after a result only.
NextStage_RemovesOnResult == IF Docker /\ outcome = "result" THEN "rm" ELSE "over"

NextStage == IF Docker THEN "rm" ELSE "over"

\* exchange has returned or raised: DockerDriver's finally clause follows.
ExchangeEnds ==
    /\ stage = "exchange" /\ pc = "ended"
    /\ stage' = NextStage
    /\ UNCHANGED <<exchangeVars, isolation, container, rm>>

\* docker rm -f is started and awaited.
StartRm ==
    /\ stage = "rm"
    /\ stage' = "confirm" /\ rm' = "asked"
    /\ UNCHANGED <<exchangeVars, isolation, container>>

\* It removes the container or there is none, or it fails.
RmActs ==
    /\ rm = "asked"
    /\ \/ rm' = "done" /\ container' = IF container = "running" THEN "gone" ELSE container
       \/ rm' = "failed" /\ UNCHANGED container
    /\ UNCHANGED <<exchangeVars, isolation, stage>>

\* The driver ends with an outcome of its own in place of exchange's.
Over(how) ==
    /\ stage' = "over"
    /\ outcome' = how
    /\ UNCHANGED <<childVars, stdin, pc, loopVars, isolation, container>>

\* Its return code is known: removed, or no such container, or a failure.
Confirm ==
    /\ stage = "confirm" /\ rm \in {"done", "failed"}
    /\ Over(IF rm = "done" THEN outcome ELSE "cleanup_failed")
    /\ UNCHANGED rm

\* It cannot be started, or takes ten seconds and is killed.
CleanupFails ==
    \/ stage = "rm" /\ Over("cleanup_failed") /\ UNCHANGED rm
    \/ stage = "confirm" /\ Over("cleanup_late") /\ rm' = "killed"

\* The deadline while the image is looked up, or while the container is being
\* removed: then docker rm is left to itself.
CancelDriver ==
    /\ stage \in {"inspect", "rm", "confirm"} /\ outcome # "cancelled"
    /\ stage' = IF stage = "inspect" THEN "over" ELSE "abandoned"
    /\ outcome' = "cancelled"
    /\ UNCHANGED <<childVars, stdin, pc, loopVars, isolation, container, rm>>

DriverNext ==
    \/ Inspect \/ Exchange \/ ContainerEnds \/ ExchangeEnds
    \/ StartRm \/ RmActs \/ Confirm \/ CleanupFails \/ CancelDriver

DriverSpec == DriverInit /\ [][DriverNext]_driverVars

\* A client's process goes on, and ends once it has answered, but need not end
\* before; the event loop resumes what can go on; tools end; after two seconds
\* or ten the loop gives up.  Not fair: any other program, and the deadline.
DriverFairness ==
    /\ WF_driverVars(Within(agent = "client" /\ ChildStep
                             /\ (child' = "exited" => child = "answered")))
    /\ WF_driverVars(Within(RunnerStep /\ outcome' # "cancelled"))
    /\ WF_driverVars(Within(RunnerStep /\ pc = "reap"))
    /\ WF_driverVars(Within(DrainStderr))
    /\ WF_driverVars(Inspect)
    /\ WF_driverVars(ExchangeEnds)
    /\ WF_driverVars(StartRm \/ Confirm \/ CleanupFails)

FairDriverSpec == DriverSpec /\ DriverFairness

-----------------------------------------------------------------------------
\* Properties.

\* Every variable has the shape the code gives it.
DriverTypeOK ==
    /\ ExchangeTypeOK
    /\ isolation \in Isolations
    /\ stage \in {"inspect", "exchange", "rm", "confirm", "over", "abandoned"}
    /\ container \in {"none", "running", "gone"}
    /\ rm \in {"none", "asked", "done", "failed", "killed"}

\* When a driver's run is over, however it ended, no process of the agent is
\* left, and no container unless the driver says that it could not remove it.
NothingLeft ==
    /\ stage \in {"over", "abandoned"} => child \in {"none", "exited", "killed"}
    /\ stage = "over" /\ outcome \notin {"cleanup_failed", "cleanup_late"}
         => container # "running"

\* The run of a client ends by itself, without the deadline: neither pipe, nor
\* stderr, nor a tool that raises makes the two wait for each other.
HonestEnds == agent = "client" ~> stage \in {"over", "abandoned"}

\* A deadline ends the run of any program.
DeadlineEnds == outcome = "cancelled" ~> stage \in {"over", "abandoned"}
=============================================================================
