---------------------------- MODULE DesktopShell ----------------------------
(***************************************************************************)
(* The desktop shell that owns the backend (src-tauri/src/backend.rs),     *)
(* composed with the backend's startup and restore (WorkspaceRestore).     *)
(*                                                                         *)
(* Every spawn has a fresh instance token; the token stands for the child, *)
(* its pid and its token.  Commands run one at a time on the shell's main  *)
(* thread; the Terminated event of a child is handled on another.  A       *)
(* backend binds the port after its startup.  Another program, or a        *)
(* backend somebody started by hand, may hold the port.                    *)
(***************************************************************************)
EXTENDS WorkspaceRestore

CONSTANTS MaxSpawns \* bound: sidecars ever spawned

ASSUME DesktopShellAssumption == MaxSpawns \in Nat \ {0}

VARIABLES owned,    \* BackendState.owned: a token, 0 for None
          alive,    \* the sidecar process that exists, 0 for none
          port,     \* who holds the port: 0, a token, or External
          exited,   \* tokens whose Terminated event is not handled yet
          quiesced, \* the running backend has confirmed quiesce
          command,  \* the command the main thread is in, and its step
          spawns

shellVars == <<owned, alive, port, exited, quiesced, command, spawns>>
allVars == <<vars, shellVars>>

External == MaxSpawns + 1
Commands == {"none", "ensure", "restart", "stop"}
Idle == [name |-> "none", step |-> "idle"]

SInit == /\ Init
         /\ owned = 0 /\ alive = 0 /\ port = 0
         /\ exited = {} /\ quiesced = FALSE
         /\ command = Idle
         /\ spawns = 0

\* is_backend_ready_for_token: the health answer carries the token, when one
\* is expected.
Ready(token) == port # 0 /\ (token # 0 => port = token)
Reachable == port # 0

----------------------------------------------------------------------------
(* Commands.  Each ends with an answer or an error; neither changes state. *)

Answer == command' = Idle
In(name, step) == command' = [name |-> name, step |-> step]
AtStep(step) == command.step = step

\* ensure_backend_inner, up to the wait.
Spawn ==
    /\ spawns < MaxSpawns
    /\ spawns' = spawns + 1
    /\ owned' = spawns + 1
    /\ alive' = spawns + 1
    /\ quiesced' = FALSE
    /\ UNCHANGED <<port, exited>>

EnsureInner(force) ==
    IF ~force /\ Ready(owned) THEN Answer /\ UNCHANGED <<owned, alive, port, exited, quiesced, spawns>>
    ELSE IF owned # 0 THEN In("ensure", "wait") /\ UNCHANGED <<owned, alive, port, exited, quiesced, spawns>>
    ELSE IF Reachable THEN Answer /\ UNCHANGED <<owned, alive, port, exited, quiesced, spawns>>
    ELSE Spawn /\ In("ensure", "wait")

Ensure == /\ AtStep("idle")
          /\ EnsureInner(FALSE)
          /\ UNCHANGED vars

\* wait_for_ready_status: ready, or the startup timeout.
Waited == /\ AtStep("wait")
          /\ Answer
          /\ UNCHANGED <<owned, alive, port, exited, quiesced, spawns, vars>>

Restart == /\ AtStep("idle")
           /\ IF owned = 0
                THEN IF Reachable THEN Answer ELSE In("restart", "spawn")
                ELSE In("restart", "quiesce")
           /\ UNCHANGED <<owned, alive, port, exited, quiesced, spawns, vars>>

StopCommand == /\ AtStep("idle")
               /\ owned # 0
               /\ In("stop", "quiesce")
               /\ UNCHANGED <<owned, alive, port, exited, quiesced, spawns, vars>>

\* request_backend_quiesce: the identity is verified, and the backend says
\* that its workers reached a checkpoint; otherwise the command fails.
QuiesceMutant == /\ AtStep("quiesce") \* it is ended whatever it answers
                 /\ In(command.name, "terminate")
                 /\ UNCHANGED <<quiesced, owned, alive, port, exited, spawns, vars>>

Quiesce == /\ AtStep("quiesce")
           /\ \/ /\ Ready(owned) /\ owned # 0 /\ At("serving")
                 /\ quiesced' = TRUE
                 /\ In(command.name, "terminate")
              \/ Answer /\ UNCHANGED quiesced
           /\ UNCHANGED <<owned, alive, port, exited, spawns, vars>>

\* The process dies wherever it is; the files beside the database stay.
Dead == /\ Die
        /\ alive' = 0
        /\ exited' = exited \cup {alive}
        /\ port' = IF port = alive THEN 0 ELSE port

Terminate == /\ AtStep("terminate")
             /\ In(command.name, "release")
             /\ IF owned # 0 /\ alive = owned THEN Dead
                ELSE UNCHANGED <<alive, exited, port, proc>>
             /\ UNCHANGED <<owned, quiesced, spawns, disk, backups, chosen, faults>>

\* wait_for_port_release, then the ownership is given up.
Release == /\ AtStep("release")
           /\ IF Reachable THEN Answer /\ UNCHANGED owned
              ELSE /\ owned' = 0
                   /\ IF command.name = "restart" THEN In("restart", "spawn") ELSE Answer
           /\ UNCHANGED <<alive, port, exited, quiesced, spawns, vars>>

Respawn == /\ AtStep("spawn")
           /\ EnsureInner(TRUE)
           /\ UNCHANGED vars

\* The app exits (Drop): quiesce if it answers, then the child is killed; the
\* next launch owns nothing.
Exit == /\ AtStep("idle") /\ owned # 0
        /\ IF alive = owned THEN Dead ELSE UNCHANGED <<alive, exited, port, proc>>
        /\ owned' = 0
        /\ UNCHANGED <<quiesced, command, spawns, disk, backups, chosen, faults>>

\* CommandEvent::Terminated of one child.
TerminatedMutant == /\ \E token \in exited : exited' = exited \ {token}
                    /\ owned' = 0 \* whichever child it was
                    /\ UNCHANGED <<alive, port, quiesced, command, spawns, vars>>

Terminated == /\ \E token \in exited :
                   /\ exited' = exited \ {token}
                   /\ owned' = IF owned = token THEN 0 ELSE owned
              /\ UNCHANGED <<alive, port, quiesced, command, spawns, vars>>

\* Something else takes or frees the port.
Outside == /\ port = External \/ (port = 0 /\ spawns = 1)
           /\ port' = External - port
           /\ UNCHANGED <<owned, alive, exited, quiesced, command, spawns, vars>>

----------------------------------------------------------------------------
(* The sidecar runs the backend.                                           *)

\* uvicorn binds when the lifespan has started; a port in use ends it.
Binds == proc.pc # "serving" /\ proc'.pc = "serving"

\* What a step of the backend does to the port and to the process.
Process ==
    /\ port' = IF Binds /\ port = 0 THEN alive
               ELSE IF proc'.pc = "down" /\ port = alive THEN 0 ELSE port
    /\ IF proc'.pc = "down"
         THEN alive' = 0 /\ exited' = exited \cup {alive}
         ELSE UNCHANGED <<alive, exited>>
    /\ UNCHANGED <<owned, quiesced, command, spawns>>

Starting == /\ alive # 0 /\ Startup /\ Process
            /\ faults' = faults \/ spawns < MaxSpawns \* a start is left to recover
Serving == alive # 0 /\ port = alive /\ ~quiesced /\ Request /\ Process
Failing == alive # 0 /\ spawns < MaxSpawns /\ Failure /\ Process

\* It cannot bind, or cannot read the receipt or the marker.
Refused == /\ alive # 0
           /\ \/ At("serving") /\ port # alive
              \/ At("down") /\ StartPc = "down"
           /\ Dead
           /\ UNCHANGED <<owned, quiesced, command, spawns, disk, backups, chosen, faults>>

SNext == \/ Ensure \/ Waited \/ Quiesce \/ Release \/ Respawn \/ Terminated
         \/ Outside \/ Starting \/ Serving \/ Failing \/ Refused
         \/ spawns < MaxSpawns /\ (Restart \/ StopCommand \/ Terminate \/ Exit)

SSpec == SInit /\ [][SNext]_allVars

\* The page asks for a backend until it has one; commands end; the runtime
\* delivers the exit event; a process that runs takes its steps.
SFairness == /\ WF_allVars(Starting)
             /\ SF_allVars(Ensure /\ alive = 0 /\ port = 0)
             /\ WF_allVars(Waited \/ Quiesce \/ Terminate \/ Release \/ Respawn)
             /\ WF_allVars(Terminated)
             /\ WF_allVars(Outside /\ port = External)
             /\ WF_allVars(Refused)
SFairSpec == SSpec /\ SFairness

----------------------------------------------------------------------------
(* Properties.                                                             *)

\* A sidecar that runs is the one the shell owns: it can be stopped, no other
\* process is, and a second one is never started on the same workspace
\* (start_sidecar, stop_owned_backend, the Terminated handler).
SidecarOwned == alive # 0 => owned = alive

\* stop and restart end a backend only behind a confirmed quiesce: its workers
\* are at a checkpoint and no startup or restore is under way.
StoppedWhenSafe ==
    [][AtStep("terminate") /\ alive' # alive => quiesced /\ At("serving")]_allVars

\* The shell never loses a backend, nor stops one at the wrong moment.
ShellSafe == []SidecarOwned /\ StoppedWhenSafe
=============================================================================
