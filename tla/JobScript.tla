------------------------------ MODULE JobScript ------------------------------
(***************************************************************************)
(* ApptainerCmdBuilder: the shell script of a pod.  It chooses the images,  *)
(* sets a trap, prepares the volumes, runs the init containers one by one   *)
(* and the containers side by side, collects logs and return codes in a tar *)
(* file, and cleans up.  process_logs reads the tar file.                   *)
(*                                                                         *)
(* bash runs a trap between two commands, and at once in wait, which then   *)
(* returns; the trap does not exit, so that the script goes on behind it.   *)
(***************************************************************************)
EXTENDS ImageCache, Sequences

CONSTANTS
    Names,        \* container names
    Inits,        \* the init containers of each job, a sequence
    Mains,        \* its containers, a sequence
    NoCode        \* no return code file, error_code_for_return_code_not_found

Codes == {"ok", "error", "term"}
Order(j) == Inits[j] \o Mains[j]
Containers(j) == {Order(j)[i] : i \in DOMAIN Order(j)}

ASSUME ScriptAssumption ==
    \A j \in Jobs :
        /\ Inits[j] \in Seq(Names) /\ Mains[j] \in Seq(Names)
        /\ Mains[j] # <<>>
        /\ \A a, b \in DOMAIN Order(j) : Order(j)[a] = Order(j)[b] => a = b

VARIABLES
    at,           \* where the script is
    next,         \* the container its section has come to
    image,        \* IMAGE_<uid>
    process,      \* the containers as processes: their state or exit code
    code,         \* the return code files
    volumes,      \* volumes on the host
    signal,       \* SIGTERM: "no", "pending" until the trap ran, "handled"
    tar           \* the return codes in $SANDBOX/logs

scriptVars == <<at, next, image, process, code, volumes, signal, tar>>
vars == <<cacheVars, scriptVars>>

Sections == {"images", "volumes", "init", "launch", "wait", "logs", "exit", "done", "killed"}

JobTypeOK ==
    /\ CacheTypeOK
    /\ at \in [Jobs -> Sections]
    /\ \A j \in Jobs : next[j] \in DOMAIN Order(j)
    /\ \A j \in Jobs :
        /\ image[j] \in [Containers(j) -> Images]
        /\ process[j] \in [Containers(j) -> Codes \cup {"no", "running"}]
        /\ code[j] \in [Containers(j) -> Codes \cup {NoCode}]
        /\ tar[j] \in [Containers(j) -> Codes \cup {NoCode}]
    /\ volumes \in [Jobs -> {"no", "ready", "cleaned"}]
    /\ signal \in [Jobs -> {"no", "pending", "handled"}]

All(j, value) == [c \in Containers(j) |-> value]

JobInit ==
    /\ CacheInit
    /\ at = [j \in Jobs |-> "images"] /\ next = [j \in Jobs |-> 1]
    /\ image = [j \in Jobs |-> All(j, "none")]
    /\ process = [j \in Jobs |-> All(j, "no")]
    /\ code = [j \in Jobs |-> All(j, NoCode)]
    /\ volumes = [j \in Jobs |-> "no"]
    /\ signal = [j \in Jobs |-> "no"]
    /\ tar = [j \in Jobs |-> All(j, NoCode)]

------------------------------------------------------------------------------
(* The script *)

Goto(j, section) == at' = [at EXCEPT ![j] = section] /\ next' = [next EXCEPT ![j] = 1]

AdvancePast(j, list, section) ==
    IF next[j] > Len(list) THEN Goto(j, section)
    ELSE at' = at /\ next' = [next EXCEPT ![j] = @ + 1]

\* After the container of this section that is at its turn, the next one, or the
\* next section.
Advance(j, list, section) ==
    IF next[j] = Len(list) THEN Goto(j, section)
    ELSE at' = at /\ next' = [next EXCEPT ![j] = @ + 1]

\* A command of the script itself runs only when no trap is due.
InSection(j, section) == at[j] = section /\ signal[j] # "pending"

\* build_environment_files: the image of each container.
FindImage(j) ==
    /\ at[j] = "images" /\ SelectStep(j)
    /\ UNCHANGED scriptVars

ImageFound(j) ==
    /\ at[j] = "images" /\ select[j].at = "chosen"
    /\ image' = [image EXCEPT ![j][Order(j)[next[j]]] = select[j].image]
    /\ select' = [select EXCEPT ![j] = Begin]
    /\ Advance(j, Order(j), "volumes")
    /\ UNCHANGED <<remote, cached, process, code, volumes, signal, tar>>

\* volume.initialize and finalize of every volume of the job.
Initialize(j) == volumes' = [volumes EXCEPT ![j] = "ready"]
Cleanup(j) == volumes' = [volumes EXCEPT ![j] = "cleaned"]

\* The trap is set, then build_volume_files.
PrepareVolumes(j) ==
    /\ InSection(j, "volumes")
    /\ Initialize(j)
    /\ Goto(j, IF Inits[j] = <<>> THEN "launch" ELSE "init")
    /\ UNCHANGED <<cacheVars, image, process, code, signal, tar>>

\* Nothing reads IMAGE_<uid> after the container has started.
Run(j, c) ==
    /\ process' = [process EXCEPT ![j][c] = IF Opens(image[j][c]) THEN "running" ELSE "error"]
    /\ image' = [image EXCEPT ![j][c] = "none"]

\* exec_init_containers: in the foreground, whatever the one before returned.
RunInit(j) ==
    LET c == Inits[j][next[j]]
    IN  /\ InSection(j, "init") /\ process[j][c] = "no"
        /\ Run(j, c)
        /\ UNCHANGED <<cacheVars, at, next, code, volumes, signal, tar>>

InitSucceeds(j) ==
    LET c == Inits[j][next[j]]
    IN  /\ InSection(j, "init") /\ process[j][c] = "ok"
        /\ code' = [code EXCEPT ![j][c] = "ok"]
        /\ Advance(j, Inits[j], "launch")
        /\ UNCHANGED <<cacheVars, image, process, volumes, signal, tar>>

InitReturns(j) ==
    LET c == Inits[j][next[j]]
    IN  /\ InSection(j, "init") /\ process[j][c] \in Codes
        /\ code' = [code EXCEPT ![j][c] = process[j][c]]
        /\ Advance(j, Inits[j], "launch")
        /\ UNCHANGED <<cacheVars, image, process, volumes, signal, tar>>

\* exec_containers, in the background.
Launch(j) ==
    /\ InSection(j, "launch")
    /\ Run(j, Mains[j][next[j]])
    /\ Advance(j, Mains[j], "wait")
    /\ UNCHANGED <<cacheVars, code, volumes, signal, tar>>

WaitNone(j) ==
    /\ InSection(j, "wait")
    /\ code' = [code EXCEPT ![j][Mains[j][next[j]]] = "ok"]
    /\ Advance(j, Mains[j], "logs")
    /\ UNCHANGED <<cacheVars, image, process, volumes, signal, tar>>

WaitLast(j) ==
    LET c == Mains[j][next[j]]
    IN  /\ InSection(j, "wait") /\ process[j][Mains[j][Len(Mains[j])]] \in Codes
        /\ code' = [code EXCEPT ![j][c] = process[j][Mains[j][Len(Mains[j])]]]
        /\ Advance(j, Mains[j], "logs")
        /\ UNCHANGED <<cacheVars, image, process, volumes, signal, tar>>

\* wait ${pids[i]}; echo -n $?
Wait(j) ==
    LET c == Mains[j][next[j]]
    IN  /\ InSection(j, "wait") /\ process[j][c] \in Codes
        /\ code' = [code EXCEPT ![j][c] = process[j][c]]
        /\ Advance(j, Mains[j], "logs")
        /\ UNCHANGED <<cacheVars, image, process, volumes, signal, tar>>

Tar(j) ==
    /\ InSection(j, "logs")
    /\ tar' = [tar EXCEPT ![j] = code[j]]
    /\ Goto(j, "exit")
    /\ UNCHANGED <<cacheVars, image, process, code, volumes, signal>>

\* The trap at EXIT: cleanup once more, if SIGTERM had it run before.
Exit(j) ==
    /\ InSection(j, "exit")
    /\ Cleanup(j)
    /\ Goto(j, "done")
    /\ UNCHANGED <<cacheVars, image, process, code, signal, tar>>

------------------------------------------------------------------------------
(* The node *)

ContainerEnds(j, c) ==
    /\ process[j][c] = "running"
    /\ \E exit \in {"ok", "error"} : process' = [process EXCEPT ![j][c] = exit]
    /\ UNCHANGED <<cacheVars, at, next, image, code, volumes, signal, tar>>

\* SIGTERM (the job is cancelled, or its time is over).  Before there is a trap it
\* ends the script, as Kill.
Term(j) ==
    /\ at[j] \notin {"done", "killed"} /\ signal[j] = "no"
    /\ at[j] # "images"
    /\ signal' = [signal EXCEPT ![j] = "pending"]
    /\ UNCHANGED <<cacheVars, at, next, image, process, code, volumes, tar>>

\* An init container runs in the foreground: the trap waits for it.
TrapBetween(j) ==
    /\ signal[j] = "pending" /\ at[j] # "killed" /\ at[j] # "wait"
    /\ at[j] = "init" => process[j][Inits[j][next[j]]] # "running"
    /\ Cleanup(j)
    /\ signal' = [signal EXCEPT ![j] = "handled"]
    /\ UNCHANGED <<cacheVars, at, next, image, process, code, tar>>

\* wait returns 143 for a container that is still running.
TrapInWait(j) ==
    LET c == Mains[j][next[j]]
    IN  /\ signal[j] = "pending" /\ at[j] = "wait"
        /\ Cleanup(j)
        /\ signal' = [signal EXCEPT ![j] = "handled"]
        /\ code' = [code EXCEPT ![j][c] = IF process[j][c] = "running" THEN "term" ELSE process[j][c]]
        /\ Advance(j, Mains[j], "logs")
        /\ UNCHANGED <<cacheVars, image, process, tar>>

\* SIGKILL takes the script and its containers; nobody reads what they leave.
Kill(j) ==
    /\ at[j] \notin {"done", "killed"}
    /\ Goto(j, "killed")
    /\ process' = [process EXCEPT ![j] = All(j, "no")]
    /\ image' = [image EXCEPT ![j] = All(j, "none")]
    /\ code' = [code EXCEPT ![j] = All(j, NoCode)]
    /\ UNCHANGED <<cacheVars, volumes, signal, tar>>

ScriptStep(j) ==
    \/ FindImage(j) \/ ImageFound(j) \/ PrepareVolumes(j)
    \/ RunInit(j) \/ InitReturns(j) \/ Launch(j) \/ Wait(j) \/ Tar(j) \/ Exit(j)
    \/ TrapBetween(j) \/ TrapInWait(j)

Ends(j) == \E c \in Containers(j) : ContainerEnds(j, c)

JobNext ==
    \/ \E j \in Jobs : ScriptStep(j) \/ Ends(j) \/ Term(j) \/ Kill(j)
    \/ RemoteChanges /\ UNCHANGED scriptVars

JobSpec == JobInit /\ [][JobNext]_vars

\* The node runs every script, and containers end.
FairJobSpec == JobSpec /\ \A j \in Jobs : WF_vars(ScriptStep(j)) /\ WF_vars(Ends(j))

------------------------------------------------------------------------------
(* Properties *)

Running(j) == {c \in Containers(j) : process[j][c] = "running"}

\* cleanup is registered for "job termination": unless SIGTERM comes, no container
\* runs before the volumes are prepared or after they were cleaned up.
VolumesOutliveContainers ==
    \A j \in Jobs : Running(j) # {} /\ signal[j] # "handled" => volumes[j] = "ready"

\* A script that came to its end has cleaned up and told the return code of every
\* container: the one it exited with, or 143 where SIGTERM interrupted the wait.
CodesAreTheirs ==
    \A j \in Jobs : at[j] = "done" =>
        /\ volumes[j] = "cleaned"
        /\ \A c \in Containers(j) :
            \/ tar[j][c] \in Codes /\ tar[j][c] = process[j][c]
            \/ tar[j][c] = "term" /\ signal[j] = "handled"

\* Unless a script dies between its two renames, an image that was cached once is
\* there again and again, even if the proxy fails from then on.
ImageComesBack ==
    (\A j \in Jobs : []~(at[j] = "killed" /\ select[j].at = "replace")) =>
        [](cached # NoImage => []<>(cached # NoImage))

\* Whatever other scripts do to the cache and whatever signals come, a script ends.
ScriptsEnd == \A j \in Jobs : <>(at[j] \in {"done", "killed"})
==============================================================================
