------------------------------- MODULE Bench -------------------------------
(***************************************************************************)
(* The benchmark drivers of src/llm-eval/harness: serve.sh, which starts a  *)
(* llama-server for one model and checks that it is on the GPU, and the     *)
(* scripts that serve the models one after the other and evaluate each      *)
(* (run_v2.sh, and run_all.sh and run_nothink.sh, which are alike).         *)
(*                                                                          *)
(* llama-server is external: it takes the port, loads the model, logs how   *)
(* many layers are on the GPU, and answers "ok" once loaded.  A server that *)
(* was sent a signal may still hold the port after the sleep 5, and one     *)
(* whose driver is gone may live on, also when it has not the port yet.     *)
(***************************************************************************)
EXTENDS Naturals, Sequences

CONSTANTS
    Models,        \* the models of the for loop, in order
    Drivers,       \* the scripts the user runs: "run_v2", "run_all" or both
    Fits,          \* what the log may say of a model: all layers, a part, or nothing
    Pids,          \* process ids; bound: servers alive at once
    MaxFailures,   \* bound: servers that die or are slow to end, and requests that time out
    MaxInterrupts  \* bound: times a driver is killed

Names == { Models[n] : n \in DOMAIN Models }

ASSUME ModelsAssumption ==
    /\ Models \in Seq(Names) /\ Models # << >>
    /\ \A m, n \in DOMAIN Models : Models[m] = Models[n] => m = n
    /\ Drivers \subseteq {"run_v2", "run_all"} /\ Fits \subseteq {"all", "part", "none"}
    /\ Pids # {} /\ MaxFailures \in Nat /\ MaxInterrupts \in Nat

VARIABLES
    driver,      \* the script that runs, "none" between runs
    pos,         \* the model its loop is at
    pc,          \* the next command of the driver, or of serve.sh
    pid,         \* the server started last, as its log's pid file has it
    server,      \* process -> none, starting, loading, logged, ready or stopping
    of,          \* process -> the model it serves
    line,        \* model -> the offload line in its log
    fits,        \* model -> what its log will say
    failures, interrupts,
    evaluated,   \* ghost: the models whose evaluation came to its end, under any driver
    left,        \* ghost: models with a server that outlived a failed serve.sh or its driver
    late         \* ghost: the processes that did so before they had the port

procVars  == << pid, server, of, line >>
ghosts    == << evaluated, left, late >>
benchVars == << driver, pos, pc, procVars, fits, failures, interrupts, ghosts >>

Init ==
    /\ driver = "none" /\ pos = 1 /\ pc = "idle"
    /\ pid = (CHOOSE p \in Pids : TRUE) /\ server = [p \in Pids |-> "none"] /\ of = [p \in Pids |-> Models[1]]
    /\ line = [m \in Names |-> "none"] /\ fits \in [Names -> Fits]
    /\ failures = 0 /\ interrupts = 0 /\ evaluated = {} /\ left = {} /\ late = {}

Model     == Models[pos]
Listening == { p \in Pids : server[p] \in {"loading", "logged", "ready", "stopping"} }

-----------------------------------------------------------------------------
(* llama-server                                                             *)

Becomes(p, state) ==
    /\ server' = [server EXCEPT ![p] = state]
    /\ UNCHANGED << driver, pos, pc, pid, of, fits, interrupts, ghosts >>

Bind(p) ==
    /\ server[p] = "starting"
    /\ Becomes(p, IF Listening = {} THEN "loading" ELSE "none")
    /\ UNCHANGED << line, failures >>

(* The line of a server left behind may miss the log, which serve.sh empties
   for the next server of that model. *)
LogOffload(p) ==
    /\ server[p] = "loading"
    /\ \/ line' = [line EXCEPT ![of[p]] = fits[of[p]]]
       \/ p # pid /\ UNCHANGED line
    /\ Becomes(p, "logged")
    /\ UNCHANGED failures

Loaded(p) ==
    /\ server[p] = "logged"
    /\ Becomes(p, "ready")
    /\ UNCHANGED << line, failures >>

Dies(p) ==
    /\ server[p] \notin {"none", "stopping"} /\ failures < MaxFailures
    /\ failures' = failures + 1
    /\ Becomes(p, "none")
    /\ UNCHANGED line

Stops(p) ==
    /\ server[p] = "stopping"
    /\ Becomes(p, "none")
    /\ UNCHANGED << line, failures >>

-----------------------------------------------------------------------------
(* The drivers                                                              *)

StartDriver(d) ==
    /\ pc = "idle"
    /\ driver' = d /\ pos' = 1 /\ pc' = "serve"
    /\ UNCHANGED << procVars, fits, failures, interrupts, ghosts >>

EndDriver == driver' = "none" /\ pc' = "idle" /\ UNCHANGED pos

NextModel ==
    IF pos = Len(Models) THEN EndDriver
    ELSE pos' = pos + 1 /\ pc' = "serve" /\ UNCHANGED driver

(* A driver that does not look at serve.sh's exit code. *)
ServeFailsUnseen == pc' = "eval" /\ UNCHANGED << driver, pos >>

(* serve.sh exits non-zero: run_v2.sh goes on with the next model, set -e ends
   the other two. *)
ServeFails == IF driver = "run_v2" THEN NextModel ELSE EndDriver

(* serve.sh: refuse when the port answers, else start the server. *)
Serve ==
    /\ pc = "serve"
    /\ \/ /\ Listening # {}
          /\ ServeFails
          /\ UNCHANGED << procVars, late >>
       \/ /\ Listening = {}
          /\ \E p \in Pids :
                /\ server[p] = "none"
                /\ server' = [server EXCEPT ![p] = "starting"]
                /\ of' = [of EXCEPT ![p] = Model]
                /\ pid' = p /\ late' = late \ {p}
          /\ line' = [line EXCEPT ![Model] = "none"]
          /\ pc' = "poll" /\ UNCHANGED << driver, pos >>
    /\ UNCHANGED << fits, failures, interrupts, evaluated, left >>

(* The health loop: it ends when the port answers "ok", whoever answers, or after
   180 tries, and serve.sh gives up when its own server is gone. *)
Poll ==
    /\ pc = "poll"
    /\ \/ /\ \/ \E p \in Pids : server[p] = "ready"
             \/ server[pid] \in {"starting", "loading", "logged"}
          /\ pc' = "offload" /\ UNCHANGED << driver, pos >>
       \/ server[pid] = "none" /\ ServeFails
    /\ UNCHANGED << procVars, fits, failures, interrupts, ghosts >>

(* The turn ends and the process stays. *)
LeaveServer ==
    /\ left' = left \cup {Model}
    /\ late' = IF server[pid] = "starting" THEN late \cup {pid} ELSE late

(* Any offload line will do. *)
OffloadedInPart == line[Model] # "none"

(* The last check of serve.sh: exit 3 without the line, exit 4 for a spill. *)
Offloaded == line[Model] = "all"

CheckOffload ==
    /\ pc = "offload"
    /\ IF Offloaded
       THEN pc' = "eval" /\ UNCHANGED << driver, pos, left, late >>
       ELSE /\ ServeFails
            /\ IF server[pid] # "none" THEN LeaveServer ELSE UNCHANGED << left, late >>
    /\ UNCHANGED << procVars, fits, failures, interrupts, evaluated >>

(* run_eval.py comes to the end of the items, or stops on a failed request. *)
Evaluate ==
    /\ pc = "eval"
    /\ \/ Listening # {} /\ evaluated' = evaluated \cup {Model} /\ UNCHANGED failures
       \/ Listening = {} /\ UNCHANGED << evaluated, failures >>
       \/ /\ Listening # {} /\ failures < MaxFailures
          /\ failures' = failures + 1 /\ UNCHANGED evaluated
    /\ pc' = "kill"
    /\ UNCHANGED << driver, pos, procVars, fits, interrupts, left, late >>

(* Only the pid file is removed. *)
KillServerForgotten ==
    /\ pc = "kill"
    /\ NextModel
    /\ UNCHANGED << procVars, fits, failures, interrupts, ghosts >>

(* kill, rm, sleep 5, after which the server may not have ended yet; when it is
   gone already the kill fails, which ends the drivers that run under set -e. *)
KillServer ==
    /\ pc = "kill"
    /\ \/ server' = [server EXCEPT ![pid] = "none"] /\ UNCHANGED failures
       \/ /\ pid \in Listening /\ failures < MaxFailures
          /\ failures' = failures + 1
          /\ server' = [server EXCEPT ![pid] = "stopping"]
    /\ IF server[pid] = "none" /\ driver # "run_v2" THEN EndDriver ELSE NextModel
    /\ UNCHANGED << pid, of, line, fits, interrupts, ghosts >>

(* The driver is killed, and the server it started may or may not go with it. *)
Interrupt ==
    /\ pc # "idle" /\ interrupts < MaxInterrupts
    /\ interrupts' = interrupts + 1
    /\ EndDriver
    /\ \/ pc = "serve" /\ UNCHANGED << server, left, late >>
       \/ /\ pc # "serve"
          /\ server' = [server EXCEPT ![pid] = "none"] /\ UNCHANGED << left, late >>
       \/ /\ pc # "serve" /\ server[pid] # "none"
          /\ LeaveServer /\ UNCHANGED server
    /\ UNCHANGED << pid, of, line, fits, failures, evaluated >>

ServerStep == \E p \in Pids : Bind(p) \/ LogOffload(p) \/ Loaded(p) \/ Stops(p)
DriverStep == Serve \/ Poll \/ CheckOffload \/ Evaluate \/ KillServer
StartStep  == \E d \in Drivers : StartDriver(d)

Next == ServerStep \/ (\E p \in Pids : Dies(p)) \/ StartStep \/ DriverStep \/ Interrupt

Spec == Init /\ [][Next]_benchVars

(* Servers and scripts go on, and the drivers are run again. *)
FairSpec == /\ Spec /\ WF_benchVars(StartStep) /\ WF_benchVars(DriverStep)
            /\ \A p \in Pids : WF_benchVars(Bind(p) \/ LogOffload(p) \/ Loaded(p) \/ Stops(p))

-----------------------------------------------------------------------------

(* Type correctness. *)
TypeOK ==
    /\ driver \in Drivers \cup {"none"} /\ pos \in DOMAIN Models
    /\ pc \in {"idle", "serve", "poll", "offload", "eval", "kill"}
    /\ pid \in Pids /\ of \in [Pids -> Names]
    /\ server \in [Pids -> {"none", "starting", "loading", "logged", "ready", "stopping"}]
    /\ line \in [Names -> {"none", "part", "all"}] /\ fits \in [Names -> Fits]
    /\ failures \in 0 .. MaxFailures /\ interrupts \in 0 .. MaxInterrupts
    /\ evaluated \subseteq Names /\ left \subseteq Names /\ late \subseteq Pids

(* Answers are filed under another model's name only when they come from a
   server that outlived its turn before it had the port: one that had it makes
   every later serve.sh refuse to start, for as long as it lives. *)
AnswersFromNamedModel ==
    pc = "eval" => \A p \in Listening : of[p] = Model \/ p \in late

(* And the model named has every layer on the GPU whichever of its servers
   answers, or its times would not compare (llm-eval/README.md: serve.sh "exits
   non-zero unless the log shows every layer offloaded"). *)
AnswersFromGpu ==
    pc = "eval" => \A p \in Listening : fits[of[p]] = "all" \/ (of[p] # Model /\ p \in late)

(* Repeated runs evaluate every model, unless a server was left behind by a
   failed serve.sh or a killed driver: a driver's own failures, and servers
   that die or are slow to end, cost no more than a rerun. *)
EvaluatedOrLeftBehind == <>(evaluated = Names) \/ <>(left # {})

(* run_v2.sh: "Rerunning resumes each run where it stopped". *)
RerunResumes == \A m \in Names : fits[m] = "all" => <>(m \in evaluated)
=============================================================================
