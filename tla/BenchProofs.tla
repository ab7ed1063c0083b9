----------------------------- MODULE BenchProofs -----------------------------
(***************************************************************************)
(* Whose answers a benchmark files, for every list of models and any number *)
(* of failures and interrupts.                                              *)
(***************************************************************************)
EXTENDS Bench, TLAPS

(* The part of the loop in which serve.sh has started the model's server. *)
Turn == {"poll", "offload", "eval", "kill"}

(* A server that has not tried the port yet is the one being waited for, or
   was left behind. *)
StartingInv ==
    \A p \in Pids : server[p] = "starting" => p \in late \/ (pc \in Turn /\ p = pid)

(* In a model's turn the pid file names its server, and any other that runs was
   left behind before it had the port: serve.sh refuses a port that answers, and
   nothing else starts one. *)
AloneInv ==
    pc \in Turn =>
        /\ of[pid] = Model
        /\ \A p \in Pids : p # pid => server[p] = "none" \/ p \in late

(* The offload line is of this model: serve.sh empties the log. *)
LineInv ==
    /\ pc \in Turn => line[Model] \in {"none", fits[Model]}
    /\ pc = "eval" => line[Model] = "all"

(* The inductive invariant.  That no other server listens while one is checked
   is not enough, as one still starting could bind afterwards. *)
BenchInv == /\ TypeOK
            /\ StartingInv
            /\ AloneInv
            /\ LineInv

(* The model a loop is at is one of the models. *)
LEMMA ModelNamed ==
    ASSUME pos \in DOMAIN Models
    PROVE  Model \in Names
BY DEF Model, Names

(* The loop's next position is one of the list. *)
LEMMA NextPos ==
    /\ Len(Models) \in Nat /\ DOMAIN Models = 1 .. Len(Models) /\ 1 \in DOMAIN Models
    /\ \A p \in DOMAIN Models : p # Len(Models) => p + 1 \in DOMAIN Models
<1>1. Models \in Seq(Names) /\ Models # << >>
  BY ModelsAssumption
<1> QED BY <1>1

(* The invariant holds before any driver runs. *)
LEMMA BenchInitInv == Init => BenchInv
<1> SUFFICES ASSUME Init PROVE BenchInv
  OBVIOUS
<1>1. TypeOK
  BY NextPos, ModelsAssumption DEF Init, TypeOK
<1>2. StartingInv /\ AloneInv /\ LineInv
  BY DEF Init, StartingInv, AloneInv, LineInv, Turn
<1> QED BY <1>1, <1>2 DEF BenchInv

(* Every step preserves it: the servers' first, then the drivers'. *)
LEMMA BenchNextInv == BenchInv /\ [Next]_benchVars => BenchInv'
<1> SUFFICES ASSUME BenchInv, [Next]_benchVars PROVE BenchInv'
  OBVIOUS
<1>a. Model \in Names /\ pos \in DOMAIN Models
  BY ModelNamed DEF BenchInv, TypeOK
<1>b. pos' = pos => Model' = Model
  BY DEF Model
<1>c. \A p \in Pids : of[p] \in Names
  BY DEF BenchInv, TypeOK
<1> USE <1>a, <1>b, <1>c, ModelsAssumption
    DEF BenchInv, TypeOK, StartingInv, AloneInv, LineInv, Turn, procVars, ghosts
<1>1. ASSUME NEW p \in Pids, Bind(p) PROVE BenchInv'
  BY <1>1 DEF Bind, Becomes
<1>2. ASSUME NEW p \in Pids, LogOffload(p) PROVE BenchInv'
  <2>1. /\ server' = [server EXCEPT ![p] = "logged"]
        /\ pc' = pc /\ pos' = pos /\ pid' = pid /\ of' = of /\ fits' = fits /\ late' = late
    BY <1>2 DEF LogOffload, Becomes
  <2>2. line' \in [Names -> {"none", "part", "all"}]
    BY <1>2 DEF LogOffload
  <2>3. \A x \in Names : line'[x] \in {line[x], fits[x]}
    BY <1>2 DEF LogOffload
  <2>4. TypeOK'
    BY <1>2, <2>1, <2>2 DEF LogOffload, Becomes
  <2>a. server \in [Pids -> {"none", "starting", "loading", "logged", "ready", "stopping"}]
    OBVIOUS
  <2>b. server[p] = "loading"
    BY <1>2 DEF LogOffload
  <2>5. StartingInv' /\ AloneInv'
    BY <1>b, <2>1, <2>a, <2>b
  <2>6. LineInv'
    BY <1>b, <2>1, <2>3
  <2> QED BY <2>4, <2>5, <2>6
<1>3. ASSUME NEW p \in Pids, Loaded(p) PROVE BenchInv'
  BY <1>3 DEF Loaded, Becomes
<1>4. ASSUME NEW p \in Pids, Dies(p) PROVE BenchInv'
  BY <1>4 DEF Dies, Becomes
<1>5. ASSUME NEW d \in Drivers, StartDriver(d) PROVE BenchInv'
  BY <1>5, NextPos DEF StartDriver
<1>6. CASE Serve
  <2>1. CASE Listening # {}
    BY <1>6, <2>1, NextPos DEF Serve, ServeFails, NextModel, EndDriver
  <2>2. CASE Listening = {}
    <3>1. PICK p \in Pids :
            /\ server[p] = "none" /\ server' = [server EXCEPT ![p] = "starting"]
            /\ of' = [of EXCEPT ![p] = Model] /\ pid' = p /\ late' = late \ {p}
      BY <1>6, <2>2 DEF Serve
    <3>2. \A q \in Pids : server[q] = "none" \/ q \in late
      BY <1>6, <2>2 DEF Serve, Listening
    <3> QED BY <1>6, <2>2, <3>1, <3>2 DEF Serve
  <2> QED BY <2>1, <2>2
<1>7. CASE Poll
  BY <1>7, NextPos DEF Poll, ServeFails, NextModel, EndDriver
<1>8. CASE CheckOffload
  BY <1>8, NextPos DEF CheckOffload, LeaveServer, Offloaded, ServeFails, NextModel, EndDriver
<1>9. CASE Evaluate
  BY <1>9 DEF Evaluate
<1>10. CASE KillServer
  BY <1>10, NextPos DEF KillServer, NextModel, EndDriver
<1>11. CASE Interrupt
  BY <1>11 DEF Interrupt, LeaveServer, EndDriver
<1>12. CASE UNCHANGED benchVars
  BY <1>12 DEF benchVars
<1>13. ASSUME NEW p \in Pids, Stops(p) PROVE BenchInv'
  BY <1>13 DEF Stops, Becomes
<1> QED BY <1>1, <1>2, <1>3, <1>4, <1>5, <1>6, <1>7, <1>8, <1>9, <1>10, <1>11, <1>12, <1>13
        DEF Next, ServerStep, StartStep, DriverStep

(* The invariant holds in every reachable state. *)
LEMMA BenchInvariant == Spec => []BenchInv
BY BenchInitInv, BenchNextInv, PTL DEF Spec

(* Type correctness, for every list of models. *)
THEOREM BenchTypeCorrect == Spec => []TypeOK
<1>1. BenchInv => TypeOK
  BY DEF BenchInv
<1> QED BY BenchInvariant, <1>1, PTL

(* Only a server left behind before it had the port answers for another model,
   for every list of models and any number of servers. *)
THEOREM BenchAnswersFromNamedModel == Spec => []AnswersFromNamedModel
<1>1. BenchInv => AnswersFromNamedModel
  BY DEF BenchInv, TypeOK, AloneInv, Turn, AnswersFromNamedModel, Listening
<1> QED BY BenchInvariant, <1>1, PTL

(* A model that is evaluated, and answers, has every layer on the GPU. *)
THEOREM BenchAnswersFromGpu == Spec => []AnswersFromGpu
<1>1. BenchInv => AnswersFromGpu
  BY DEF BenchInv, TypeOK, AloneInv, LineInv, Turn, AnswersFromGpu, Listening
<1> QED BY BenchInvariant, <1>1, PTL

-----------------------------------------------------------------------------
(* Nothing has gone wrong yet: no server died or was slow to end, no request
   failed, no driver was killed, and serve.sh has turned no model away with its
   server still there. *)
Undisturbed == failures = 0 /\ interrupts = 0 /\ left = {}

(* Then servers live for their turn, and only for it, and the loop has
   evaluated the models it has come past. *)
TurnsInv ==
    Undisturbed =>
       /\ late = {} /\ \A p \in Pids : server[p] # "stopping"
       /\ pc \in {"idle", "serve"} => \A p \in Pids : server[p] = "none"
       /\ pc \in Turn => server[pid] # "none"
       /\ pc \in Turn /\ server[pid] = "starting" => line[Model] = "none"
       /\ pc # "idle" => \A n \in 1 .. pos - 1 : Models[n] \in evaluated
       /\ pc = "kill" => Model \in evaluated

(* A driver that ends undisturbed has evaluated every model. *)
EndEvaluatesAll == pc # "idle" /\ pc' = "idle" /\ Undisturbed' => evaluated' = Names

(* Nothing undoes a failure, an interrupt or a server left behind. *)
LEMMA DisturbanceStays ==
    ASSUME BenchInv, [Next]_benchVars, Undisturbed'
    PROVE  Undisturbed
<1> USE DEF Undisturbed, BenchInv, TypeOK
<1>1. ASSUME NEW p \in Pids, Bind(p) \/ LogOffload(p) \/ Loaded(p) \/ Stops(p) \/ Dies(p)
      PROVE  Undisturbed
  BY <1>1 DEF Bind, LogOffload, Loaded, Stops, Dies, Becomes, ghosts
<1>2. CASE StartStep
  BY <1>2 DEF StartStep, StartDriver, ghosts
<1>3. CASE Serve \/ Poll \/ CheckOffload
  BY <1>3 DEF Serve, Poll, CheckOffload, LeaveServer, ghosts
<1>4. CASE Evaluate \/ KillServer
  BY <1>4 DEF Evaluate, KillServer, ghosts
<1>5. CASE Interrupt
  BY <1>5 DEF Interrupt, LeaveServer
<1>6. CASE UNCHANGED benchVars
  BY <1>6 DEF benchVars, ghosts
<1> QED BY <1>1, <1>2, <1>3, <1>4, <1>5, <1>6 DEF Next, ServerStep, DriverStep

(* A model whose turn is over when all before it are evaluated, and it too. *)
LEMMA TurnOver ==
    ASSUME pos \in DOMAIN Models, Model \in evaluated, evaluated \subseteq Names,
           \A n \in 1 .. pos - 1 : Models[n] \in evaluated
    PROVE  /\ \A n \in 1 .. pos : Models[n] \in evaluated
           /\ pos = Len(Models) => evaluated = Names
<1>1. DOMAIN Models = 1 .. Len(Models) /\ Len(Models) \in Nat
  BY NextPos
<1>2. \A n \in 1 .. pos : Models[n] \in evaluated
  BY <1>1 DEF Model
<1> QED BY <1>1, <1>2 DEF Names

(* Undisturbed, no step of serve.sh fails: the port is free when it starts a
   server, the server stays, and its log says that it is on the GPU. *)
LEMMA TurnsNext ==
    ASSUME BenchInv, TurnsInv, [Next]_benchVars, Undisturbed'
    PROVE  TurnsInv' /\ EndEvaluatesAll
<1>1. /\ Undisturbed
      /\ late = {} /\ \A p \in Pids : server[p] # "stopping"
      /\ pc \in {"idle", "serve"} => \A p \in Pids : server[p] = "none"
      /\ pc \in Turn => server[pid] # "none"
      /\ pc \in Turn /\ server[pid] = "starting" => line[Model] = "none"
      /\ pc # "idle" => \A n \in 1 .. pos - 1 : Models[n] \in evaluated
      /\ pc = "kill" => Model \in evaluated
  BY DisturbanceStays DEF TurnsInv
<1>2. /\ Model \in Names /\ pos \in DOMAIN Models /\ DOMAIN Models = 1 .. Len(Models)
      /\ pos' = pos => Model' = Model
      /\ server \in [Pids -> {"none", "starting", "loading", "logged", "ready", "stopping"}]
      /\ pid \in Pids /\ evaluated \subseteq Names /\ Len(Models) \in Nat
  BY ModelNamed, NextPos DEF BenchInv, TypeOK, Model
<1>3. pc \in Turn => \A p \in Pids : p # pid => server[p] = "none"
  BY <1>1 DEF BenchInv, AloneInv
<1> USE DEF Turn, procVars, ghosts
<1>4. ASSUME NEW p \in Pids, Bind(p) PROVE TurnsInv' /\ EndEvaluatesAll
  <2>1. pc \in Turn /\ p = pid /\ server[p] = "starting"
    BY <1>1, <1>4 DEF Bind, BenchInv, StartingInv
  <2>2. Listening = {}
    BY <1>3, <2>1 DEF Listening
  <2>3. /\ server' = [server EXCEPT ![p] = "loading"] /\ line' = line /\ late' = late
        /\ pc' = pc /\ pos' = pos /\ pid' = pid /\ evaluated' = evaluated
    BY <1>4, <2>2 DEF Bind, Becomes
  <2> QED BY <1>1, <1>2, <2>1, <2>3 DEF TurnsInv, EndEvaluatesAll
<1>5. ASSUME NEW p \in Pids, LogOffload(p) \/ Loaded(p) PROVE TurnsInv' /\ EndEvaluatesAll
  <2>1. /\ server[p] # "none" /\ server[p] # "starting" /\ late' = late
        /\ pc' = pc /\ pos' = pos /\ pid' = pid /\ evaluated' = evaluated
        /\ server' \in [Pids -> {"none", "starting", "loading", "logged", "ready", "stopping"}]
        /\ \/ server' = [server EXCEPT ![p] = "logged"]
           \/ server' = [server EXCEPT ![p] = "ready"]
    BY <1>2, <1>5 DEF LogOffload, Loaded, Becomes
  <2>2. \A q \in Pids : q # p => server'[q] = server[q]
    BY <1>2, <2>1
  <2>3. server'[p] \in {"logged", "ready"}
    BY <1>2, <2>1
  <2>4. pc \in Turn => p = pid
    BY <1>3, <2>1
  <2>5. pc \notin {"idle", "serve"}
    BY <1>1, <2>1
  <2>6. pc \in Turn
    BY <2>5 DEF BenchInv, TypeOK
  <2> QED BY <1>1, <1>2, <2>1, <2>2, <2>3, <2>4, <2>6 DEF TurnsInv, EndEvaluatesAll
<1>6. ASSUME NEW p \in Pids, Stops(p) \/ Dies(p) PROVE FALSE
  <2>1. CASE Stops(p)
    BY <1>1, <2>1 DEF Stops
  <2>2. CASE Dies(p)
    BY <1>1, <2>2 DEF Dies, Undisturbed
  <2> QED BY <1>6, <2>1, <2>2
<1>7. ASSUME NEW d \in Drivers, StartDriver(d) PROVE TurnsInv' /\ EndEvaluatesAll
  BY <1>1, <1>2, <1>7 DEF StartDriver, TurnsInv, EndEvaluatesAll
<1>8. CASE Serve
  <2>1. pc = "serve" /\ Listening = {}
    BY <1>1, <1>8 DEF Serve, Listening
  <2>2. PICK p \in Pids :
          /\ server' = [server EXCEPT ![p] = "starting"] /\ pid' = p /\ late' = late \ {p}
    BY <1>8, <2>1 DEF Serve
  <2>3. /\ pc' = "poll" /\ pos' = pos /\ evaluated' = evaluated
        /\ line' = [line EXCEPT ![Model] = "none"] /\ line \in [Names -> {"none", "part", "all"}]
    BY <1>8, <2>1 DEF Serve, BenchInv, TypeOK
  <2> QED BY <1>1, <1>2, <2>1, <2>2, <2>3 DEF TurnsInv, EndEvaluatesAll
<1>9. CASE Poll
  <2>1. /\ pc = "poll" /\ pc' = "offload" /\ pos' = pos /\ pid' = pid
        /\ server' = server /\ line' = line /\ late' = late /\ evaluated' = evaluated
    BY <1>1, <1>9 DEF Poll
  <2> QED BY <1>1, <1>2, <2>1 DEF TurnsInv, EndEvaluatesAll
<1>10. CASE CheckOffload
  <2>1. pc = "offload" /\ server' = server /\ line' = line /\ pid' = pid /\ evaluated' = evaluated
    BY <1>10 DEF CheckOffload
  <2>2. Offloaded
    <3>1. SUFFICES ASSUME ~Offloaded PROVE FALSE
      OBVIOUS
    <3>2. left' = left \cup {Model}
      BY <1>1, <1>10, <2>1, <3>1 DEF CheckOffload, LeaveServer
    <3> QED BY <3>2 DEF Undisturbed
  <2>3. pc' = "eval" /\ pos' = pos /\ late' = late
    BY <1>10, <2>2 DEF CheckOffload
  <2> QED BY <1>1, <1>2, <2>1, <2>3 DEF TurnsInv, EndEvaluatesAll
<1>11. CASE Evaluate
  <2>1. /\ pc = "eval" /\ pc' = "kill" /\ pos' = pos /\ pid' = pid /\ late' = late
        /\ server' = server /\ line' = line /\ evaluated' \in {evaluated, evaluated \cup {Model}}
    BY <1>11 DEF Evaluate
  <2>2. line[Model] = "all"
    BY <2>1 DEF BenchInv, LineInv
  <2>3. server[pid] # "starting"
    BY <1>1, <1>2, <2>1, <2>2 DEF Turn
  <2>4. Listening # {}
    BY <1>1, <1>2, <2>1, <2>3 DEF Listening
  <2>5. evaluated' = evaluated \cup {Model}
    <3>1. failures' # failures + 1
      BY <1>1 DEF Undisturbed
    <3> QED BY <1>11, <2>4, <3>1 DEF Evaluate
  <2> QED BY <1>1, <1>2, <2>1, <2>5 DEF TurnsInv, EndEvaluatesAll
<1>12. CASE KillServer
  <2>1. pc = "kill" /\ server[pid] # "none" /\ Model \in evaluated /\ evaluated' = evaluated /\ late' = late
    BY <1>1, <1>12 DEF KillServer
  <2>2. server' = [server EXCEPT ![pid] = "none"] /\ NextModel
    <3>1. failures' # failures + 1
      BY <1>1 DEF Undisturbed
    <3> QED BY <1>12, <2>1, <3>1 DEF KillServer
  <2>3. \A p \in Pids : server'[p] = "none"
    BY <1>2, <1>3, <2>1, <2>2
  <2>4. /\ \A n \in 1 .. pos : Models[n] \in evaluated
        /\ pos = Len(Models) => evaluated = Names
    BY <1>1, <1>2, <2>1, TurnOver
  <2>5. CASE pos = Len(Models)
    <3>1. pc' = "idle"
      BY <2>2, <2>5 DEF NextModel, EndDriver
    <3> QED BY <1>1, <2>1, <2>3, <2>4, <2>5, <3>1 DEF TurnsInv, EndEvaluatesAll
  <2>6. CASE pos # Len(Models)
    <3>1. pc' = "serve" /\ pos' = pos + 1
      BY <2>2, <2>6 DEF NextModel
    <3>2. \A n \in 1 .. pos' - 1 : Models[n] \in evaluated'
      BY <1>2, <2>1, <2>4, <3>1
    <3> QED BY <1>1, <2>1, <2>3, <3>1, <3>2 DEF TurnsInv, EndEvaluatesAll
  <2> QED BY <2>5, <2>6
<1>13. CASE Interrupt
  <2>1. interrupts' = interrupts + 1
    BY <1>13 DEF Interrupt
  <2> QED BY <1>1, <2>1 DEF Undisturbed
<1>14. CASE UNCHANGED benchVars
  BY <1>1, <1>2, <1>14 DEF benchVars, TurnsInv, EndEvaluatesAll
<1> QED BY <1>4, <1>5, <1>6, <1>7, <1>8, <1>9, <1>10, <1>11, <1>12, <1>13, <1>14
        DEF Next, ServerStep, StartStep, DriverStep

(* One run of a driver (the for loops of run_v2.sh, run_all.sh, run_nothink.sh)
   evaluates every model of its list when nothing has gone wrong up to its end:
   it never finds the port taken, no turn is cut short, and serve.sh gives up on
   no server that is still there. *)
THEOREM BenchEndEvaluatesAll == Spec => [][EndEvaluatesAll]_benchVars
<1>1. Init => TurnsInv
  BY DEF Init, TurnsInv, Turn
<1>2. BenchInv /\ TurnsInv /\ [Next]_benchVars => TurnsInv'
  <2>1. ~Undisturbed' => TurnsInv'
    BY DEF TurnsInv
  <2> QED BY <2>1, TurnsNext
<1>3. BenchInv /\ TurnsInv /\ [Next]_benchVars => [EndEvaluatesAll]_benchVars
  <2>1. ~Undisturbed' => EndEvaluatesAll
    BY DEF EndEvaluatesAll
  <2> QED BY <2>1, TurnsNext
<1> QED BY <1>1, <1>2, <1>3, BenchInvariant, PTL DEF Spec
=============================================================================
