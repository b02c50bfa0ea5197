-------------------------- MODULE DeploymentProofs --------------------------
(***************************************************************************)
(* Theorems about Lifecycle, for any set of requests, and about Deployment,*)
(* for any sets of requests and of runs of `lzapp db init` and any number  *)
(* of faults.  What the service does is Lifecycle's, whatever the runs do  *)
(* beside it (DeploymentStepIsServiceStep).                                *)
(***************************************************************************)
EXTENDS Deployment, TLAPS

(* What is initialised at this moment, and what is closed. *)
OrderKept ==
    /\ main = "components" =>
          /\ \A i \in 1..step : InitOrder[i] \in open
          /\ worker = "none" /\ http = "none"
    /\ main \in {"dbkv", "service"} => Needed \subseteq open /\ http = "none"
    /\ main = "dbkv" => worker = "none"
    /\ main \in {"close", "exited"} =>
          /\ RoutinesEnded
          /\ step \in 0..Len(CloseOrder)
          /\ \A i \in 1..step : CloseOrder[i] \notin open
    /\ main = "exited" => step = Len(CloseOrder)

(* Why main does not close what a routine uses: it waits for the routine. *)
RoutinesAreWaitedFor ==
    /\ http \notin {"none", "ended"} => main = "wait" /\ Needed \subseteq open
    /\ worker = "running" => main \in {"service", "wait"} /\ Needed \subseteq open

(* Why the service waits for its handlers, unless their connections were   *)
(* closed under them: a shutdown that is done has seen the last of them,   *)
(* and no other one is let in.                                             *)
HandlersAreWaitedFor ==
    (Running # {} /\ ~ forced) =>
        /\ http \in {"serving", "stopped", "await"}
        /\ shutdown # "done"

LifeInv == TypeOK /\ OrderKept /\ RoutinesAreWaitedFor /\ HandlersAreWaitedFor

(* What a run of `lzapp db init` has seen to by the time of each of its    *)
(* statements; nothing of it is ever undone.                               *)
InitInv ==
    /\ run \in [Run -> {"idle", "check", "create database", "open", "has table",
                        "create table", "find", "insert", "close", "done", "failed"}]
    /\ account \in {"none", "initial", "changed"}
    /\ \A p \in Run :
          /\ run[p] \in {"has table", "create table", "find", "insert", "close", "done"}
                => database
          /\ run[p] \in {"find", "insert", "close", "done"} => table
          /\ run[p] \in {"close", "done"} => account # "none"

-----------------------------------------------------------------------------
(* The two orders, element by element. *)
LEMMA Orders ==
    /\ Len(InitOrder) = 10 /\ Len(CloseOrder) = 6
    /\ \A i \in 1..10 : InitOrder[i] \in ToSet(InitOrder)
    /\ Needed \subseteq {InitOrder[i] : i \in 1..10}
    /\ ToSet(InitOrder) \subseteq
          {CloseOrder[i] : i \in 1..6} \cup {"security", "geoip", "routine", "email"}
<1>1. Len(InitOrder) = 10 /\ Len(CloseOrder) = 6
  BY DEF InitOrder, CloseOrder
<1>2. ToSet(InitOrder) = {InitOrder[i] : i \in 1..10}
  BY <1>1 DEF ToSet
<1>3. {InitOrder[i] : i \in 1..10} =
        {"log", "security", "geoip", "lcache", "redis", "db", "routine",
         "statistics", "http", "email"}
  BY DEF InitOrder
<1>4. {CloseOrder[i] : i \in 1..6} =
        {"http", "statistics", "redis", "db", "lcache", "log"}
  BY DEF CloseOrder
<1> QED BY <1>1, <1>2, <1>3, <1>4 DEF Needed

LEMMA LifeInit == Init => LifeInv
<1> SUFFICES ASSUME Init PROVE LifeInv
  OBVIOUS
<1>1. TypeOK
  <2>1. 0 \in 0..Len(InitOrder)
    BY Orders
  <2> QED BY <2>1 DEF Init, TypeOK
<1>2. Running = {}
  BY DEF Init, Running
<1> QED BY <1>1, <1>2
        DEF LifeInv, Init, OrderKept, RoutinesAreWaitedFor, HandlersAreWaitedFor

(* The actions of the main goroutine. *)
LEMMA MainKeepsLifeInv == LifeInv /\ MainStep => LifeInv'
<1> SUFFICES ASSUME LifeInv, MainStep PROVE LifeInv'
  OBVIOUS
<1> USE DEF LifeInv, TypeOK, OrderKept, RoutinesAreWaitedFor, HandlersAreWaitedFor,
            RoutinesEnded
<1>1. CASE InitComponent
  <2>1. step \in 0..9 /\ step' = step + 1
    BY <1>1, Orders DEF InitComponent
  <2>2. step' \in 0..Len(InitOrder) /\ InitOrder[step + 1] \in ToSet(InitOrder)
    BY <2>1, Orders
  <2>3. \A i \in 1..step' : InitOrder[i] \in open'
    BY <1>1, <2>1 DEF InitComponent
  <2>4. TypeOK' /\ OrderKept'
    BY <1>1, <2>2, <2>3 DEF InitComponent
  <2>5. RoutinesAreWaitedFor' /\ HandlersAreWaitedFor'
    BY <1>1 DEF InitComponent, Running
  <2> QED BY <2>4, <2>5
<1>2. CASE InitFails
  BY <1>2 DEF InitFails, Running
<1>3. CASE InitDone
  <2>1. Needed \subseteq open
    BY <1>3, Orders DEF InitDone
  <2> QED BY <1>3, <2>1 DEF InitDone, Running
<1>4. CASE DbkvInit
  BY <1>4 DEF DbkvInit, Running
<1>5. CASE StartService
  BY <1>5 DEF StartService, Running
<1>6. CASE Wait
  BY <1>6, Orders DEF Wait, Running
<1>7. CASE CloseComponent
  <2>1. step \in 0..5 /\ step' = step + 1
    BY <1>7, Orders DEF CloseComponent
  <2>2. step' \in 0..Len(InitOrder) /\ step' \in 0..Len(CloseOrder)
    BY <2>1, Orders
  <2>3. \A i \in 1..step' : CloseOrder[i] \notin open'
    BY <1>7, <2>1 DEF CloseComponent
  <2>4. TypeOK'
    BY <1>7, <2>2 DEF CloseComponent
  <2>5. OrderKept'
    BY <1>7, <2>2, <2>3 DEF CloseComponent
  <2>6. RoutinesAreWaitedFor' /\ HandlersAreWaitedFor'
    BY <1>7 DEF CloseComponent, Running
  <2> QED BY <2>4, <2>5, <2>6
<1>8. CASE Exit
  <2>1. Running' = {}
    BY <1>8 DEF Exit, Running
  <2>2. request' \in [Request -> {"none", "running", "done"}]
    BY <1>8 DEF Exit
  <2> QED BY <1>8, <2>1, <2>2, Orders DEF Exit
<1> QED BY <1>1, <1>2, <1>3, <1>4, <1>5, <1>6, <1>7, <1>8 DEF MainStep

(* The actions of the other goroutines. *)
LEMMA OthersKeepLifeInv ==
    ASSUME LifeInv,
           \/ Signal \/ WorkerEnds \/ ServiceStep \/ ServeReturns \/ ShutdownStep
           \/ \E r \in Request : Accept(r) \/ Finish(r)
    PROVE  LifeInv'
<1> USE DEF LifeInv, TypeOK, OrderKept, RoutinesAreWaitedFor, HandlersAreWaitedFor,
            RoutinesEnded
<1>1. CASE Signal
  BY <1>1 DEF Signal, Running
<1>2. CASE WorkerEnds
  BY <1>2 DEF WorkerEnds, Running
<1>3. CASE Register
  BY <1>3 DEF Register, Running
<1>4. CASE Listen
  BY <1>4 DEF Listen, ShutdownCalled, Running
<1>5. CASE Disarm
  BY <1>5 DEF Disarm, Running
<1>6. CASE AwaitShutdown
  BY <1>6 DEF AwaitShutdown, Running
<1>7. CASE ServiceEnds
  BY <1>7 DEF ServiceEnds, Running
<1>8. CASE ServeReturns
  BY <1>8 DEF ServeReturns, ShutdownCalled, Running
<1>9. CASE BeginShutdown
  BY <1>9 DEF BeginShutdown, Running
<1>10. CASE Drained
  BY <1>10 DEF Drained, Running
<1>11. CASE GraceEnds
  BY <1>11 DEF GraceEnds, Running
<1>12. ASSUME NEW r \in Request, Accept(r) PROVE LifeInv'
  <2>1. request' \in [Request -> {"none", "running", "done"}]
    BY <1>12 DEF Accept
  <2> QED BY <1>12, <2>1 DEF Accept, ShutdownCalled
<1>13. ASSUME NEW r \in Request, Finish(r) PROVE LifeInv'
  <2>1. request' \in [Request -> {"none", "running", "done"}]
    BY <1>13 DEF Finish
  <2>2. Running' \subseteq Running
    BY <1>13 DEF Finish, Running
  <2> QED BY <1>13, <2>1, <2>2 DEF Finish
<1> HIDE DEF LifeInv
<1> QED BY <1>1, <1>2, <1>3, <1>4, <1>5, <1>6, <1>7, <1>8, <1>9, <1>10, <1>11, <1>12, <1>13
        DEF ServiceStep, ShutdownStep

LEMMA LifeNext == LifeInv /\ [Next]_vars => LifeInv'
<1>1. LifeInv /\ UNCHANGED vars => LifeInv'
  BY DEF vars, LifeInv, TypeOK, OrderKept, RoutinesAreWaitedFor, HandlersAreWaitedFor,
         RoutinesEnded, Running
<1> QED BY <1>1, MainKeepsLifeInv, OthersKeepLifeInv DEF Next

LEMMA LifeInvProves == LifeInv => NothingUsedClosed /\ AllClosedAtExit
<1> SUFFICES ASSUME LifeInv PROVE NothingUsedClosed /\ AllClosedAtExit
  OBVIOUS
<1>1. NothingUsedClosed
  BY DEF LifeInv, HandlersAreWaitedFor, RoutinesAreWaitedFor, NothingUsedClosed, Needed
<1>2. ASSUME main = "exited" PROVE open \subseteq {"security", "geoip", "routine", "email"}
  BY <1>2, Orders DEF LifeInv, TypeOK, OrderKept
<1> QED BY <1>1, <1>2 DEF AllClosedAtExit

(* Whatever the runs of `lzapp db init` do, and a handler to the account,  *)
(* the service only does what Lifecycle lets it.                           *)
LEMMA DeploymentStepIsServiceStep == [DeploymentNext]_deployment => [Next]_vars
BY DEF DeploymentNext, deployment, ServiceMain, ServiceOther, ChangePassword, InitStep,
       Next

-----------------------------------------------------------------------------
(* One run goes on while database, table and account only gain. *)
LEMMA RunKeepsInitInv ==
    ASSUME InitInv, NEW p \in Run, NEW pc \in {"check", "create database", "open",
              "has table", "create table", "find", "insert", "close", "done", "failed"},
           Server!GoTo(p, pc),
           database => database', table => table',
           account' \in {"none", "initial", "changed"},
           account # "none" => account' # "none",
           pc \in {"has table", "create table", "find", "insert", "close", "done"}
              => database',
           pc \in {"find", "insert", "close", "done"} => table',
           pc \in {"close", "done"} => account' # "none"
    PROVE  InitInv'
<1>1. \A q \in Run : run'[q] = IF q = p THEN pc ELSE run[q]
  BY DEF InitInv, Server!GoTo
<1>2. run' \in [Run -> {"idle", "check", "create database", "open", "has table",
                        "create table", "find", "insert", "close", "done", "failed"}]
  BY DEF InitInv, Server!GoTo
<1> QED BY <1>1, <1>2 DEF InitInv

LEMMA StepKeepsInitInv ==
    ASSUME InitInv, [DeploymentNext]_deployment
    PROVE  InitInv'
<1>1. CASE UNCHANGED server
  BY <1>1 DEF server, InitInv
<1>2. CASE ChangePassword
  BY <1>2 DEF ChangePassword, InitInv
<1>3. ASSUME NEW p \in Run, Server!RunStep(p) PROVE InitInv'
  <2>1. CASE Server!Start(p)
    BY <2>1, RunKeepsInitInv DEF Server!Start, InitInv
  <2>2. CASE Server!CheckDatabase(p)
    BY <2>2, RunKeepsInitInv DEF Server!CheckDatabase, InitInv
  <2>3. CASE Server!CreateDatabase(p)
    BY <2>3, RunKeepsInitInv DEF Server!CreateDatabase, InitInv
  <2>4. CASE Server!HasTable(p)
    BY <2>4, RunKeepsInitInv DEF Server!HasTable, InitInv
  <2>5. CASE Server!CreateTable(p)
    BY <2>5, RunKeepsInitInv DEF Server!CreateTable, InitInv
  <2>6. CASE Server!First(p)
    BY <2>6, RunKeepsInitInv DEF Server!First, InitInv
  <2>7. CASE Server!Create(p)
    BY <2>7, RunKeepsInitInv DEF Server!Create, InitInv
  <2>8. CASE Server!InitDB(p)
    BY <2>8, RunKeepsInitInv DEF Server!InitDB, InitInv
  <2>9. CASE Server!CloseDB(p)
    BY <2>9, RunKeepsInitInv DEF Server!CloseDB, InitInv
  <2> QED BY <1>3, <2>1, <2>2, <2>3, <2>4, <2>5, <2>6, <2>7, <2>8, <2>9
          DEF Server!RunStep
<1>4. ASSUME NEW p \in Run, Server!Fault(p) PROVE InitInv'
  BY <1>4, RunKeepsInitInv DEF Server!Fault, InitInv
<1> QED BY <1>1, <1>2, <1>3, <1>4
        DEF DeploymentNext, deployment, server, ServiceMain, ServiceOther, InitStep

(* A run makes an account but does not touch one. *)
LEMMA RunKeepsAccount ==
    ASSUME NEW p \in Run, Server!RunStep(p) \/ Server!Fault(p), account # "none"
    PROVE  UNCHANGED account
BY DEF Server!RunStep, Server!Start, Server!CheckDatabase, Server!CreateDatabase,
       Server!InitDB, Server!HasTable, Server!CreateTable, Server!First, Server!Create,
       Server!CloseDB, Server!Fault

-----------------------------------------------------------------------------
(* Every run of the process, by itself and in a deployment: the shutdown   *)
(* goroutine, the service's routine, the dbkv routine and the handlers     *)
(* find open what they use, or their connections were closed under them.   *)
THEOREM GracefulShutdown == Spec => [](TypeOK /\ NothingUsedClosed)
<1>1. LifeInv => TypeOK /\ NothingUsedClosed
  BY LifeInvProves DEF LifeInv
<1> QED BY LifeInit, LifeNext, <1>1, PTL DEF Spec

(* components.Close is called wherever the start has failed or the service *)
(* has ended, and nothing that needs closing is missing from its list.     *)
THEOREM ExitClosesAll == Spec => []AllClosedAtExit
BY LifeInit, LifeNext, LifeInvProves, PTL DEF Spec

(* Beside the runs of `lzapp db init` the service is what it is alone. *)
THEOREM DeploymentImplementsLifecycle ==
    DeploymentSpec => Spec /\ []NothingUsedClosed /\ []AllClosedAtExit
<1>1. DeploymentInit => Init
  BY DEF DeploymentInit
<1>2. DeploymentInit /\ [][DeploymentNext]_deployment => Spec
  BY <1>1, DeploymentStepIsServiceStep, PTL DEF Spec
<1>3. DeploymentSpec => DeploymentInit /\ [][DeploymentNext]_deployment
  BY PTL DEF DeploymentSpec
<1> QED BY <1>2, <1>3, GracefulShutdown, ExitClosesAll, PTL

(* A bootstrap account that is there is changed by handlers only, never by *)
(* a run, however many runs overlap, fail and are started again.           *)
THEOREM RunsKeepTheAccount == DeploymentSpec => InitKeepsAccount
<1>1. [DeploymentNext]_deployment =>
        [account # "none" /\ account' # account
           => account' = "changed" /\ Running # {}]_deployment
  BY RunKeepsAccount
  DEF DeploymentNext, deployment, server, ServiceMain, ServiceOther, ChangePassword,
      InitStep
<1>2. DeploymentSpec => [][DeploymentNext]_deployment
  BY PTL DEF DeploymentSpec
<1> QED BY <1>1, <1>2, PTL DEF InitKeepsAccount

(* The safety half of RerunCompletes: a run that reports success leaves a  *)
(* database with the table and the account, and so it stays.               *)
THEOREM DoneMeansReady ==
    DeploymentSpec => []((\E p \in Run : run[p] = "done") => Server!Ready)
<1>1. DeploymentInit => InitInv
  BY DEF DeploymentInit, Server!Init, InitInv
<1>2. InitInv => ((\E p \in Run : run[p] = "done") => Server!Ready)
  BY DEF InitInv, Server!Ready
<1>3. DeploymentSpec => DeploymentInit /\ [][DeploymentNext]_deployment
  BY PTL DEF DeploymentSpec
<1> QED BY <1>1, <1>2, <1>3, StepKeepsInitInv, PTL
=============================================================================
