----------------------------- MODULE Deployment -----------------------------
(***************************************************************************)
(* The service of Lifecycle beside runs of `lzapp db init`, both on one    *)
(* database server.  The service opens a database that exists and does not *)
(* make one; its handlers change the bootstrap account.                    *)
(***************************************************************************)
EXTENDS Lifecycle

CONSTANTS Run, MaxFaults

VARIABLES database, table, account, run, faults

Server == INSTANCE DbInit

server == <<database, table, account, run, faults>>
deployment == <<vars, server>>

DeploymentInit == Init /\ Server!Init

(* InitDB connects to the database by its name, and pings it. *)
OpensDatabase == "db" \in open' \ open

ServiceMain ==
    /\ MainStep
    /\ OpensDatabase => database
    /\ UNCHANGED server

(* The other goroutines of the service. *)
ServiceOther ==
    /\ main # "exited"
    /\ \/ Signal
       \/ WorkerEnds
       \/ ServiceStep
       \/ ServeReturns
       \/ ShutdownStep
       \/ \E r \in Request : Accept(r) \/ Finish(r)
    /\ UNCHANGED server

(* UpdateHandler or ResetPasswordHandler: someone has logged in with the   *)
(* initial password and changes it.                                        *)
ChangePassword ==
    /\ Running # {} /\ "db" \in open
    /\ account # "none"
    /\ account' = "changed"
    /\ UNCHANGED <<vars, database, table, run, faults>>

InitStep(p) == Server!RunStep(p) /\ UNCHANGED vars

DeploymentNext ==
    \/ main # "exited" /\ ServiceMain
    \/ ServiceOther
    \/ ChangePassword
    \/ \E p \in Run : InitStep(p) \/ (Server!Fault(p) /\ UNCHANGED vars)

(* As in Lifecycle; an operator goes on with a run, and starts it again    *)
(* when it has failed.                                                     *)
DeploymentSpec ==
    /\ DeploymentInit /\ [][DeploymentNext]_deployment
    /\ WF_deployment(ServiceMain)
    /\ WF_deployment(WorkerEnds /\ UNCHANGED server)
    /\ WF_deployment(ServiceStep /\ UNCHANGED server)
    /\ WF_deployment(ShutdownCalled /\ ServeReturns /\ UNCHANGED server)
    /\ WF_deployment(ShutdownStep /\ UNCHANGED server)
    /\ \A p \in Run : WF_deployment(InitStep(p))

-----------------------------------------------------------------------------
(* "It does not migrate an existing users table or reset an existing       *)
(* bootstrap account's password" (README.md:82-84): once the account is    *)
(* there only a handler changes it, however runs overlap, fail and are     *)
(* repeated while the service is up.                                       *)
InitKeepsAccount ==
    [][account # "none" /\ account' # account
         => account' = "changed" /\ Running # {}]_deployment

(* A run that fails half way, or loses a race with another one, can be     *)
(* repeated until it ends, and what it ends with is a database that has    *)
(* the table and the account.                                              *)
RerunCompletes ==
    \A p \in Run : run[p] # "idle" ~> (run[p] = "done" /\ Server!Ready)
=============================================================================
