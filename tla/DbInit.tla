------------------------------- MODULE DbInit -------------------------------
(***************************************************************************)
(* `lzapp db init`: db.Run of app/db/bootstrap.go with what it calls in    *)
(* components/gormdb/database.go and app/users/user.go.  Each run goes     *)
(* through a sequence of statements; several runs may overlap, and a run   *)
(* that has failed or was killed is started again.  What a run leaves      *)
(* behind is in the database server only.                                  *)
(***************************************************************************)
EXTENDS Naturals

CONSTANTS Run,        \* the operators who initialise the database
          MaxFaults   \* bounds the failures that no other run has caused

VARIABLES database,  \* whether the database exists
          table,     \* whether the users table exists
          account,   \* the bootstrap account: as InitData makes it, or changed since
          run,       \* the statement every run comes to next
          faults     \* the failures so far

vars == <<database, table, account, run, faults>>

Init ==
    /\ database = FALSE
    /\ table = FALSE
    /\ account = "none"
    /\ run = [p \in Run |-> "idle"]
    /\ faults = 0

GoTo(p, pc) == run' = [run EXCEPT ![p] = pc]

(* The configuration is read and the security component initialised.       *)
Start(p) ==
    /\ run[p] \in {"idle", "failed"}
    /\ GoTo(p, "check")
    /\ UNCHANGED <<database, table, account, faults>>

CheckDatabase(p) ==
    /\ run[p] = "check"
    /\ GoTo(p, IF database THEN "open" ELSE "create database")
    /\ UNCHANGED <<database, table, account, faults>>

(* CREATE DATABASE IF NOT EXISTS: it does not matter who is first. *)
CreateDatabase(p) ==
    /\ run[p] = "create database"
    /\ database' = TRUE
    /\ GoTo(p, "open")
    /\ UNCHANGED <<table, account, faults>>

InitDB(p) ==
    /\ run[p] = "open"
    /\ database
    /\ GoTo(p, "has table")
    /\ UNCHANGED <<database, table, account, faults>>

(* Mutant: where there is a table the data is taken to be there. *)
HasTableHasData(p) ==
    /\ run[p] = "has table"
    /\ GoTo(p, IF table THEN "close" ELSE "create table")
    /\ UNCHANGED <<database, table, account, faults>>

HasTable(p) ==
    /\ run[p] = "has table"
    /\ GoTo(p, IF table THEN "find" ELSE "create table")
    /\ UNCHANGED <<database, table, account, faults>>

(* CREATE TABLE fails when another run has been faster. *)
CreateTable(p) ==
    /\ run[p] = "create table"
    /\ table' = TRUE
    /\ GoTo(p, IF table THEN "failed" ELSE "find")
    /\ UNCHANGED <<database, account, faults>>

(* Mutant: the account that is found is given the initial values. *)
FirstAssigns(p) ==
    /\ run[p] = "find"
    /\ GoTo(p, IF account = "none" THEN "insert" ELSE "close")
    /\ account' = IF account = "none" THEN "none" ELSE "initial"
    /\ UNCHANGED <<database, table, faults>>

(* The first half of FirstOrCreate. *)
First(p) ==
    /\ run[p] = "find"
    /\ GoTo(p, IF account = "none" THEN "insert" ELSE "close")
    /\ UNCHANGED <<database, table, account, faults>>

(* The second half; the unique index of the emails decides. *)
Create(p) ==
    /\ run[p] = "insert"
    /\ IF account = "none" THEN account' = "initial" /\ GoTo(p, "close")
       ELSE GoTo(p, "failed") /\ UNCHANGED account
    /\ UNCHANGED <<database, table, faults>>

CloseDB(p) ==
    /\ run[p] = "close"
    /\ GoTo(p, "done")
    /\ UNCHANGED <<database, table, account, faults>>

(* The server cannot be reached, a permission is missing, the process is   *)
(* killed: nothing that was done is undone.  A statement whose reply is    *)
(* lost is carried out first and fails then; HasTable takes a failing      *)
(* query for a missing table, and CREATE TABLE fails in its place.         *)
Fault(p) ==
    /\ run[p] \notin {"idle", "done", "failed"}
    /\ faults < MaxFaults
    /\ faults' = faults + 1
    /\ GoTo(p, "failed")
    /\ UNCHANGED <<database, table, account>>

RunStep(p) ==
    \/ Start(p)
    \/ CheckDatabase(p)
    \/ CreateDatabase(p)
    \/ InitDB(p)
    \/ HasTable(p)
    \/ CreateTable(p)
    \/ First(p)
    \/ Create(p)
    \/ CloseDB(p)

Next == \E p \in Run : RunStep(p) \/ Fault(p)

Ready == database /\ table /\ account # "none"
=============================================================================
