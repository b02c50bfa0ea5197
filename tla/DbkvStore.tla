------------------------------ MODULE DbkvStore ------------------------------
(***************************************************************************)
(* What the key-value store promises to a reader: every instance shows     *)
(* either nothing or one table exactly as some transaction committed it,   *)
(* never a mixture, and two committed tables are never mistaken for one    *)
(* another.  Which committed table it shows is left open.                  *)
(***************************************************************************)
CONSTANTS Instance, Table, Nothing

VARIABLES table,  \* the committed table
          past,   \* every table committed so far
          view    \* what an instance shows

storeVars == <<table, past, view>>

StoreInit ==
    /\ table \in Table
    /\ past = {table}
    /\ view = [i \in Instance |-> Nothing]

Commit ==
    /\ \E new \in Table \ past : table' = new /\ past' = past \cup {new}
    /\ UNCHANGED view

Show(i) ==
    /\ \E old \in past : view' = [view EXCEPT ![i] = old]
    /\ UNCHANGED <<table, past>>

Hide(i) ==
    /\ view' = [view EXCEPT ![i] = Nothing]
    /\ UNCHANGED <<table, past>>

StoreNext == Commit \/ \E i \in Instance : Show(i) \/ Hide(i)

StoreSpec == StoreInit /\ [][StoreNext]_storeVars
=============================================================================
