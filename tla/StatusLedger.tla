---------------------------- MODULE StatusLedger ----------------------------
(***************************************************************************)
(* What the workflow executor promises, with all of its machinery hidden:  *)
(* an instance has one status, the status only ever moves along a declared *)
(* route, and the moves made so far form one ledger in which every move    *)
(* starts where the previous one ended.  No two moves overlap.             *)
(***************************************************************************)
EXTENDS Sequences

CONSTANTS Routes,         \* declared routes, a set of pairs <<from, to>>
          StartStatuses   \* statuses the instance may have at first

VARIABLES status,  \* the instance's status field
          ledger   \* the routes taken, in order

vars == <<status, ledger>>

Init == /\ status \in StartStatuses
        /\ ledger = <<>>

Move(r) == /\ r[1] = status
           /\ status' = r[2]
           /\ ledger' = Append(ledger, r)

Next == \E r \in Routes : Move(r)

Spec == Init /\ [][Next]_vars
=============================================================================
