--------------------------- MODULE AbstractLedger ---------------------------
(***************************************************************************)
(* What the Request Ledger promises (spec.md 3 and 4.1): a request is      *)
(* pending from its creation until exactly one acknowledgment, an id is    *)
(* never used again, and every pending request is eventually acknowledged.*)
(***************************************************************************)
CONSTANT Ids

VARIABLES
    pending,    \* ids created and not yet acknowledged
    done        \* ids acknowledged

Init == pending = {} /\ done = {}

Create(i) ==
    /\ i \notin pending \cup done
    /\ pending' = pending \cup {i}
    /\ UNCHANGED done

Acknowledge(i) ==
    /\ i \in pending
    /\ pending' = pending \ {i}
    /\ done' = done \cup {i}

Next == \E i \in Ids : Create(i) \/ Acknowledge(i)

Spec == Init /\ [][Next]_<<pending, done>> /\ \A i \in Ids : WF_<<pending, done>>(Acknowledge(i))
=============================================================================
