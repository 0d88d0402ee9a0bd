----------------------------- MODULE ConsumeOnce -----------------------------
(***************************************************************************)
(* What an approval store promises: an approval_id is granted to at most   *)
(* one caller, ever.  An id may also be burned: consumed by a call whose   *)
(* process died before it could use the answer.  Neither is ever undone.   *)
(***************************************************************************)
EXTENDS Integers

CONSTANT Ids

VARIABLES grants,   \* how many callers were told that the id is theirs
          burned    \* ids consumed without anyone being told

vars == <<grants, burned>>

Init == /\ grants = [i \in Ids |-> 0]
        /\ burned = {}

Grant(i) == /\ grants[i] = 0
            /\ i \notin burned
            /\ grants' = [grants EXCEPT ![i] = 1]
            /\ UNCHANGED burned

Burn(S) == /\ \A i \in S : grants[i] = 0
           /\ burned' = burned \cup S
           /\ UNCHANGED grants

Next == \/ \E i \in Ids : Grant(i)
        \/ \E S \in SUBSET Ids : Burn(S)

Spec == Init /\ [][Next]_vars
==============================================================================
