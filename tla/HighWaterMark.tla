--------------------------- MODULE HighWaterMark ---------------------------
(***************************************************************************)
(* What tool_catalog/version_ledger.py promises ("append-only: registra la *)
(* version mas alta vista por tool_id"): a mark per tool that is only ever *)
(* raised, by a catalogue that is behind on none of its tools.             *)
(***************************************************************************)
EXTENDS Naturals

CONSTANTS Tools, Catalogs   \* a catalogue gives each tool a version, 0 if it has no such tool

VARIABLE mark               \* 0 for a tool never seen

Behind(catalog, marks) == \E t \in Tools : catalog[t] # 0 /\ catalog[t] < marks[t]
Raised(catalog, marks) ==
    [t \in Tools |-> IF catalog[t] > marks[t] THEN catalog[t] ELSE marks[t]]

Init == mark = [t \in Tools |-> 0]

Raise(catalog) == /\ ~Behind(catalog, mark)
                  /\ mark' = Raised(catalog, mark)

Next == \E catalog \in Catalogs : Raise(catalog)

Spec == Init /\ [][Next]_mark
=============================================================================
