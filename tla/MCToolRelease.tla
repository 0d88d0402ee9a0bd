---------------------------- MODULE MCToolRelease ----------------------------
(* Releases of two files: a tool in two versions, and another that comes    *)
(* and goes.  By hand somebody saves an unreadable definition, or a second  *)
(* definition of the first tool.                                            *)
EXTENDS ToolRelease, TLC

CONSTANTS deploy1, check1, gateway1, iso, mon

Def(name, version) == [name |-> name, version |-> version, valid |-> TRUE]
Garbage == [name |-> iso, version |-> 3, valid |-> FALSE]

Old == (1 :> Def(iso, 1)) @@ (2 :> None)
New == (1 :> Def(iso, 2)) @@ (2 :> Def(mon, 1))
MCReleases == {Old, New}
MCDefinitions == {Def(iso, 1), Def(iso, 2), Def(mon, 1), Garbage}
MCEdits == {<<1, Garbage>>, <<2, Def(iso, 1)>>}
MCCatalogs == [{iso, mon} -> 0..2]

\* A bound: one process at a time between its start and the ledger, and no
\* deployment while one is at the ledger.  Loads only read, and the ledger's
\* steps touch nothing that a deployment or a load does, so that these
\* interleavings would differ in the order of independent steps alone.
AtLedger(l) == l \in Runs /\ run[l] # Idle
Loading == {l \in Loaders : load[l] # Resting /\ ~AtLedger(l)}
Separated ==
    /\ \A k, l \in Loading : k = l
    /\ (\E l \in Loaders : AtLedger(l)) => deploy.pc = "idle" /\ Loading \subseteq Runs
==============================================================================
