----------------------------- MODULE ToolRelease -----------------------------
(***************************************************************************)
(* The life of the tool catalogue on one host: deployments replace it,     *)
(* gateways load it at start-up, and `version_ledger check` loads it and   *)
(* compares it with the ledger.  version_ledger.main calls load_catalog    *)
(* first, which CatalogLoad takes apart, and then does what VersionLedger  *)
(* describes.                                                              *)
(***************************************************************************)
EXTENDS CatalogLoad, VersionLedger

CONSTANT Gateways

ASSUME ProcessesAssumption == Loaders = Runs \cup Gateways /\ Runs \cap Gateways = {}

releaseVars == <<catVars, vars>>

\* The catalogue as version_ledger reads it: name and version.
Versions(dir) ==
    [t \in Tools |->
        IF \E s \in Stems : dir[s] # None /\ dir[s].name = t
          THEN dir[CHOOSE s \in Stems : dir[s] # None /\ dir[s].name = t].version
          ELSE 0]

\* What load_catalog may return is what a run may find deployed.
ASSUME DeployedAssumption ==
    \A dir \in Directory : Loadable(dir) => Versions(dir) \in Catalogs

ReleaseTypeOK == TypeOK /\ CatTypeOK

ReleaseInit == Init /\ CatInit
-----------------------------------------------------------------------------
\* main: load_catalog; the exception, or load_ledger and the rest.
OpenLedger(r) ==
    /\ load[r].pc = "loaded"
    /\ Load(r, Versions(load[r].seen))
    /\ UNCHANGED catVars

OnLedger(r) == (Check(r) \/ Truncate(r) \/ Fill(r)) /\ UNCHANGED catVars

Leave(r) ==
    \/ Exit(r) /\ Continue(r, Resting)
    \/ load[r].pc = "raised" /\ Drop(r) /\ UNCHANGED vars

Die(r) ==
    \/ Kill(r) /\ UNCHANGED vars
    \/ Crash(r) /\ Continue(r, Resting)

\* Gateway.__init__
Serve(g) == (Drop(g) \/ Kill(g)) /\ UNCHANGED vars

ReleaseNext ==
    \/ \E l \in Loaders : (Start(l) \/ LoadStep(l)) /\ UNCHANGED vars
    \/ \E r \in Runs : OpenLedger(r) \/ OnLedger(r) \/ Leave(r) \/ Die(r)
    \/ \E g \in Gateways : Serve(g)
    \/ Storage /\ UNCHANGED vars

ReleaseSpec == ReleaseInit /\ [][ReleaseNext]_releaseVars
-----------------------------------------------------------------------------
\* The verdict on a release: a check that was not disturbed while it loaded
\* speaks of the release signed at that time, and of it alone; OK exactly if
\* no tool of it is behind the marks kept when the ledger was read.
VerdictIsOfRelease ==
    \A r \in Runs :
        run[r].pc \in {"ok", "write", "fill", "downgrade"} /\ load[r].calm /\ load[r].verified
            => (run[r].pc = "downgrade"
                    <=> Downgraded(Versions(load[r].release), run[r].floor) # {})
==============================================================================
