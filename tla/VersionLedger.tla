---------------------------- MODULE VersionLedger ----------------------------
(***************************************************************************)
(* tool_catalog/version_ledger.py: `check --ledger <path> [--update]`, run *)
(* by any number of processes on one file.                                 *)
(*                                                                         *)
(* A run loads the catalogue, then the ledger, compares them, and with     *)
(* --update writes the ledger back.  write_text opens the file for writing *)
(* (which empties it) and then fills it; other runs and a crash come in    *)
(* between.  A version is its (major, minor, patch), of which only the     *)
(* order matters, so versions are 1, 2, ...; 0 stands for a tool that is   *)
(* not there.  InvalidLedgerVersion is left out: the schema of a tool      *)
(* definition asks for MAJOR.MINOR.PATCH, so load_catalog yields no other  *)
(* version and none is written; only a ledger edited by hand could hold    *)
(* one.                                                                    *)
(***************************************************************************)
EXTENDS Naturals

CONSTANTS
    Runs,        \* processes
    Updaters,    \* those started with --update
    Tools,
    Catalogs     \* the catalogues a run may find deployed

ASSUME CatalogsAssumption == Catalogs \subseteq [Tools -> Nat]
ASSUME UpdatersAssumption == Updaters \subseteq Runs

VARIABLES
    file,    \* the ledger file: absent, torn (empty or half written) or whole
    run,     \* per process: the check it is in
    kept     \* the marks last written in full (history)

vars == <<file, run, kept>>

Marks == [Tools -> Nat]
NoMarks == [t \in Tools |-> 0]
Idle == [pc |-> "idle"]
RunStates ==
    [pc : {"idle", "raised"}]
    \* seen: the ledger it loaded; floor: what had been kept when it did (history)
    \cup [pc : {"loaded"}, catalog : Catalogs, seen : Marks, floor : Marks]
    \cup [pc : {"ok", "downgrade"}, catalog : Catalogs, floor : Marks]
    \cup [pc : {"write", "fill"}, catalog : Catalogs, updated : Marks, floor : Marks]

TypeOK ==
    /\ file \in [state : {"absent", "torn"}] \cup [state : {"whole"}, marks : Marks]
    /\ run \in [Runs -> RunStates]
    /\ kept \in Marks

Init ==
    /\ file = [state |-> "absent"]
    /\ run = [r \in Runs |-> Idle]
    /\ kept = NoMarks

\* check_for_downgrades
Downgraded(catalog, ledger) == {t \in Tools : catalog[t] # 0 /\ catalog[t] < ledger[t]}
\* Faulty: the new ledger is the catalogue.
Updated_IsCatalog(catalog, ledger) == catalog
Updated(catalog, ledger) ==
    [t \in Tools |-> IF catalog[t] > ledger[t] THEN catalog[t] ELSE ledger[t]]
-----------------------------------------------------------------------------
\* Faulty: a file that cannot be parsed is taken for an empty ledger.
Load_TornIsEmpty(r, catalog) ==
    /\ run[r] = Idle
    /\ run' = [run EXCEPT ![r] =
           [pc |-> "loaded", catalog |-> catalog, floor |-> kept,
            seen |-> IF file.state = "whole" THEN file.marks ELSE NoMarks]]
    /\ UNCHANGED <<file, kept>>

\* load_catalog, then load_ledger: no file is an empty ledger, and a file
\* that is not JSON raises JSONDecodeError.
Load(r, catalog) ==
    /\ run[r] = Idle
    /\ run' = [run EXCEPT ![r] =
           IF file.state = "torn" THEN [pc |-> "raised"]
           ELSE [pc |-> "loaded", catalog |-> catalog, floor |-> kept,
                 seen |-> IF file.state = "whole" THEN file.marks ELSE NoMarks]]
    /\ UNCHANGED <<file, kept>>

\* The verdict, and whether there is something to persist.
Check(r) ==
    /\ run[r].pc = "loaded"
    /\ LET c == run[r]
           done(verdict) == [pc |-> verdict, catalog |-> c.catalog, floor |-> c.floor]
       IN
       run' = [run EXCEPT ![r] =
           IF Downgraded(c.catalog, c.seen) # {} THEN done("downgrade")
           ELSE IF r \notin Updaters THEN done("ok")
           ELSE [pc |-> "write", catalog |-> c.catalog, floor |-> c.floor,
                 updated |-> Updated(c.catalog, c.seen)]]
    /\ UNCHANGED <<file, kept>>

\* Faulty: the old file is deleted first.
Truncate_Deletes(r) ==
    /\ run[r].pc = "write"
    /\ file' = [state |-> "absent"]
    /\ run' = [run EXCEPT ![r].pc = "fill"]
    /\ UNCHANGED kept

\* write_ledger: write_text empties the file ...
Truncate(r) ==
    /\ run[r].pc = "write"
    /\ file' = [state |-> "torn"]
    /\ run' = [run EXCEPT ![r].pc = "fill"]
    /\ UNCHANGED kept

\* ... and fills it.
Fill(r) ==
    /\ run[r].pc = "fill"
    /\ LET c == run[r] IN
       /\ file' = [state |-> "whole", marks |-> c.updated]
       /\ kept' = c.updated
       /\ run' = [run EXCEPT ![r] = [pc |-> "ok", catalog |-> c.catalog,
                                     floor |-> c.floor]]

\* Exit status 0, 1, or a traceback.
Exit(r) ==
    /\ run[r].pc \in {"ok", "downgrade", "raised"}
    /\ run' = [run EXCEPT ![r] = Idle]
    /\ UNCHANGED <<file, kept>>

\* The process dies where it is.
Crash(r) ==
    /\ run[r].pc \in {"loaded", "write", "fill"}
    /\ run' = [run EXCEPT ![r] = Idle]
    /\ UNCHANGED <<file, kept>>
-----------------------------------------------------------------------------
Next == \E r \in Runs :
    \/ \E catalog \in Catalogs : Load(r, catalog)
    \/ Check(r) \/ Truncate(r) \/ Fill(r) \/ Exit(r) \/ Crash(r)

Spec == Init /\ [][Next]_vars
-----------------------------------------------------------------------------
\* At most one process at a time is started with --update (the deployment
\* step); the code has no lock.
OneUpdater == \A q, r \in Updaters : q = r

\* What a run can read is what was last written in full: a crash between
\* emptying and filling the file never makes it an older, smaller or empty
\* ledger, only an unreadable one.
ReadableIsKept ==
    /\ file.state = "whole" => file.marks = kept
    /\ file.state = "absent" => kept = NoMarks

\* A run says OK only if no tool of its catalogue is behind the marks kept
\* when it loaded the ledger, and "downgrade" only if one is - whatever
\* updates, crashes and other runs are in progress.
VerdictIsRight ==
    \A r \in Runs :
        /\ run[r].pc \in {"ok", "write", "fill"} =>
              Downgraded(run[r].catalog, run[r].floor) = {}
        /\ run[r].pc = "downgrade" => Downgraded(run[r].catalog, run[r].floor) # {}

\* With one updater at a time the marks only rise.
Promise == INSTANCE HighWaterMark WITH mark <- kept
ImplementsHighWaterMark == Promise!Spec
==============================================================================
