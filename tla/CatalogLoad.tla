----------------------------- MODULE CatalogLoad -----------------------------
(***************************************************************************)
(* tool_catalog/__init__.py, load_catalog, and tool_catalog/signatures:    *)
(* processes that load the catalogue while the files it is made of are     *)
(* replaced.                                                               *)
(*                                                                         *)
(* A load reads the manifest, lists the directory and hashes each file,    *)
(* compares, lists the directory again and parses each file; every read is *)
(* a step.  SHA-256 is taken to be injective, so the hash of a file is its *)
(* content.  A stem is a number, as files are visited in the order of      *)
(* their names.                                                            *)
(*                                                                         *)
(* Deployments are outside the repository: they replace the files one by   *)
(* one and end with write_integrity_manifest, which is in it.              *)
(***************************************************************************)
EXTENDS Naturals

CONSTANTS
    Loaders,      \* processes that call load_catalog
    Unsigned,     \* those that give a definitions_dir, for which no manifest is asked
    Stems, Definitions,
    Releases,     \* what deployments install: per stem a definition, or None
    Edits,        \* <<stem, definition>>: what somebody may save over a file by hand
    None

ASSUME LoadersAssumption == Unsigned \subseteq Loaders
ASSUME StemsAssumption == Stems \subseteq Nat
ASSUME DefinitionsAssumption == \A d \in Definitions : d.valid \in BOOLEAN
ASSUME EditsAssumption == Edits \subseteq Stems \X (Definitions \cup {None})

Directory == [Stems -> Definitions \cup {None}]

\* load_definition accepts every file, and no two have the same name.
Loadable(dir) ==
    /\ \A s \in Stems : dir[s] # None => dir[s].valid
    /\ \A s, t \in Stems : dir[s] # None /\ dir[t] # None /\ dir[s].name = dir[t].name => s = t
ASSUME ReleasesAssumption == Releases \subseteq {dir \in Directory : Loadable(dir)}

VARIABLES
    files,      \* the definitions directory
    manifest,   \* catalog.manifest.json: absent, torn (empty or half written) or whole
    deploy,     \* the deployment in progress
    signed,     \* what the last manifest written in full was made of (history)
    intact,     \* neither a deployment nor a hand has touched anything since (history)
    load        \* per process: the load_catalog it is in

storage == <<files, manifest, deploy, signed, intact>>
catVars == <<storage, load>>

NoFile == [s \in Stems |-> None]
Present == {s \in Stems : files[s] # None}
Resting == [pc |-> "resting"]
Errors == {"JSONDecodeError", "FileNotFoundError", "CatalogIntegrityError",
           "InvalidToolDefinition", "ValueError"}

\* calm: nothing was changed while the load was in progress, and it began
\* outside any deployment (history).
Loads ==
    [pc : {"resting"}]
    \cup [pc : {"glob"}, expected : Directory, calm : BOOLEAN]
    \cup [pc : {"hash"}, expected : Directory, todo : SUBSET Stems, seen : Directory, calm : BOOLEAN]
    \cup [pc : {"globAgain"}, verified : BOOLEAN, calm : BOOLEAN]
    \cup [pc : {"parse"}, todo : SUBSET Stems, seen : Directory, verified : BOOLEAN, calm : BOOLEAN]
    \* release: what was signed when it returned (history)
    \cup [pc : {"loaded"}, seen : Directory, verified : BOOLEAN, calm : BOOLEAN, release : Directory]
    \* untouched: whether the files were intact when it raised (history)
    \cup [pc : {"raised"}, why : Errors, calm : BOOLEAN, untouched : BOOLEAN]

CatTypeOK ==
    /\ files \in Directory
    /\ manifest \in [state : {"absent", "torn"}] \cup [state : {"whole"}, hashes : Directory]
    /\ deploy \in [pc : {"idle"}]
                  \cup [pc : {"copy"}, release : Releases, todo : SUBSET Stems]
                  \cup [pc : {"truncate", "fill"}, hashes : Directory]
    /\ signed \in Directory
    /\ intact \in BOOLEAN
    /\ load \in [Loaders -> Loads]

CatInit ==
    /\ files \in Releases
    /\ signed = files
    /\ manifest \in {[state |-> "absent"], [state |-> "whole", hashes |-> files]}
    /\ deploy = [pc |-> "idle"]
    /\ intact = TRUE
    /\ load = [l \in Loaders |-> Resting]
-----------------------------------------------------------------------------
Continue(l, next) == load' = [load EXCEPT ![l] = next] /\ UNCHANGED storage
Fail(l, error, calm) ==
    Continue(l, [pc |-> "raised", why |-> error, calm |-> calm, untouched |-> intact])
Raise(l, error) == Fail(l, error, load[l].calm)

\* No manifest, none asked for, one that is not JSON, or one to compare with.
Start(l) ==
    /\ load[l] = Resting
    /\ LET calm == deploy.pc = "idle" IN
       \/ /\ l \in Unsigned \/ manifest.state = "absent"
          /\ Continue(l, [pc |-> "globAgain", verified |-> FALSE, calm |-> calm])
       \/ /\ l \notin Unsigned /\ manifest.state = "torn"
          /\ Fail(l, "JSONDecodeError", calm)
       \/ /\ l \notin Unsigned /\ manifest.state = "whole"
          /\ Continue(l, [pc |-> "glob", expected |-> manifest.hashes, calm |-> calm])

\* build_integrity_manifest: the directory, then file after file.
Glob(l) ==
    /\ load[l].pc = "glob"
    /\ Continue(l, [pc |-> "hash", expected |-> load[l].expected, todo |-> Present,
                    seen |-> NoFile, calm |-> load[l].calm])

\* The file whose turn it is.
Turn(l, s) == s \in load[l].todo /\ \A t \in load[l].todo : s <= t

Hash(l) ==
    /\ load[l].pc = "hash"
    /\ \E s \in Stems :
          /\ Turn(l, s)
          /\ IF files[s] = None THEN Raise(l, "FileNotFoundError")
             ELSE Continue(l, [pc |-> "hash", expected |-> load[l].expected,
                               todo |-> load[l].todo \ {s},
                               seen |-> [load[l].seen EXCEPT ![s] = files[s]],
                               calm |-> load[l].calm])

\* Faulty: a file without an entry is not a mismatch.
Mismatches_KnownOnly(expected, current) ==
    {s \in Stems : expected[s] # None /\ current[s] # expected[s]}
\* Faulty: the files are counted, not compared.
Mismatches_ByName(expected, current) ==
    {s \in Stems : (current[s] = None) # (expected[s] = None)}
\* Changed, missing, or without an entry.
Mismatches(expected, current) == {s \in Stems : current[s] # expected[s]}

Compare(l) ==
    /\ load[l].pc = "hash" /\ load[l].todo = {}
    /\ IF Mismatches(load[l].expected, load[l].seen) # {} THEN Raise(l, "CatalogIntegrityError")
       ELSE Continue(l, [pc |-> "globAgain", verified |-> TRUE, calm |-> load[l].calm])

GlobAgain(l) ==
    /\ load[l].pc = "globAgain"
    /\ Continue(l, [pc |-> "parse", todo |-> Present, seen |-> NoFile,
                    verified |-> load[l].verified, calm |-> load[l].calm])

\* Faulty: what the schema says of a definition is ignored.
Parse_NoSchema(l) ==
    /\ load[l].pc = "parse"
    /\ \E s \in Stems :
          /\ Turn(l, s)
          /\ LET d == files[s] IN
             IF d = None THEN Raise(l, "FileNotFoundError")
             ELSE IF \E t \in Stems : load[l].seen[t] # None /\ load[l].seen[t].name = d.name
               THEN Raise(l, "ValueError")
             ELSE Continue(l, [pc |-> "parse", todo |-> load[l].todo \ {s},
                               seen |-> [load[l].seen EXCEPT ![s] = d],
                               verified |-> load[l].verified, calm |-> load[l].calm])

\* load_definition and the check for a name that is already there.
Parse(l) ==
    /\ load[l].pc = "parse"
    /\ \E s \in Stems :
          /\ Turn(l, s)
          /\ LET d == files[s] IN
             IF d = None THEN Raise(l, "FileNotFoundError")
             ELSE IF ~d.valid THEN Raise(l, "InvalidToolDefinition")
             ELSE IF \E t \in Stems : load[l].seen[t] # None /\ load[l].seen[t].name = d.name
               THEN Raise(l, "ValueError")
             ELSE Continue(l, [pc |-> "parse", todo |-> load[l].todo \ {s},
                               seen |-> [load[l].seen EXCEPT ![s] = d],
                               verified |-> load[l].verified, calm |-> load[l].calm])

Return(l) ==
    /\ load[l].pc = "parse" /\ load[l].todo = {}
    /\ Continue(l, [pc |-> "loaded", seen |-> load[l].seen, verified |-> load[l].verified,
                    calm |-> load[l].calm, release |-> signed])

\* The process is done with its catalogue, or ends with the exception.
Drop(l) ==
    /\ load[l].pc \in {"loaded", "raised"}
    /\ Continue(l, Resting)

Kill(l) ==
    /\ load[l].pc \notin {"resting", "loaded", "raised"}
    /\ Continue(l, Resting)
-----------------------------------------------------------------------------
Disturbed == [l \in Loaders |->
    IF load[l].pc \in {"resting", "loaded", "raised"} THEN load[l]
    ELSE [load[l] EXCEPT !.calm = FALSE]]

\* A deployment begins, with all files to write or remove ...
Deploy(release) ==
    /\ deploy.pc = "idle"
    /\ deploy' = [pc |-> "copy", release |-> release, todo |-> Stems]
    /\ intact' = FALSE
    /\ load' = Disturbed
    /\ UNCHANGED <<files, manifest, signed>>

\* ... in any order ...
Copy(s) ==
    /\ deploy.pc = "copy" /\ s \in deploy.todo
    /\ files' = [files EXCEPT ![s] = deploy.release[s]]
    /\ deploy' = [deploy EXCEPT !.todo = @ \ {s}]
    /\ load' = Disturbed
    /\ UNCHANGED <<manifest, signed, intact>>

\* Faulty: the entries of files that are gone stay in the manifest.
Build_KeepsEntries ==
    /\ deploy.pc = "copy" /\ deploy.todo = {}
    /\ deploy' = [pc |-> "truncate",
                   hashes |-> [s \in Stems |-> IF files[s] = None /\ manifest.state = "whole"
                                                 THEN manifest.hashes[s] ELSE files[s]]]
    /\ load' = Disturbed
    /\ UNCHANGED <<files, manifest, signed, intact>>

\* ... and then write_integrity_manifest, which hashes them, ...
Build ==
    /\ deploy.pc = "copy" /\ deploy.todo = {}
    /\ deploy' = [pc |-> "truncate", hashes |-> files]
    /\ load' = Disturbed
    /\ UNCHANGED <<files, manifest, signed, intact>>

\* ... empties the manifest ...
EmptyManifest ==
    /\ deploy.pc = "truncate"
    /\ manifest' = [state |-> "torn"]
    /\ deploy' = [deploy EXCEPT !.pc = "fill"]
    /\ load' = Disturbed
    /\ UNCHANGED <<files, signed, intact>>

\* ... and fills it.
FillManifest ==
    /\ deploy.pc = "fill"
    /\ manifest' = [state |-> "whole", hashes |-> deploy.hashes]
    /\ signed' = deploy.hashes
    /\ intact' = TRUE
    /\ deploy' = [pc |-> "idle"]
    /\ load' = Disturbed
    /\ UNCHANGED files

\* The deployment dies where it is.
Abort ==
    /\ deploy.pc # "idle"
    /\ deploy' = [pc |-> "idle"]
    /\ load' = Disturbed
    /\ UNCHANGED <<files, manifest, signed, intact>>

\* Somebody saves something over a file, outside any deployment.
Edit(s, d) ==
    /\ deploy.pc = "idle"
    /\ files[s] # d
    /\ files' = [files EXCEPT ![s] = d]
    /\ intact' = FALSE
    /\ load' = Disturbed
    /\ UNCHANGED <<manifest, deploy, signed>>
-----------------------------------------------------------------------------
LoadStep(l) ==
    Glob(l) \/ Hash(l) \/ Compare(l) \/ GlobAgain(l) \/ Parse(l) \/ Return(l)

Storage ==
    \/ \E release \in Releases : Deploy(release)
    \/ \E s \in Stems : Copy(s)
    \/ Build \/ EmptyManifest \/ FillManifest \/ Abort
    \/ \E e \in Edits : Edit(e[1], e[2])

CatNext ==
    \/ \E l \in Loaders : Start(l) \/ LoadStep(l) \/ Drop(l) \/ Kill(l)
    \/ Storage

CatSpec == CatInit /\ [][CatNext]_catVars
-----------------------------------------------------------------------------
\* A calm load that was verified gives exactly what was signed last: nothing of
\* a deployment that died half-way, nothing edited by hand, no file left over
\* or left out.  (One that is not calm may mix what it verified with what
\* came after: the files are read twice.)
CalmLoadIsSigned ==
    \A l \in Loaders :
        load[l].pc = "loaded" /\ load[l].calm /\ load[l].verified => load[l].seen = load[l].release

\* An exception out of a calm load has a cause in the files: if the last
\* deployment ended and nothing was edited since, there is none.
AlarmHasCause ==
    \A l \in Loaders : load[l].pc = "raised" /\ load[l].calm => ~load[l].untouched
==============================================================================
