-------------------------- MODULE ToolReleaseProofs --------------------------
(***************************************************************************)
(* For every set of processes, files, definitions, releases, tools and     *)
(* catalogues.  First load_catalog: a calm verified load is what was       *)
(* signed, and an exception out of a calm load has a cause.  Then the      *)
(* ledger: what can be read from it is what was last written in full,      *)
(* every verdict is right, and with one updater at a time the marks only   *)
(* rise.  Last the two together, where each does what it does alone, and a *)
(* verdict is one on the release that was signed.                          *)
(***************************************************************************)
EXTENDS ToolRelease, TLAPS

(* CatalogLoad *)
\* Where a deployment is: what it has copied is there, and what it has
\* hashed is the release it copied.
DeployIsOnItsWay ==
    /\ deploy.pc = "copy" => \A s \in Stems \ deploy.todo : files[s] = deploy.release[s]
    /\ deploy.pc \in {"truncate", "fill"} => deploy.hashes = files /\ files \in Releases

\* A manifest that can be read is the one signed last; and what nobody has
\* touched is a release and its manifest.
ManifestIsSigned ==
    /\ manifest.state = "whole" => manifest.hashes = signed
    /\ intact => /\ deploy.pc = "idle" /\ manifest.state # "torn"
                 /\ files = signed /\ files \in Releases

\* What a calm load has in hand agrees with the files as they are.
Agrees(c) ==
    /\ c.pc \in {"glob", "hash"} /\ c.calm => c.expected = signed
    /\ c.pc \in {"hash", "parse"} /\ c.calm =>
          \A s \in Stems : IF s \in c.todo THEN files[s] # None /\ c.seen[s] = None
                                           ELSE c.seen[s] = files[s]
    /\ c.pc \in {"globAgain", "parse"} /\ c.calm /\ c.verified => files = signed

\* How a calm load ended is right.
EndsRight(c) ==
    /\ c.pc = "loaded" /\ c.calm /\ c.verified => c.seen = c.release
    /\ c.pc = "raised" /\ c.calm => ~c.untouched

LoadsAreRight == \A l \in Loaders : Agrees(load[l]) /\ EndsRight(load[l])

\* The fields of a load that is under way have their types.
LEMMA LoadTypes ==
    ASSUME CatTypeOK, NEW l \in Loaders
    PROVE  /\ load[l] \in Loads
           /\ load[l].pc = "glob" =>
                 load[l] \in [pc : {"glob"}, expected : Directory, calm : BOOLEAN]
           /\ load[l].pc = "hash" =>
                 load[l] \in [pc : {"hash"}, expected : Directory, todo : SUBSET Stems,
                              seen : Directory, calm : BOOLEAN]
           /\ load[l].pc = "globAgain" =>
                 load[l] \in [pc : {"globAgain"}, verified : BOOLEAN, calm : BOOLEAN]
           /\ load[l].pc = "parse" =>
                 load[l] \in [pc : {"parse"}, todo : SUBSET Stems, seen : Directory,
                              verified : BOOLEAN, calm : BOOLEAN]
BY DEF CatTypeOK, Loads

\* An exception is a state of a load.
LEMMA FailTypes ==
    ASSUME CatTypeOK, NEW l \in Loaders, NEW error \in Errors, NEW calm \in BOOLEAN,
           Fail(l, error, calm)
    PROVE  CatTypeOK'
BY DEF Fail, Continue, storage, CatTypeOK, Loads

\* Disturbing a load takes its calm and nothing else.
LEMMA DisturbedTypes ==
    ASSUME CatTypeOK
    PROVE  Disturbed \in [Loaders -> Loads]
<1> SUFFICES ASSUME NEW l \in Loaders
             PROVE  Disturbed[l] \in Loads
  BY DEF Disturbed
<1>1. load[l] \in Loads
  BY LoadTypes
<1>2. CASE load[l].pc \in {"resting", "loaded", "raised"}
  BY <1>1, <1>2 DEF Disturbed
<1>3. CASE load[l].pc \notin {"resting", "loaded", "raised"}
  <2>1. load[l].pc \in {"glob", "hash", "globAgain", "parse"}
    BY <1>1, <1>3 DEF Loads
  <2>2. Disturbed[l] = [load[l] EXCEPT !.calm = FALSE]
    BY <1>3 DEF Disturbed
  <2> QED
    BY <2>1, <2>2, LoadTypes DEF Loads
<1> QED
  BY <1>2, <1>3

\* A step of a load leaves everything in its place.
LEMMA LoadStepTypes ==
    ASSUME CatTypeOK, NEW l \in Loaders, Start(l) \/ LoadStep(l) \/ Drop(l) \/ Kill(l)
    PROVE  CatTypeOK'
<1>0. NoFile \in Directory /\ Present \subseteq Stems
  BY DEF NoFile, Directory, Present
<1>1. CASE Start(l)
  <2>1. CASE manifest.state = "torn" /\ Fail(l, "JSONDecodeError", deploy.pc = "idle")
    BY <2>1, FailTypes DEF Errors
  <2>2. CASE \E calm \in BOOLEAN :
                Continue(l, [pc |-> "globAgain", verified |-> FALSE, calm |-> calm])
    BY <2>2 DEF Continue, storage, CatTypeOK, Loads
  <2>3. CASE /\ manifest.state = "whole"
             /\ \E calm \in BOOLEAN :
                  Continue(l, [pc |-> "glob", expected |-> manifest.hashes, calm |-> calm])
    BY <2>3 DEF Continue, storage, CatTypeOK, Loads
  <2>4. (deploy.pc = "idle") \in BOOLEAN
    OBVIOUS
  <2> QED
    BY <1>1, <2>1, <2>2, <2>3, <2>4 DEF Start
<1>2. CASE Glob(l)
  <2>1. load'[l] \in Loads
    BY <1>0, <1>2, LoadTypes DEF Glob, Continue, CatTypeOK, Loads
  <2> QED
    BY <1>2, <2>1 DEF Glob, Continue, storage, CatTypeOK
<1>3. CASE Hash(l)
  <2>1. load[l] \in [pc : {"hash"}, expected : Directory, todo : SUBSET Stems,
                     seen : Directory, calm : BOOLEAN]
    BY <1>3, LoadTypes DEF Hash
  <2>2. PICK s \in Stems :
           IF files[s] = None THEN Raise(l, "FileNotFoundError")
           ELSE Continue(l, [pc |-> "hash", expected |-> load[l].expected,
                             todo |-> load[l].todo \ {s},
                             seen |-> [load[l].seen EXCEPT ![s] = files[s]],
                             calm |-> load[l].calm])
    BY <1>3 DEF Hash
  <2>3. CASE files[s] = None
    BY <2>1, <2>2, <2>3, FailTypes DEF Raise, Errors
  <2>4. CASE files[s] # None
    <3>1. [load[l].seen EXCEPT ![s] = files[s]] \in Directory
      BY <2>1 DEF Directory, CatTypeOK
    <3>2. load'[l] \in Loads
      BY <2>1, <2>2, <2>4, <3>1 DEF Continue, CatTypeOK, Loads
    <3> QED
      BY <2>2, <2>4, <3>2 DEF Continue, storage, CatTypeOK
  <2> QED
    BY <2>3, <2>4
<1>4. CASE Compare(l)
  <2>1. load[l] \in [pc : {"hash"}, expected : Directory, todo : SUBSET Stems,
                     seen : Directory, calm : BOOLEAN]
    BY <1>4, LoadTypes DEF Compare
  <2>2. CASE Raise(l, "CatalogIntegrityError")
    BY <2>1, <2>2, FailTypes DEF Raise, Errors
  <2>3. CASE Continue(l, [pc |-> "globAgain", verified |-> TRUE, calm |-> load[l].calm])
    BY <2>1, <2>3 DEF Continue, storage, CatTypeOK, Loads
  <2> QED
    BY <1>4, <2>2, <2>3 DEF Compare
<1>5. CASE GlobAgain(l)
  <2>1. load'[l] \in Loads
    BY <1>0, <1>5, LoadTypes DEF GlobAgain, Continue, CatTypeOK, Loads
  <2> QED
    BY <1>5, <2>1 DEF GlobAgain, Continue, storage, CatTypeOK
<1>6. CASE Parse(l)
  <2>1. load[l] \in [pc : {"parse"}, todo : SUBSET Stems, seen : Directory,
                     verified : BOOLEAN, calm : BOOLEAN]
    BY <1>6, LoadTypes DEF Parse
  <2> DEFINE Parsed(s) ==
         [pc |-> "parse", todo |-> load[l].todo \ {s},
          seen |-> [load[l].seen EXCEPT ![s] = files[s]],
          verified |-> load[l].verified, calm |-> load[l].calm]
  <2>2. PICK s \in Stems :
           (\E error \in Errors : Raise(l, error)) \/ Continue(l, Parsed(s))
    BY <1>6 DEF Parse, Errors
  <2>3. CASE \E error \in Errors : Raise(l, error)
    BY <2>1, <2>3, FailTypes DEF Raise
  <2>4. CASE Continue(l, Parsed(s))
    <3>1. [load[l].seen EXCEPT ![s] = files[s]] \in Directory
      BY <2>1 DEF Directory, CatTypeOK
    <3>2. load'[l] \in Loads
      BY <2>1, <2>4, <3>1 DEF Continue, CatTypeOK, Loads
    <3> QED
      BY <2>4, <3>2 DEF Continue, storage, CatTypeOK
  <2> QED
    BY <2>2, <2>3, <2>4
<1>7. CASE Return(l)
  <2>1. load'[l] \in Loads
    BY <1>7, LoadTypes DEF Return, Continue, CatTypeOK, Loads
  <2> QED
    BY <1>7, <2>1 DEF Return, Continue, storage, CatTypeOK
<1>8. CASE Drop(l) \/ Kill(l)
  BY <1>8 DEF Drop, Kill, Continue, storage, CatTypeOK, Loads, Resting
<1> QED
  BY <1>1, <1>2, <1>3, <1>4, <1>5, <1>6, <1>7, <1>8 DEF LoadStep

\* Nor does a step of a deployment, or an edit.
LEMMA StorageTypes ==
    ASSUME CatTypeOK, Storage
    PROVE  CatTypeOK'
<1>1. Disturbed \in [Loaders -> Loads]
  BY DisturbedTypes
<1>2. ASSUME NEW release \in Releases, Deploy(release) PROVE CatTypeOK'
  BY <1>1, <1>2 DEF Deploy, CatTypeOK
<1>3. ASSUME NEW s \in Stems, Copy(s) PROVE CatTypeOK'
  <2>1. deploy \in [pc : {"copy"}, release : Releases, todo : SUBSET Stems]
    BY <1>3 DEF Copy, CatTypeOK
  <2>2. deploy.release \in Directory
    BY <2>1, ReleasesAssumption
  <2>3. files' \in Directory
    BY <1>3, <2>2 DEF Copy, CatTypeOK, Directory
  <2> QED
    BY <1>1, <1>3, <2>1, <2>3 DEF Copy, CatTypeOK
<1>4. CASE Build
  BY <1>1, <1>4 DEF Build, CatTypeOK
<1>5. CASE EmptyManifest
  <2>1. deploy \in [pc : {"truncate", "fill"}, hashes : Directory]
    BY <1>5 DEF EmptyManifest, CatTypeOK
  <2> QED
    BY <1>1, <1>5, <2>1 DEF EmptyManifest, CatTypeOK
<1>6. CASE FillManifest
  <2>1. deploy \in [pc : {"truncate", "fill"}, hashes : Directory]
    BY <1>6 DEF FillManifest, CatTypeOK
  <2> QED
    BY <1>1, <1>6, <2>1 DEF FillManifest, CatTypeOK
<1>7. CASE Abort
  BY <1>1, <1>7 DEF Abort, CatTypeOK
<1>8. ASSUME NEW e \in Edits, Edit(e[1], e[2]) PROVE CatTypeOK'
  <2>1. e[1] \in Stems /\ e[2] \in Definitions \cup {None}
    BY EditsAssumption
  <2>2. files' \in Directory
    BY <1>8, <2>1 DEF Edit, CatTypeOK, Directory
  <2> QED
    BY <1>1, <1>8, <2>2 DEF Edit, CatTypeOK
<1> QED
  BY <1>2, <1>3, <1>4, <1>5, <1>6, <1>7, <1>8 DEF Storage

LEMMA CatTypesStep ==
    ASSUME CatTypeOK, [CatNext]_catVars
    PROVE  CatTypeOK'
<1>1. CASE UNCHANGED catVars
  BY <1>1 DEF catVars, storage, CatTypeOK
<1> QED
  BY <1>1, LoadStepTypes, StorageTypes DEF CatNext

\* The types are preserved, whatever loads, deployments and hands do.
THEOREM CatTypeCorrect == CatSpec => []CatTypeOK
<1>1. CatInit => CatTypeOK
  BY ReleasesAssumption DEF CatInit, CatTypeOK, Loads, Resting
<1>2. CatTypeOK /\ [CatNext]_catVars => CatTypeOK'
  BY CatTypesStep
<1> QED
  BY <1>1, <1>2, PTL DEF CatSpec

\* Deployments keep to their order.
LEMMA DeployKeepsItsWay ==
    ASSUME CatTypeOK, DeployIsOnItsWay, [CatNext]_catVars
    PROVE  DeployIsOnItsWay'
<1>1. CASE UNCHANGED storage
  BY <1>1 DEF storage, DeployIsOnItsWay
<1>2. ASSUME NEW release \in Releases, Deploy(release) PROVE DeployIsOnItsWay'
  BY <1>2 DEF Deploy, DeployIsOnItsWay
<1>3. ASSUME NEW s \in Stems, Copy(s) PROVE DeployIsOnItsWay'
  <2>1. deploy \in [pc : {"copy"}, release : Releases, todo : SUBSET Stems]
    BY <1>3 DEF Copy, CatTypeOK
  <2>2. /\ deploy'.pc = "copy" /\ deploy'.release = deploy.release
        /\ deploy'.todo = deploy.todo \ {s}
    BY <1>3, <2>1 DEF Copy
  <2>3. \A t \in Stems : files'[t] = IF t = s THEN deploy.release[s] ELSE files[t]
    BY <1>3 DEF Copy, CatTypeOK, Directory
  <2> QED
    BY <1>3, <2>2, <2>3 DEF Copy, DeployIsOnItsWay
<1>4. CASE Build
  <2>1. deploy \in [pc : {"copy"}, release : Releases, todo : SUBSET Stems]
    BY <1>4 DEF Build, CatTypeOK
  <2>2. files = deploy.release
    BY <1>4, <2>1, ReleasesAssumption DEF Build, DeployIsOnItsWay, CatTypeOK, Directory
  <2> QED
    BY <1>4, <2>1, <2>2 DEF Build, DeployIsOnItsWay
<1>5. CASE EmptyManifest
  <2>1. deploy \in [pc : {"truncate", "fill"}, hashes : Directory]
    BY <1>5 DEF EmptyManifest, CatTypeOK
  <2> QED
    BY <1>5, <2>1 DEF EmptyManifest, DeployIsOnItsWay
<1>6. CASE FillManifest \/ Abort
  BY <1>6 DEF FillManifest, Abort, DeployIsOnItsWay
<1>7. ASSUME NEW e \in Edits, Edit(e[1], e[2]) PROVE DeployIsOnItsWay'
  BY <1>7 DEF Edit, DeployIsOnItsWay
<1>8. ASSUME NEW l \in Loaders, Start(l) \/ LoadStep(l) \/ Drop(l) \/ Kill(l)
      PROVE  UNCHANGED storage
  BY <1>8 DEF Start, LoadStep, Glob, Hash, Compare, GlobAgain, Parse, Return, Drop, Kill,
              Raise, Fail, Continue
<1> QED
  BY <1>1, <1>2, <1>3, <1>4, <1>5, <1>6, <1>7, <1>8 DEF CatNext, Storage, catVars

\* A manifest is written of a release, and nothing that touches the files or
\* the manifest leaves them intact.
LEMMA ManifestStaysSigned ==
    ASSUME CatTypeOK, DeployIsOnItsWay, ManifestIsSigned, Storage
    PROVE  ManifestIsSigned'
<1>1. CASE \E release \in Releases : Deploy(release)
  BY <1>1 DEF Deploy, ManifestIsSigned
<1>2. CASE \E s \in Stems : Copy(s)
  BY <1>2 DEF Copy, ManifestIsSigned
<1>3. CASE Build \/ EmptyManifest \/ Abort
  BY <1>3 DEF Build, EmptyManifest, Abort, ManifestIsSigned
<1>4. CASE FillManifest
  <2>1. deploy.hashes = files /\ files \in Releases
    BY <1>4 DEF FillManifest, DeployIsOnItsWay
  <2> QED
    BY <1>4, <2>1 DEF FillManifest, ManifestIsSigned
<1>5. CASE \E e \in Edits : Edit(e[1], e[2])
  BY <1>5 DEF Edit, ManifestIsSigned
<1> QED
  BY <1>1, <1>2, <1>3, <1>4, <1>5 DEF Storage

\* A change of the files takes the calm of every load under way, so that
\* nothing more is claimed of it.
LEMMA StorageDisturbs ==
    ASSUME CatTypeOK, LoadsAreRight, Storage
    PROVE  LoadsAreRight'
<1> SUFFICES ASSUME NEW l \in Loaders PROVE (Agrees(load[l]) /\ EndsRight(load[l]))'
  BY DEF LoadsAreRight
<1>1. load' = Disturbed
  BY DEF Storage, Deploy, Copy, Build, EmptyManifest, FillManifest, Abort, Edit
<1>2. CASE load[l].pc \in {"resting", "loaded", "raised"}
  <2>1. load'[l] = load[l]
    BY <1>1, <1>2 DEF Disturbed
  <2> QED
    BY <1>2, <2>1 DEF LoadsAreRight, Agrees, EndsRight
<1>3. CASE load[l].pc \notin {"resting", "loaded", "raised"}
  <2>1. load[l].pc \in {"glob", "hash", "globAgain", "parse"}
    BY <1>3, LoadTypes DEF Loads
  <2>2. load'[l] = [load[l] EXCEPT !.calm = FALSE]
    BY <1>1, <1>3 DEF Disturbed
  <2>3. load'[l].pc = load[l].pc /\ ~load'[l].calm
    BY <2>1, <2>2, LoadTypes
  <2> QED
    BY <2>1, <2>3 DEF Agrees, EndsRight
<1> QED
  BY <1>2, <1>3

\* What a load comes to when nothing changes under it: it goes on in
\* agreement, ends with what is signed, or raises because of the files.
LEMMA LoadGoesRight ==
    ASSUME CatTypeOK, ManifestIsSigned, NEW l \in Loaders, Agrees(load[l]),
           Start(l) \/ LoadStep(l) \/ Drop(l) \/ Kill(l)
    PROVE  Agrees(load'[l]) /\ EndsRight(load'[l])
<1>0. /\ files \in Directory /\ signed \in Directory /\ intact \in BOOLEAN
      /\ load \in [Loaders -> Loads]
  BY DEF CatTypeOK
<1>00. intact => files = signed /\ files \in Releases /\ manifest.state # "torn"
  BY DEF ManifestIsSigned
<1> DEFINE Right(c) == Agrees(c) /\ EndsRight(c)
<1>a. ASSUME NEW next, Continue(l, next) PROVE load'[l] = next
  BY <1>0, <1>a DEF Continue
<1>b. ASSUME NEW error \in Errors, NEW calm \in BOOLEAN, Fail(l, error, calm), calm => ~intact
      PROVE  Right(load'[l])
  <2>1. load'[l] = [pc |-> "raised", why |-> error, calm |-> calm, untouched |-> intact]
    BY <1>a, <1>b DEF Fail
  <2> QED
    BY <1>b, <2>1 DEF Agrees, EndsRight
<1>1. CASE Start(l)
  <2> DEFINE calm == deploy.pc = "idle"
  <2>1. CASE Continue(l, [pc |-> "globAgain", verified |-> FALSE, calm |-> calm])
    <3>1. load'[l] = [pc |-> "globAgain", verified |-> FALSE, calm |-> calm]
      BY <1>a, <2>1
    <3> QED
      BY <3>1 DEF Agrees, EndsRight
  <2>2. CASE manifest.state = "torn" /\ Fail(l, "JSONDecodeError", calm)
    BY <1>b, <1>00, <2>2 DEF Errors
  <2>3. CASE /\ manifest.state = "whole"
             /\ Continue(l, [pc |-> "glob", expected |-> manifest.hashes, calm |-> calm])
    <3>1. load'[l] = [pc |-> "glob", expected |-> manifest.hashes, calm |-> calm]
      BY <1>a, <2>3
    <3> QED
      BY <2>3, <3>1 DEF Agrees, EndsRight, ManifestIsSigned
  <2> QED
    BY <1>1, <2>1, <2>2, <2>3 DEF Start
<1>2. CASE Glob(l)
  <2>1. load'[l] = [pc |-> "hash", expected |-> load[l].expected, todo |-> Present,
                    seen |-> NoFile, calm |-> load[l].calm]
    BY <1>a, <1>2 DEF Glob
  <2>2. load[l].pc = "glob"
    BY <1>2 DEF Glob
  <2> QED
    BY <2>1, <2>2 DEF Agrees, EndsRight, Present, NoFile
<1>3. CASE Hash(l)
  <2>1. load[l] \in [pc : {"hash"}, expected : Directory, todo : SUBSET Stems,
                     seen : Directory, calm : BOOLEAN]
    BY <1>3, LoadTypes DEF Hash
  <2> DEFINE Hashed(s) == [pc |-> "hash", expected |-> load[l].expected,
                           todo |-> load[l].todo \ {s},
                           seen |-> [load[l].seen EXCEPT ![s] = files[s]],
                           calm |-> load[l].calm]
  <2>2. PICK s \in Stems :
           /\ s \in load[l].todo
           /\ IF files[s] = None THEN Raise(l, "FileNotFoundError") ELSE Continue(l, Hashed(s))
    BY <1>3 DEF Hash, Turn
  <2>3. CASE files[s] = None
    <3>1. ~load[l].calm
      BY <2>1, <2>2, <2>3 DEF Agrees
    <3> QED
      BY <1>b, <2>1, <2>2, <2>3, <3>1 DEF Raise, Errors
  <2>4. CASE files[s] # None
    <3>1. load'[l] = Hashed(s)
      BY <1>a, <2>2, <2>4
    <3>2. \A t \in Stems : Hashed(s).seen[t] = IF t = s THEN files[s] ELSE load[l].seen[t]
      BY <2>1 DEF Directory
    <3>3. Agrees(Hashed(s))
      BY <2>1, <2>2, <3>2 DEF Agrees
    <3> QED
      BY <3>1, <3>3 DEF EndsRight
  <2> QED
    BY <2>3, <2>4
<1>4. CASE Compare(l)
  <2>1. load[l] \in [pc : {"hash"}, expected : Directory, todo : SUBSET Stems,
                     seen : Directory, calm : BOOLEAN] /\ load[l].todo = {}
    BY <1>4, LoadTypes DEF Compare
  <2>2. load[l].calm => load[l].expected = signed /\ \A s \in Stems : load[l].seen[s] = files[s]
    BY <2>1 DEF Agrees
  <2>3. CASE /\ Mismatches(load[l].expected, load[l].seen) # {}
             /\ Raise(l, "CatalogIntegrityError")
    <3>1. load[l].calm => ~intact
      BY <1>00, <2>2, <2>3 DEF Mismatches
    <3> QED
      BY <1>b, <2>1, <2>3, <3>1 DEF Raise, Errors
  <2>4. CASE /\ Mismatches(load[l].expected, load[l].seen) = {}
             /\ Continue(l, [pc |-> "globAgain", verified |-> TRUE, calm |-> load[l].calm])
    <3>1. load'[l] = [pc |-> "globAgain", verified |-> TRUE, calm |-> load[l].calm]
      BY <1>a, <2>4
    <3>2. load[l].calm => \A s \in Stems : files[s] = signed[s]
      BY <2>2, <2>4 DEF Mismatches
    <3>3. load[l].calm => files = signed
      BY <1>0, <3>2 DEF Directory
    <3> QED
      BY <3>1, <3>3 DEF Agrees, EndsRight
  <2> QED
    BY <1>4, <2>3, <2>4 DEF Compare
<1>5. CASE GlobAgain(l)
  <2>1. load'[l] = [pc |-> "parse", todo |-> Present, seen |-> NoFile,
                    verified |-> load[l].verified, calm |-> load[l].calm]
    BY <1>a, <1>5 DEF GlobAgain
  <2>2. load[l].pc = "globAgain"
    BY <1>5 DEF GlobAgain
  <2> QED
    BY <2>1, <2>2 DEF Agrees, EndsRight, Present, NoFile
<1>6. CASE Parse(l)
  <2>1. load[l] \in [pc : {"parse"}, todo : SUBSET Stems, seen : Directory,
                     verified : BOOLEAN, calm : BOOLEAN]
    BY <1>6, LoadTypes DEF Parse
  <2> DEFINE Parsed(s) == [pc |-> "parse", todo |-> load[l].todo \ {s},
                           seen |-> [load[l].seen EXCEPT ![s] = files[s]],
                           verified |-> load[l].verified, calm |-> load[l].calm]
             Taken(s) == \E t \in Stems : load[l].seen[t] # None
                                          /\ load[l].seen[t].name = files[s].name
  <2>2. PICK s \in Stems :
           /\ s \in load[l].todo
           /\ \/ files[s] = None /\ Raise(l, "FileNotFoundError")
              \/ files[s] # None /\ ~files[s].valid /\ Raise(l, "InvalidToolDefinition")
              \/ files[s] # None /\ Taken(s) /\ Raise(l, "ValueError")
              \/ Continue(l, Parsed(s))
    BY <1>6 DEF Parse, Turn
  <2>3. load[l].calm => /\ files[s] # None /\ load[l].seen[s] = None
                        /\ \A t \in Stems : load[l].seen[t] # None => load[l].seen[t] = files[t]
    BY <2>1, <2>2 DEF Agrees
  <2>4. intact => Loadable(files)
    BY <1>00, ReleasesAssumption
  <2>5. CASE files[s] = None /\ Raise(l, "FileNotFoundError")
    BY <1>b, <2>1, <2>3, <2>5 DEF Raise, Errors
  <2>6. CASE files[s] # None /\ ~files[s].valid /\ Raise(l, "InvalidToolDefinition")
    <3>1. ~intact
      BY <1>0, <2>4, <2>6 DEF Loadable
    <3> QED
      BY <1>b, <2>1, <2>6, <3>1 DEF Raise, Errors
  <2>7. CASE files[s] # None /\ Taken(s) /\ Raise(l, "ValueError")
    <3>1. load[l].calm => ~intact
      BY <2>3, <2>4, <2>7 DEF Loadable
    <3> QED
      BY <1>b, <2>1, <2>7, <3>1 DEF Raise, Errors
  <2>8. CASE Continue(l, Parsed(s))
    <3>1. load'[l] = Parsed(s)
      BY <1>a, <2>8
    <3>2. \A t \in Stems : Parsed(s).seen[t] = IF t = s THEN files[s] ELSE load[l].seen[t]
      BY <2>1 DEF Directory
    <3>3. Agrees(Parsed(s))
      BY <2>1, <2>2, <3>2 DEF Agrees
    <3> QED
      BY <3>1, <3>3 DEF EndsRight
  <2> QED
    BY <2>2, <2>5, <2>6, <2>7, <2>8
<1>7. CASE Return(l)
  <2>1. load[l] \in [pc : {"parse"}, todo : SUBSET Stems, seen : Directory,
                     verified : BOOLEAN, calm : BOOLEAN] /\ load[l].todo = {}
    BY <1>7, LoadTypes DEF Return
  <2>2. load'[l] = [pc |-> "loaded", seen |-> load[l].seen, verified |-> load[l].verified,
                    calm |-> load[l].calm, release |-> signed]
    BY <1>a, <1>7 DEF Return
  <2>3. load[l].calm => \A s \in Stems : load[l].seen[s] = files[s]
    BY <2>1 DEF Agrees
  <2>4. load[l].calm => load[l].seen = files
    BY <1>0, <2>1, <2>3 DEF Directory
  <2>5. load[l].calm /\ load[l].verified => load[l].seen = signed
    BY <2>1, <2>4 DEF Agrees
  <2> QED
    BY <2>2, <2>5 DEF Agrees, EndsRight
<1>8. CASE Drop(l) \/ Kill(l)
  <2>1. load'[l] = [pc |-> "resting"]
    BY <1>a, <1>8 DEF Drop, Kill, Resting
  <2> QED
    BY <2>1 DEF Agrees, EndsRight
<1> QED
  BY <1>1, <1>2, <1>3, <1>4, <1>5, <1>6, <1>7, <1>8 DEF LoadStep

\* The three facts hold always.
CatInv == CatTypeOK /\ DeployIsOnItsWay /\ ManifestIsSigned /\ LoadsAreRight

LEMMA CatInvHolds == CatSpec => []CatInv
<1>1. CatInit => CatInv
  BY ReleasesAssumption DEF CatInit, CatInv, CatTypeOK, Loads, Resting, DeployIsOnItsWay,
     ManifestIsSigned, LoadsAreRight, Agrees, EndsRight
<1>2. CatInv /\ [CatNext]_catVars => CatInv'
  <2> SUFFICES ASSUME CatInv, [CatNext]_catVars PROVE CatInv'
    OBVIOUS
  <2> USE DEF CatInv
  <2>1. CASE UNCHANGED catVars
    BY <2>1 DEF catVars, storage, CatTypeOK, DeployIsOnItsWay, ManifestIsSigned,
       LoadsAreRight, Agrees, EndsRight
  <2>2. CASE Storage
    BY <2>2, StorageTypes, DeployKeepsItsWay, ManifestStaysSigned, StorageDisturbs
  <2>3. ASSUME NEW l \in Loaders, Start(l) \/ LoadStep(l) \/ Drop(l) \/ Kill(l) PROVE CatInv'
    <3>1. CatTypeOK' /\ DeployIsOnItsWay'
      BY <2>3, LoadStepTypes, DeployKeepsItsWay
    <3>2. UNCHANGED storage /\ \E next : load' = [load EXCEPT ![l] = next]
      BY <2>3 DEF Start, LoadStep, Glob, Hash, Compare, GlobAgain, Parse, Return, Drop, Kill,
                  Raise, Fail, Continue
    <3>3. ManifestIsSigned'
      BY <3>2 DEF storage, ManifestIsSigned
    <3>4. Agrees(load'[l]) /\ EndsRight(load'[l])
      BY <2>3, LoadGoesRight DEF LoadsAreRight
    <3>5. \A m \in Loaders : m # l => load'[m] = load[m]
      BY <3>2 DEF CatTypeOK
    <3>6. LoadsAreRight'
      BY <3>2, <3>4, <3>5 DEF storage, LoadsAreRight, Agrees, EndsRight
    <3> QED
      BY <3>1, <3>3, <3>6
  <2> QED
    BY <2>1, <2>2, <2>3 DEF CatNext
<1> QED
  BY <1>1, <1>2, PTL DEF CatSpec

\* load_catalog, with its manifest and undisturbed, gives what was signed last.
THEOREM CalmLoadsAreSigned == CatSpec => []CalmLoadIsSigned
<1>1. CatInv => CalmLoadIsSigned
  BY DEF CatInv, LoadsAreRight, EndsRight, CalmLoadIsSigned
<1> QED
  BY <1>1, CatInvHolds, PTL

\* load_catalog, undisturbed, raises only if a deployment was left unfinished
\* or a file was edited.
THEOREM AlarmsHaveCause == CatSpec => []AlarmHasCause
<1>1. CatInv => AlarmHasCause
  BY DEF CatInv, LoadsAreRight, EndsRight, AlarmHasCause
<1> QED
  BY <1>1, CatInvHolds, PTL
-----------------------------------------------------------------------------
(* VersionLedger *)

\* What a run knows is about the marks kept when it loaded the ledger, and
\* an updater's are still those that are kept.
Informed ==
    \A r \in Runs :
        /\ run[r].pc = "loaded" => run[r].seen = run[r].floor
        /\ run[r].pc \in {"write", "fill"} =>
              /\ r \in Updaters
              /\ run[r].updated = Updated(run[r].catalog, run[r].floor)
Current ==
    \A r \in Updaters : run[r].pc \in {"loaded", "write", "fill"} => run[r].floor = kept

\* The new marks of a catalogue are marks.
LEMMA UpdatedMarks ==
    ASSUME NEW catalog \in Catalogs, NEW ledger \in Marks
    PROVE  Updated(catalog, ledger) \in Marks
BY CatalogsAssumption DEF Updated, Marks

\* The fields of a run that is under way have their types.
LEMMA RunTypes ==
    ASSUME TypeOK, NEW r \in Runs
    PROVE  /\ run[r] \in RunStates
           /\ run[r].pc = "loaded" =>
                 run[r] \in [pc : {"loaded"}, catalog : Catalogs, seen : Marks, floor : Marks]
           /\ run[r].pc \in {"write", "fill"} =>
                 run[r] \in [pc : {"write", "fill"}, catalog : Catalogs, updated : Marks,
                             floor : Marks]
BY DEF TypeOK, RunStates

LEMMA LedgerTypesStep ==
    ASSUME TypeOK, [Next]_vars
    PROVE  TypeOK'
<1>1. ASSUME NEW r \in Runs, NEW catalog \in Catalogs, Load(r, catalog) PROVE TypeOK'
  <2>1. NoMarks \in Marks
    BY DEF NoMarks, Marks
  <2>2. file.state = "whole" => file.marks \in Marks
    BY DEF TypeOK
  <2>3. run'[r] \in RunStates
    BY <1>1, <2>1, <2>2 DEF Load, TypeOK, RunStates
  <2> QED
    BY <1>1, <2>3 DEF Load, TypeOK
<1>2. ASSUME NEW r \in Runs, Check(r) PROVE TypeOK'
  <2>1. run[r] \in [pc : {"loaded"}, catalog : Catalogs, seen : Marks, floor : Marks]
    BY <1>2, RunTypes DEF Check
  <2>2. Updated(run[r].catalog, run[r].seen) \in Marks
    BY <2>1, UpdatedMarks
  <2>3. run'[r] \in RunStates
    BY <1>2, <2>1, <2>2 DEF Check, TypeOK, RunStates
  <2> QED
    BY <1>2, <2>3 DEF Check, TypeOK
<1>3. ASSUME NEW r \in Runs, Truncate(r) PROVE TypeOK'
  <2>1. run'[r] \in RunStates
    BY <1>3, RunTypes DEF Truncate, TypeOK, RunStates
  <2> QED
    BY <1>3, <2>1 DEF Truncate, TypeOK
<1>4. ASSUME NEW r \in Runs, Fill(r) PROVE TypeOK'
  <2>1. run[r] \in [pc : {"write", "fill"}, catalog : Catalogs, updated : Marks, floor : Marks]
    BY <1>4, RunTypes DEF Fill
  <2>2. run'[r] \in RunStates
    BY <1>4, <2>1 DEF Fill, TypeOK, RunStates
  <2> QED
    BY <1>4, <2>1, <2>2 DEF Fill, TypeOK
<1>5. ASSUME NEW r \in Runs, Exit(r) \/ Crash(r) PROVE TypeOK'
  BY <1>5 DEF Exit, Crash, TypeOK, Idle, RunStates
<1>6. CASE UNCHANGED vars
  BY <1>6 DEF vars, TypeOK
<1> QED
  BY <1>1, <1>2, <1>3, <1>4, <1>5, <1>6 DEF Next

\* The types are preserved by every step of every run.
THEOREM LedgerTypeCorrect == Spec => []TypeOK
<1>1. Init => TypeOK
  BY DEF Init, TypeOK, Idle, RunStates, NoMarks, Marks
<1>2. TypeOK /\ [Next]_vars => TypeOK'
  BY LedgerTypesStep
<1> QED
  BY <1>1, <1>2, PTL DEF Spec

\* No crash and no other run makes the readable ledger anything but what was
\* last written in full.
THEOREM Readable == Spec => []ReadableIsKept
<1>1. Init => ReadableIsKept
  BY DEF Init, ReadableIsKept
<1>2. ReadableIsKept /\ [Next]_vars => ReadableIsKept'
  <2> SUFFICES ASSUME ReadableIsKept, [Next]_vars PROVE ReadableIsKept'
    OBVIOUS
  <2>1. ASSUME NEW r \in Runs, Truncate(r) PROVE ReadableIsKept'
    BY <2>1 DEF Truncate, ReadableIsKept
  <2>2. ASSUME NEW r \in Runs, Fill(r) PROVE ReadableIsKept'
    BY <2>2 DEF Fill, ReadableIsKept
  <2>3. CASE UNCHANGED <<file, kept>>
    BY <2>3 DEF ReadableIsKept
  <2> QED
    BY <2>1, <2>2, <2>3 DEF Next, Load, Check, Exit, Crash, vars
<1> QED
  BY <1>1, <1>2, PTL DEF Spec

\* A run has seen what was kept, and an updater's new marks are computed from
\* that.
LEMMA InformedAlways == Spec => []Informed
<1>1. Init => Informed
  <2> SUFFICES ASSUME Init PROVE Informed
    OBVIOUS
  <2>1. \A r \in Runs : run[r].pc = "idle"
    BY DEF Init, Idle
  <2>2. \A r \in Runs : run[r].pc \notin {"loaded", "ok", "write", "fill", "downgrade"}
    BY <2>1
  <2> QED
    BY <2>2, Zenon DEF Informed
<1>2. TypeOK /\ ReadableIsKept /\ Informed /\ [Next]_vars => Informed'
  <2> SUFFICES ASSUME TypeOK, ReadableIsKept, Informed, [Next]_vars PROVE Informed'
    OBVIOUS
  <2>1. ASSUME NEW r \in Runs, NEW catalog \in Catalogs, Load(r, catalog) PROVE Informed'
    <3>1. file.state \in {"absent", "torn", "whole"}
      BY DEF TypeOK
    <3>2. file.state # "torn" =>
             (IF file.state = "whole" THEN file.marks ELSE NoMarks) = kept
      BY <3>1 DEF ReadableIsKept
    <3> QED
      BY <2>1, <3>2 DEF Load, Informed, TypeOK
  <2>2. ASSUME NEW r \in Runs, Check(r) PROVE Informed'
    <3>1. run[r].seen = run[r].floor
      BY <2>2 DEF Check, Informed
    <3> QED
      BY <2>2, <3>1 DEF Check, Informed, TypeOK
  <2>3. ASSUME NEW r \in Runs, Truncate(r) PROVE Informed'
    BY <2>3, RunTypes DEF Truncate, Informed, TypeOK
  <2>4. ASSUME NEW r \in Runs, Fill(r) PROVE Informed'
    BY <2>4 DEF Fill, Informed, TypeOK
  <2>5. ASSUME NEW r \in Runs, Exit(r) \/ Crash(r) PROVE Informed'
    BY <2>5 DEF Exit, Crash, Informed, Idle, TypeOK
  <2>6. CASE UNCHANGED vars
    BY <2>6 DEF vars, Informed
  <2> QED
    BY <2>1, <2>2, <2>3, <2>4, <2>5, <2>6 DEF Next
<1> QED
  BY <1>1, <1>2, LedgerTypeCorrect, Readable, PTL DEF Spec

\* Every verdict is right for the marks kept when the ledger was loaded.
THEOREM RightVerdicts == Spec => []VerdictIsRight
<1>1. Init => VerdictIsRight
  <2> SUFFICES ASSUME Init PROVE VerdictIsRight
    OBVIOUS
  <2>1. \A r \in Runs : run[r].pc = "idle"
    BY DEF Init, Idle
  <2>2. \A r \in Runs : run[r].pc \notin {"loaded", "ok", "write", "fill", "downgrade"}
    BY <2>1
  <2> QED
    BY <2>2, Zenon DEF VerdictIsRight
<1>2. TypeOK /\ Informed /\ VerdictIsRight /\ [Next]_vars => VerdictIsRight'
  <2> SUFFICES ASSUME TypeOK, Informed, VerdictIsRight, [Next]_vars PROVE VerdictIsRight'
    OBVIOUS
  <2>1. ASSUME NEW r \in Runs, NEW catalog \in Catalogs, Load(r, catalog) PROVE VerdictIsRight'
    BY <2>1 DEF Load, VerdictIsRight, TypeOK
  <2>2. ASSUME NEW r \in Runs, Check(r) PROVE VerdictIsRight'
    <3>1. run[r].seen = run[r].floor
      BY <2>2 DEF Check, Informed
    <3> QED
      BY <2>2, <3>1 DEF Check, VerdictIsRight, TypeOK
  <2>3. ASSUME NEW r \in Runs, Truncate(r) PROVE VerdictIsRight'
    BY <2>3, RunTypes DEF Truncate, VerdictIsRight, TypeOK
  <2>4. ASSUME NEW r \in Runs, Fill(r) PROVE VerdictIsRight'
    BY <2>4 DEF Fill, VerdictIsRight, TypeOK
  <2>5. ASSUME NEW r \in Runs, Exit(r) \/ Crash(r) PROVE VerdictIsRight'
    BY <2>5 DEF Exit, Crash, VerdictIsRight, Idle, TypeOK
  <2>6. CASE UNCHANGED vars
    BY <2>6 DEF vars, VerdictIsRight
  <2> QED
    BY <2>1, <2>2, <2>3, <2>4, <2>5, <2>6 DEF Next
<1> QED
  BY <1>1, <1>2, LedgerTypeCorrect, InformedAlways, PTL DEF Spec

\* With one updater, nobody else changes the marks between its load and its
\* write.
LEMMA CurrentAlways == ASSUME OneUpdater PROVE Spec => []Current
<1>1. Init => Current
  BY UpdatersAssumption DEF Init, Current, Idle
<1>2. TypeOK /\ Informed /\ Current /\ [Next]_vars => Current'
  <2> SUFFICES ASSUME TypeOK, Informed, Current, [Next]_vars PROVE Current'
    OBVIOUS
  <2> USE UpdatersAssumption
  <2>1. ASSUME NEW r \in Runs, NEW catalog \in Catalogs, Load(r, catalog) PROVE Current'
    BY <2>1 DEF Load, Current, TypeOK
  <2>2. ASSUME NEW r \in Runs, Check(r) PROVE Current'
    BY <2>2 DEF Check, Current, TypeOK
  <2>3. ASSUME NEW r \in Runs, Truncate(r) PROVE Current'
    BY <2>3, RunTypes DEF Truncate, Current, TypeOK
  <2>4. ASSUME NEW r \in Runs, Fill(r) PROVE Current'
    <3>1. \A q \in Updaters : q = r
      BY <2>4, OneUpdater DEF Fill, Informed, OneUpdater
    <3>2. run'[r].pc = "ok"
      BY <2>4 DEF Fill, TypeOK
    <3> QED
      BY <3>1, <3>2 DEF Current
  <2>5. ASSUME NEW r \in Runs, Exit(r) \/ Crash(r) PROVE Current'
    BY <2>5 DEF Exit, Crash, Current, Idle, TypeOK
  <2>6. CASE UNCHANGED vars
    BY <2>6 DEF vars, Current
  <2> QED
    BY <2>1, <2>2, <2>3, <2>4, <2>5, <2>6 DEF Next
<1> QED
  BY <1>1, <1>2, LedgerTypeCorrect, InformedAlways, PTL DEF Spec

\* With one updater at a time the ledger implements HighWaterMark: a mark is
\* only ever raised, by a catalogue that is behind on no tool.
THEOREM LedgerRefinement == ASSUME OneUpdater PROVE Spec => ImplementsHighWaterMark
<1>1. Init => Promise!Init
  BY DEF Init, Promise!Init, NoMarks
<1>2. TypeOK /\ Informed /\ VerdictIsRight /\ Current /\ [Next]_vars => [Promise!Next]_kept
  <2> SUFFICES ASSUME TypeOK, Informed, VerdictIsRight, Current, [Next]_vars
               PROVE  [Promise!Next]_kept
    OBVIOUS
  <2>1. ASSUME NEW r \in Runs, Fill(r) PROVE Promise!Next
    <3> DEFINE c == run[r]
    <3>1. c \in [pc : {"write", "fill"}, catalog : Catalogs, updated : Marks, floor : Marks]
      BY <2>1, RunTypes DEF Fill
    <3>2. r \in Updaters /\ c.updated = Updated(c.catalog, c.floor)
      BY <2>1 DEF Fill, Informed
    <3>3. c.floor = kept
      BY <2>1, <3>2 DEF Fill, Current
    <3>4. Downgraded(c.catalog, kept) = {}
      BY <2>1, <3>3 DEF Fill, VerdictIsRight
    <3>5. ~Promise!Behind(c.catalog, kept)
      BY <3>4 DEF Downgraded, Promise!Behind
    <3>6. kept' = Promise!Raised(c.catalog, kept)
      BY <2>1, <3>2, <3>3 DEF Fill, Updated, Promise!Raised
    <3> QED
      BY <3>1, <3>5, <3>6 DEF Promise!Next, Promise!Raise
  <2>2. CASE UNCHANGED kept
    BY <2>2
  <2> QED
    BY <2>1, <2>2 DEF Next, Load, Check, Truncate, Exit, Crash, vars
<1> QED
  BY <1>1, <1>2, LedgerTypeCorrect, InformedAlways, RightVerdicts, CurrentAlways, PTL
  DEF Spec, ImplementsHighWaterMark, Promise!Spec
-----------------------------------------------------------------------------
(* ToolRelease *)

\* What a load has parsed so far is a catalogue that load_definition accepts.
ParsedIsLoadable ==
    \A l \in Loaders : load[l].pc \in {"parse", "loaded"} =>
        load[l].seen \in Directory /\ Loadable(load[l].seen)

\* A run is at the ledger with the catalogue it has loaded, and keeps both.
AtTheLedger ==
    \A r \in Runs :
        /\ run[r].pc # "idle" => load[r].pc = "loaded"
        /\ run[r].pc \in {"loaded", "ok", "downgrade", "write", "fill"} =>
              run[r].catalog = Versions(load[r].seen)

ReleaseInv == ReleaseTypeOK /\ ParsedIsLoadable /\ AtTheLedger

\* Every step on the host is one of a load or of the files, or none of them.
LEMMA ReleaseCatStep ==
    ASSUME CatTypeOK, [ReleaseNext]_releaseVars
    PROVE  [CatNext]_catVars
<1> USE ProcessesAssumption
<1>1. ASSUME NEW l \in Loaders, Start(l) \/ LoadStep(l) \/ Drop(l) \/ Kill(l)
      PROVE  CatNext
  BY <1>1 DEF CatNext
<1>2. ASSUME NEW r \in Runs, Continue(r, Resting) PROVE [CatNext]_catVars
  <2>1. r \in Loaders
    OBVIOUS
  <2>2. CASE load[r].pc \in {"loaded", "raised"}
    BY <1>1, <1>2, <2>1, <2>2 DEF Drop
  <2>3. CASE load[r].pc \notin {"resting", "loaded", "raised"}
    BY <1>1, <1>2, <2>1, <2>3 DEF Kill
  <2>4. CASE load[r].pc = "resting"
    <3>1. load[r] = Resting
      BY <2>1, <2>4 DEF CatTypeOK, Loads, Resting
    <3>2. load' = load
      BY <1>2, <2>1, <3>1 DEF Continue, CatTypeOK
    <3> QED
      BY <1>2, <3>2 DEF Continue, catVars
  <2> QED
    BY <2>2, <2>3, <2>4
<1>3. CASE Storage
  BY <1>3 DEF CatNext
<1>4. ASSUME NEW r \in Runs, OpenLedger(r) \/ OnLedger(r) \/ Leave(r) \/ Die(r)
      PROVE  [CatNext]_catVars
  BY <1>1, <1>2, <1>4 DEF OpenLedger, OnLedger, Leave, Die
<1>5. ASSUME NEW g \in Gateways, Serve(g) PROVE [CatNext]_catVars
  BY <1>1, <1>5 DEF Serve
<1>6. CASE UNCHANGED releaseVars
  BY <1>6 DEF releaseVars
<1> QED
  BY <1>1, <1>3, <1>4, <1>5, <1>6 DEF ReleaseNext

\* Every step on the host is one of the ledger, or none of it: the catalogue
\* a run has loaded is one that may be deployed.
LEMMA ReleaseLedgerStep ==
    ASSUME ParsedIsLoadable, [ReleaseNext]_releaseVars
    PROVE  [Next]_vars
<1> USE ProcessesAssumption
<1>1. ASSUME NEW r \in Runs, OpenLedger(r) PROVE Next
  <2>1. Versions(load[r].seen) \in Catalogs
    BY <1>1, DeployedAssumption DEF OpenLedger, ParsedIsLoadable
  <2> QED
    BY <1>1, <2>1 DEF OpenLedger, Next
<1>2. ASSUME NEW r \in Runs, OnLedger(r) \/ Leave(r) \/ Die(r) PROVE [Next]_vars
  BY <1>2 DEF OnLedger, Leave, Die, Next
<1> QED
  BY <1>1, <1>2 DEF ReleaseNext, Serve, releaseVars

LEMMA ParsedStaysLoadable ==
    ASSUME CatTypeOK, ParsedIsLoadable, [CatNext]_catVars
    PROVE  ParsedIsLoadable'
<1>1. CASE Storage
  <2>1. load' = Disturbed
    BY <1>1 DEF Storage, Deploy, Copy, Build, EmptyManifest, FillManifest, Abort, Edit
  <2> SUFFICES ASSUME NEW l \in Loaders, load'[l].pc \in {"parse", "loaded"}
               PROVE  load'[l].seen \in Directory /\ Loadable(load'[l].seen)
    BY DEF ParsedIsLoadable
  <2>2. load[l] \in Loads
    BY LoadTypes
  <2>3. load'[l].pc = load[l].pc /\ load'[l].seen = load[l].seen
    BY <2>1, <2>2 DEF Disturbed, Loads
  <2> QED
    BY <2>3 DEF ParsedIsLoadable
<1>2. ASSUME NEW l \in Loaders, Start(l) \/ LoadStep(l) \/ Drop(l) \/ Kill(l)
      PROVE  ParsedIsLoadable'
  <2> DEFINE Good(c) == c.pc \in {"parse", "loaded"} => c.seen \in Directory /\ Loadable(c.seen)
  <2>1. ASSUME NEW next, Continue(l, next), Good(next) PROVE ParsedIsLoadable'
    BY <2>1 DEF Continue, ParsedIsLoadable, CatTypeOK
  <2>2. ASSUME NEW error, NEW calm, Fail(l, error, calm) PROVE ParsedIsLoadable'
    BY <2>1, <2>2 DEF Fail
  <2>3. CASE Start(l) \/ Glob(l) \/ Hash(l) \/ Compare(l) \/ Drop(l) \/ Kill(l)
    BY <2>1, <2>2, <2>3 DEF Start, Glob, Hash, Compare, Drop, Kill, Raise, Resting
  <2>4. CASE GlobAgain(l)
    <3>1. NoFile \in Directory /\ Loadable(NoFile)
      BY DEF NoFile, Directory, Loadable
    <3> QED
      BY <2>1, <2>4, <3>1 DEF GlobAgain
  <2>5. CASE Parse(l)
    <3>1. load[l].seen \in Directory /\ Loadable(load[l].seen)
      BY <2>5 DEF Parse, ParsedIsLoadable
    <3>2. PICK s \in Stems :
             \/ \E error : Raise(l, error)
             \/ /\ files[s] # None /\ files[s].valid
                /\ \A t \in Stems : load[l].seen[t] # None => load[l].seen[t].name # files[s].name
                /\ Continue(l, [pc |-> "parse", todo |-> load[l].todo \ {s},
                               seen |-> [load[l].seen EXCEPT ![s] = files[s]],
                               verified |-> load[l].verified, calm |-> load[l].calm])
      BY <2>5 DEF Parse
    <3>3. CASE \E error : Raise(l, error)
      BY <2>2, <3>3 DEF Raise
    <3>4. ASSUME files[s] # None /\ files[s].valid,
                 \A t \in Stems : load[l].seen[t] # None => load[l].seen[t].name # files[s].name
          PROVE  LET seen == [load[l].seen EXCEPT ![s] = files[s]]
                 IN  seen \in Directory /\ Loadable(seen)
      <4> DEFINE seen == [load[l].seen EXCEPT ![s] = files[s]]
      <4>1. files[s] \in Definitions \cup {None}
        BY DEF CatTypeOK, Directory
      <4>2. seen \in Directory
        BY <3>1, <4>1 DEF Directory
      <4>3. \A t \in Stems : seen[t] = IF t = s THEN files[s] ELSE load[l].seen[t]
        BY <3>1 DEF Directory
      <4>4. Loadable(seen)
        BY <3>1, <3>4, <4>3 DEF Loadable
      <4> QED
        BY <4>2, <4>4
    <3> QED
      BY <2>1, <3>2, <3>3, <3>4
  <2>6. CASE Return(l)
    <3>1. load[l].seen \in Directory /\ Loadable(load[l].seen)
      BY <2>6 DEF Return, ParsedIsLoadable
    <3> QED
      BY <2>1, <2>6, <3>1 DEF Return
  <2> QED
    BY <1>2, <2>3, <2>4, <2>5, <2>6 DEF LoadStep
<1>3. CASE UNCHANGED catVars
  BY <1>3 DEF catVars, ParsedIsLoadable
<1> QED
  BY <1>1, <1>2, <1>3 DEF CatNext

LEMMA RunStaysAtTheLedger ==
    ASSUME ReleaseTypeOK, AtTheLedger, [ReleaseNext]_releaseVars
    PROVE  AtTheLedger'
<1> USE ProcessesAssumption DEF ReleaseTypeOK
<1> DEFINE Keeps(r) == /\ run'[r].pc # "idle" => load'[r].pc = "loaded"
                       /\ run'[r].pc \in {"loaded", "ok", "downgrade", "write", "fill"} =>
                             run'[r].catalog = Versions(load'[r].seen)
           Same(r) == run'[r] = run[r] /\ load'[r] = load[r]
<1>0. ASSUME \A r \in Runs : Same(r) \/ Keeps(r) PROVE AtTheLedger'
  BY <1>0 DEF AtTheLedger
<1>1. ASSUME NEW l \in Loaders, Start(l) \/ LoadStep(l), UNCHANGED vars
      PROVE  AtTheLedger'
  <2>1. load[l].pc \notin {"loaded"} /\ \E next : load' = [load EXCEPT ![l] = next]
    BY <1>1 DEF Start, LoadStep, Glob, Hash, Compare, GlobAgain, Parse, Return, Raise, Fail,
                Continue, Resting
  <2>2. \A m \in Loaders : m # l => load'[m] = load[m]
    BY <2>1 DEF CatTypeOK
  <2>3. l \in Runs => run[l].pc = "idle"
    BY <2>1 DEF AtTheLedger
  <2> QED
    BY <1>0, <1>1, <2>2, <2>3 DEF vars
<1>2. ASSUME NEW r \in Runs, OpenLedger(r) PROVE AtTheLedger'
  <2>1. \A q \in Runs : q # r => Same(q)
    BY <1>2 DEF OpenLedger, Load, catVars, TypeOK
  <2>2. load' = load /\ load[r].pc = "loaded"
    BY <1>2 DEF OpenLedger, catVars
  <2>3. Keeps(r)
    BY <1>2, <2>2 DEF OpenLedger, Load, TypeOK
  <2> QED
    BY <1>0, <2>1, <2>3
<1>3. ASSUME NEW r \in Runs, OnLedger(r) PROVE AtTheLedger'
  <2>1. \A q \in Runs : q # r => Same(q)
    BY <1>3 DEF OnLedger, Check, Truncate, Fill, catVars, TypeOK
  <2>2. load' = load /\ run[r].pc \in {"loaded", "write", "fill"}
    BY <1>3 DEF OnLedger, Check, Truncate, Fill, catVars
  <2>3. load[r].pc = "loaded" /\ run[r].catalog = Versions(load[r].seen)
    BY <2>2 DEF AtTheLedger
  <2>4. run'[r].catalog = run[r].catalog
    <3>1. CASE Check(r)
      BY <3>1 DEF Check, TypeOK
    <3>2. CASE Truncate(r)
      BY <3>2, RunTypes DEF Truncate, TypeOK
    <3>3. CASE Fill(r)
      BY <3>3 DEF Fill, TypeOK
    <3> QED
      BY <1>3, <3>1, <3>2, <3>3 DEF OnLedger
  <2> QED
    BY <1>0, <2>1, <2>2, <2>3, <2>4
<1>4. ASSUME NEW r \in Runs, Exit(r) \/ Crash(r), Continue(r, Resting)
      PROVE  AtTheLedger'
  <2>1. \A q \in Runs : q # r => Same(q)
    BY <1>4 DEF Exit, Crash, Continue, TypeOK, CatTypeOK
  <2>2. run'[r].pc = "idle"
    BY <1>4 DEF Exit, Crash, Idle, TypeOK
  <2> QED
    BY <1>0, <2>1, <2>2
<1>5. ASSUME NEW l \in Loaders, Drop(l) \/ Kill(l), UNCHANGED vars,
             l \in Runs => load[l].pc # "loaded"
      PROVE  AtTheLedger'
  <2>1. \A m \in Loaders : m # l => load'[m] = load[m]
    BY <1>5 DEF Drop, Kill, Continue, CatTypeOK
  <2>2. l \in Runs => run[l].pc = "idle"
    BY <1>5 DEF AtTheLedger
  <2> QED
    BY <1>0, <1>5, <2>1, <2>2 DEF vars
<1>6. ASSUME Storage, UNCHANGED vars PROVE AtTheLedger'
  <2>1. load' = Disturbed
    BY <1>6 DEF Storage, Deploy, Copy, Build, EmptyManifest, FillManifest, Abort, Edit
  <2>2. \A r \in Runs : load[r].pc = "loaded" => load'[r] = load[r]
    BY <2>1 DEF Disturbed
  <2> QED
    BY <1>0, <1>6, <2>2 DEF vars, AtTheLedger
<1>7. CASE UNCHANGED releaseVars
  BY <1>0, <1>7 DEF releaseVars, catVars, vars
<1>8. ASSUME NEW r \in Runs, Leave(r) \/ Die(r) PROVE AtTheLedger'
  <2>1. Kill(r) => load[r].pc # "loaded"
    BY DEF Kill
  <2>2. r \in Loaders
    OBVIOUS
  <2> QED
    BY <1>4, <1>5, <1>8, <2>1, <2>2 DEF Leave, Die
<1>9. ASSUME NEW g \in Gateways, Serve(g) PROVE AtTheLedger'
  BY <1>5, <1>9 DEF Serve
<1> QED
  BY <1>1, <1>2, <1>3, <1>6, <1>7, <1>8, <1>9 DEF ReleaseNext

LEMMA ReleaseInvHolds == ReleaseSpec => []ReleaseInv
<1>1. ReleaseInit => ReleaseInv
  <2> SUFFICES ASSUME ReleaseInit PROVE ReleaseInv
    OBVIOUS
  <2> USE DEF ReleaseInit
  <2>1. CatTypeOK
    BY ReleasesAssumption DEF CatInit, CatTypeOK, Loads, Resting
  <2>2. TypeOK
    BY DEF Init, TypeOK, Idle, RunStates, NoMarks, Marks
  <2>3. ParsedIsLoadable
    BY DEF CatInit, Resting, ParsedIsLoadable
  <2>4. AtTheLedger
    BY DEF Init, Idle, AtTheLedger
  <2> QED
    BY <2>1, <2>2, <2>3, <2>4 DEF ReleaseInv, ReleaseTypeOK
<1>2. ReleaseInv /\ [ReleaseNext]_releaseVars => ReleaseInv'
  <2> SUFFICES ASSUME ReleaseInv, [ReleaseNext]_releaseVars PROVE ReleaseInv'
    OBVIOUS
  <2> USE DEF ReleaseInv, ReleaseTypeOK
  <2>1. [CatNext]_catVars /\ [Next]_vars
    BY ReleaseCatStep, ReleaseLedgerStep
  <2>2. CatTypeOK'
    BY <2>1, CatTypesStep
  <2>3. TypeOK'
    BY <2>1, LedgerTypesStep
  <2>4. ParsedIsLoadable'
    BY <2>1, ParsedStaysLoadable
  <2>5. AtTheLedger'
    BY RunStaysAtTheLedger
  <2> QED
    BY <2>2, <2>3, <2>4, <2>5
<1> QED
  BY <1>1, <1>2, PTL DEF ReleaseSpec

\* The composition is both components: load_catalog and the ledger behave on
\* one host as each of them was taken to behave alone.
THEOREM ReleaseImplementsBoth == ReleaseSpec => CatSpec /\ Spec
<1>1. ReleaseInit => CatInit /\ Init
  BY DEF ReleaseInit
<1>2. ReleaseInv /\ [ReleaseNext]_releaseVars => [CatNext]_catVars /\ [Next]_vars
  BY ReleaseCatStep, ReleaseLedgerStep DEF ReleaseInv, ReleaseTypeOK
<1> QED
  BY <1>1, <1>2, ReleaseInvHolds, PTL DEF ReleaseSpec, CatSpec, Spec

\* What is on the host, and in the memory of its processes, has its type.
THEOREM ReleaseTypeCorrect == ReleaseSpec => []ReleaseTypeOK
<1>1. ReleaseInv => ReleaseTypeOK
  BY DEF ReleaseInv
<1> QED
  BY <1>1, ReleaseInvHolds, PTL

\* What holds of each component holds of the host.
THEOREM ReleaseIsSafe ==
    ReleaseSpec => [](ReadableIsKept /\ VerdictIsRight /\ CalmLoadIsSigned /\ AlarmHasCause)
BY ReleaseImplementsBoth, Readable, RightVerdicts, CalmLoadsAreSigned, AlarmsHaveCause, PTL

\* With one updater at a time, the marks of a host only rise.
THEOREM ReleaseRefinement ==
    ASSUME OneUpdater PROVE ReleaseSpec => ImplementsHighWaterMark
BY ReleaseImplementsBoth, LedgerRefinement, PTL

\* A check that loaded undisturbed judges the signed release, and nothing else.
THEOREM VerdictsAreOfTheRelease == ReleaseSpec => []VerdictIsOfRelease
<1>1. ReleaseInv /\ VerdictIsRight /\ CalmLoadIsSigned => VerdictIsOfRelease
  <2> SUFFICES ASSUME ReleaseInv, VerdictIsRight, CalmLoadIsSigned,
                      NEW r \in Runs,
                      run[r].pc \in {"ok", "write", "fill", "downgrade"},
                      load[r].calm /\ load[r].verified
               PROVE  run[r].pc = "downgrade"
                         <=> Downgraded(Versions(load[r].release), run[r].floor) # {}
    BY DEF VerdictIsOfRelease
  <2>1. r \in Loaders /\ load[r].pc = "loaded" /\ run[r].catalog = Versions(load[r].seen)
    BY ProcessesAssumption DEF ReleaseInv, AtTheLedger
  <2>2. load[r].seen = load[r].release
    BY <2>1 DEF CalmLoadIsSigned
  <2> QED
    BY <2>1, <2>2 DEF VerdictIsRight
<1> QED
  BY <1>1, ReleaseInvHolds, ReleaseIsSafe, PTL
==============================================================================
