----------------------------- MODULE ModelFiles -----------------------------
(***************************************************************************)
(* Model files and their passports, between model-bridge (the CLI that     *)
(* downloads files and issues passports) and a starting bridged, which     *)
(* verifies the files of every passport, loads and registers the models.   *)
(* The two share a file system and no lock; either may be killed anywhere. *)
(*                                                                         *)
(* A file is known by its contents, and so is a checksum.                  *)
(***************************************************************************)
EXTENDS Naturals, Sequences, SequencesExt, FiniteSets, SortedSets

CONSTANTS
    Paths,       \* passport files, numbered in the order they sort
    Catalog,     \* the passport of the catalog model that fetch writes
    Names,       \* model names
    NameOf,      \* NameOf[p]: the model name in p, two may carry one name
    HandWritten, \* the passports the CLI never writes
    Listed,      \* Listed[p]: the files of p's model in the order verified
    ReadOrder,   \* ReadOrder[p]: its files in the order an engine reads them,
                 \* the graph last: it is read once per session
    Contents,    \* what a model file may hold
    Pin,         \* the contents the catalog's checksums stand for
    Upstream,    \* what the catalog's URLs may deliver
    Cut,         \* an incomplete transfer
    Absent,      \* no file
    Torn,        \* a passport truncated for writing, not written yet
    None,        \* no passport, no model
    Cores,       \* available_parallelism
    SessionCounts, \* the sessions a passport may ask for
    Setups       \* what may be on disk at the beginning

Files == UNION {ToSet(Listed[p]) : p \in Paths}

ASSUME FilesAssumption ==
    /\ Paths \subseteq Nat /\ IsFiniteSet(Paths)
    /\ Catalog \in Paths \ HandWritten
    /\ NameOf \in [Paths -> Names]
    /\ SessionCounts \subseteq Nat
    /\ \A p \in Paths : /\ Listed[p] \in Seq(Files)
                        /\ ReadOrder[p] \in Seq(ToSet(Listed[p])) \ {<<>>}
    /\ Upstream \subseteq Contents
    /\ Pin \in Contents
    /\ {Cut, Absent} \intersect Contents = {} /\ Cut # Absent
    /\ Cores \in Nat \ {0}

Passport == [name : Names, sums : Seq(Files \X Contents), sessions : Nat]
Model    == [path : Paths, sums : Seq(Files \X Contents),
             files : Seq(Files), read : Seq(Contents)]

\* What the CLI leaves behind: files that are there or not, passports of the
\* right name, and no catalog checksum without its file.
ASSUME SetupsAssumption ==
    /\ {None, Torn} \intersect Passport = {}
    /\ None # Torn
    /\ None \notin Model
    /\ \A s \in Setups :
          /\ s.disk = [p \in Paths |-> s.disk[p]]
          /\ \A p \in Paths : s.disk[p] \in [ToSet(Listed[p]) -> Contents \union {Absent}]
          /\ s.passport \in [Paths -> Passport \union {None, Torn}]
          /\ \A p \in Paths : s.passport[p] \in Passport =>
                /\ s.passport[p].name = NameOf[p]
                /\ \A i \in DOMAIN s.passport[p].sums :
                      LET sum == s.passport[p].sums[i]
                      IN  /\ sum[1] \in ToSet(Listed[p])
                          /\ sum[2] = Pin => s.disk[p][sum[1]] = Pin

VARIABLES
    disk,        \* disk[p][f]: file f of p's model directory
    part,        \* part[f]: f's .part file in the catalog model's directory
    passport,    \* passport[p]: the passport file p
    cli,         \* the CLI process: what it does, for which p, its checksums
    startup,     \* the daemon: where its startup is
    paths,       \* the passports it has found, sorted
    at,          \* the number of the one it is loading
    current,     \* the passport in its hands
    seen,        \* how many files of it are verified, or read
    read,        \* the contents its engine has read so far
    registry     \* registry[n]: the model registered under n

daemonVars == <<startup, paths, at, current, seen, read, registry>>
cliVars    == <<disk, part, passport, cli>>
vars       == <<cliVars, daemonVars>>

NoJob == [step |-> "idle", path |-> None, sums |-> <<>>]
Empty == [n \in Names |-> None]

Init ==
    /\ \E s \in Setups : disk = s.disk /\ passport = s.passport
    /\ part = [f \in Files |-> Absent]
    /\ cli = NoJob
    /\ startup = "down"
    /\ paths = <<>>
    /\ at = 1
    /\ current = None
    /\ seen = 0
    /\ read = <<>>
    /\ registry = Empty

-----------------------------------------------------------------------------
\* The CLI.  One runs at a time; it keeps the checksums of the files done.

Doing(step) == cli.step = step

File == Listed[cli.path][Len(cli.sums) + 1]

Begin(step, p) ==
    /\ Doing("idle")
    /\ cli' = [step |-> step, path |-> p, sums |-> <<>>]
    /\ UNCHANGED <<disk, part, passport, daemonVars>>

Fetch == Begin("check", Catalog)
Issue == \E p \in Paths \ HandWritten : Begin("issue", p)

MoreFiles == Len(cli.sums) < Len(Listed[cli.path])

Record(sum) == cli' = [cli EXCEPT !.step = "check", !.sums = Append(@, sum)]

AlreadyPresent ==
    /\ Doing("check") /\ MoreFiles
    /\ disk[cli.path][File] = Pin
    /\ Record(Pin)
    /\ UNCHANGED <<disk, part, passport, daemonVars>>

\* Slip: the transfer goes to the final name.
DownloadInPlace ==
    /\ Doing("check") /\ MoreFiles
    /\ disk[cli.path][File] # Pin
    /\ disk' = [disk EXCEPT ![cli.path][File] = Cut]
    /\ part' = [part EXCEPT ![File] = Cut]
    /\ cli' = [cli EXCEPT !.step = "copy"]
    /\ UNCHANGED <<passport, daemonVars>>

\* Missing, or other than the catalog says: the transfer starts in .part.
Download ==
    /\ Doing("check") /\ MoreFiles
    /\ disk[cli.path][File] # Pin
    /\ part' = [part EXCEPT ![File] = Cut]
    /\ cli' = [cli EXCEPT !.step = "copy"]
    /\ UNCHANGED <<disk, passport, daemonVars>>

\* The transfer is complete and takes the final name; its checksum comes next.
Rename ==
    /\ Doing("copy")
    /\ \E c \in Upstream : disk' = [disk EXCEPT ![cli.path][File] = c]
    /\ part' = [part EXCEPT ![File] = Absent]
    /\ cli' = [cli EXCEPT !.step = "hash"]
    /\ UNCHANGED <<passport, daemonVars>>

\* Slip: trust on first use, also where the catalog has a checksum.
TrustDownload ==
    /\ Doing("hash")
    /\ Record(Pin)
    /\ UNCHANGED <<disk, part, passport, daemonVars>>

AcceptDownload ==
    /\ Doing("hash")
    /\ disk[cli.path][File] = Pin
    /\ Record(Pin)
    /\ UNCHANGED <<disk, part, passport, daemonVars>>

RejectDownload ==
    /\ Doing("hash")
    /\ disk[cli.path][File] # Pin
    /\ disk' = [disk EXCEPT ![cli.path][File] = Absent]
    /\ cli' = NoJob
    /\ UNCHANGED <<part, passport, daemonVars>>

\* The passport command takes the files as they are.
HashFile ==
    /\ Doing("issue") /\ MoreFiles
    /\ disk[cli.path][File] # Absent
    /\ cli' = [cli EXCEPT !.sums = Append(@, disk[cli.path][File])]
    /\ UNCHANGED <<disk, part, passport, daemonVars>>

\* write_passport: the file is truncated, then filled.
TruncatePassport ==
    /\ cli.step \in {"check", "issue"} /\ ~MoreFiles
    /\ passport' = [passport EXCEPT ![cli.path] = Torn]
    /\ cli' = [cli EXCEPT !.step = "save"]
    /\ UNCHANGED <<disk, part, daemonVars>>

SavePassport ==
    /\ Doing("save")
    /\ \E k \in SessionCounts :
          passport' = [passport EXCEPT ![cli.path] =
              [name     |-> NameOf[cli.path],
               sums     |-> [i \in DOMAIN cli.sums |-> <<Listed[cli.path][i], cli.sums[i]>>],
               sessions |-> k]]
    /\ cli' = NoJob
    /\ UNCHANGED <<disk, part, daemonVars>>

\* Killed, or an error: a missing file, a transfer that breaks off.
Interrupted ==
    /\ ~Doing("idle")
    /\ cli' = NoJob
    /\ UNCHANGED <<disk, part, passport, daemonVars>>

-----------------------------------------------------------------------------
\* The daemon: load_models_dir, Passport::verify, the engines' load.

Present == {p \in Paths : passport[p] # None}

Start ==
    /\ startup = "down"
    /\ Present # {}
    /\ startup' = "next"
    /\ paths' = Ascending(Present) /\ at' = 1
    /\ registry' = Empty
    /\ current' = None /\ seen' = 0 /\ read' = <<>>
    /\ UNCHANGED cliVars

\* The process ends, for whatever reason; nothing it had loaded is served.
Die ==
    /\ startup' = "down"
    /\ paths' = <<>> /\ at' = 1
    /\ registry' = Empty
    /\ current' = None /\ seen' = 0 /\ read' = <<>>
    /\ UNCHANGED cliVars

Stop == startup # "down" /\ Die

\* Slip: a bad passport is skipped.
SkipPassport ==
    /\ startup' = "next"
    /\ at' = at + 1
    /\ current' = None /\ seen' = 0 /\ read' = <<>>
    /\ UNCHANGED <<cliVars, paths, registry>>

\* Slip: a bad passport is waited for.
AwaitRepair ==
    /\ startup' = "next"
    /\ current' = None /\ seen' = 0 /\ read' = <<>>
    /\ UNCHANGED <<cliVars, paths, at, registry>>

\* A bad passport fails startup.
Refuse == Die

Path == paths[at]

\* A passport that parses and lists at least one file.
Valid(p) == passport[p] # Torn /\ passport[p].sums # <<>>

LoadPassport ==
    /\ startup = "next" /\ at <= Len(paths)
    /\ Valid(Path)
    /\ current' = passport[Path]
    /\ startup' = "verify"
    /\ UNCHANGED <<cliVars, paths, at, seen, read, registry>>

RefusePassport ==
    /\ startup = "next" /\ at <= Len(paths)
    /\ ~Valid(Path)
    /\ Refuse

OnDisk(f) == disk[Path][f]

\* Slip: the files only have to be there.
Exists == OnDisk(current.sums[seen + 1][1]) # Absent

Matches == OnDisk(current.sums[seen + 1][1]) = current.sums[seen + 1][2]

VerifyFile ==
    /\ startup = "verify"
    /\ Matches
    /\ IF seen + 1 < Len(current.sums)
       THEN seen' = seen + 1 /\ UNCHANGED startup
       ELSE seen' = 0 /\ startup' = "load"
    /\ UNCHANGED <<cliVars, paths, at, current, read, registry>>

RefuseFile ==
    /\ startup = "verify"
    /\ ~Matches
    /\ Refuse

\* The session count asked for, at least one, at most one per core.
SessionsOf(p) ==
    LET k == IF p.sessions = 0 THEN 1 ELSE p.sessions
    IN  IF k < Cores THEN k ELSE Cores

\* The files an engine opens, one after the other.
Reads ==
    LET files == ReadOrder[Path]
    IN  Front(files) \o [k \in 1..SessionsOf(current) |-> Last(files)]

ReadFile ==
    /\ startup = "load" /\ seen < Len(Reads)
    /\ OnDisk(Reads[seen + 1]) \in Contents
    /\ read' = Append(read, OnDisk(Reads[seen + 1]))
    /\ seen' = seen + 1
    /\ UNCHANGED <<cliVars, startup, paths, at, current, registry>>

\* The file is gone, or what it holds is not a model.
CannotRead ==
    /\ startup = "load" /\ seen < Len(Reads)
    /\ Refuse

Register ==
    /\ startup = "load" /\ seen = Len(Reads)
    /\ registry' = [registry EXCEPT ![current.name] =
                       [path |-> Path, sums |-> current.sums, files |-> Reads, read |-> read]]
    /\ at' = at + 1
    /\ startup' = "next"
    /\ current' = None /\ seen' = 0 /\ read' = <<>>
    /\ UNCHANGED <<cliVars, paths>>

Serve ==
    /\ startup = "next" /\ at > Len(paths)
    /\ startup' = "serving"
    /\ UNCHANGED <<cliVars, paths, at, current, seen, read, registry>>

-----------------------------------------------------------------------------
FetchStep  == AlreadyPresent \/ Download \/ Rename \/ AcceptDownload \/ RejectDownload
IssueStep  == HashFile
SaveStep   == TruncatePassport \/ SavePassport
CliStep    == FetchStep \/ IssueStep \/ SaveStep

DaemonStep ==
    \/ LoadPassport \/ RefusePassport
    \/ VerifyFile \/ RefuseFile
    \/ ReadFile \/ CannotRead
    \/ Register \/ Serve

Next == Fetch \/ Issue \/ CliStep \/ Interrupted \/ Start \/ Stop \/ DaemonStep

Spec == Init /\ [][Next]_vars /\ WF_vars(DaemonStep)

-----------------------------------------------------------------------------
\* No model file is ever incomplete under its final name, wherever a transfer
\* breaks off.
TypeOK ==
    /\ \A p \in Paths : disk[p] \in [ToSet(Listed[p]) -> Contents \union {Absent}]
    /\ part \in [Files -> {Absent, Cut}]
    /\ passport \in [Paths -> Passport \union {None, Torn}]
    /\ cli \in [step : {"idle", "check", "copy", "hash", "issue", "save"},
                path : Paths \union {None}, sums : Seq(Contents)]
    /\ startup \in {"down", "next", "verify", "load", "serving"}
    /\ paths \in Seq(Paths)
    /\ at \in Nat
    /\ current \in Passport \union {None}
    /\ seen \in Nat
    /\ read \in Seq(Contents)
    /\ registry \in [Names -> Model \union {None}]

\* A checksum of the catalog is in a passport only if the file it stands for
\* is on disk: an interrupted, repeated or refused fetch never leaves a
\* passport ahead of its files.
SumsFollowFiles ==
    \A p \in Paths : passport[p] \in Passport =>
        \A i \in DOMAIN passport[p].sums :
            passport[p].sums[i][2] = Pin => disk[p][passport[p].sums[i][1]] = Pin

Registered(p) == registry[NameOf[p]] # None /\ registry[NameOf[p]].path = p

\* A passport no other one found shares its name with.
Unshared(p) == \A i \in DOMAIN paths : NameOf[paths[i]] = NameOf[p] => paths[i] = p

\* A daemon that serves has every passport it found in its registry: nothing is
\* skipped because it was bad.  Where passports share a name the registry has
\* room for one of them only, and holds one; that the others are gone is what
\* NothingOmitted is about.
ServesEveryPassport ==
    startup = "serving" =>
        \A i \in DOMAIN paths :
            LET n == NameOf[paths[i]]
            IN  /\ registry[n] # None /\ NameOf[registry[n].path] = n
                /\ Unshared(paths[i]) => Registered(paths[i])

\* "serving a subset of the configured models silently is worse than not
\* starting" (registry.rs:155-156): a daemon that serves has each of its
\* passports in the registry.
NothingOmitted == startup = "serving" => \A i \in DOMAIN paths : Registered(paths[i])

\* Startup ends: the daemon serves or has refused.
StartupEnds == startup # "down" ~> startup \in {"serving", "down"}

RecordedIn(model, k) == <<model.files[k], model.read[k]>> \in ToSet(model.sums)
ListedIn(model, k)   == \E c \in Contents : <<model.files[k], c>> \in ToSet(model.sums)

\* With no other process at the files, every listed file a model was loaded
\* from, in every session, is the one its passport was issued for.
QuietStartIsVerified ==
    [](Doing("idle")) =>
        [](\A n \in Names : registry[n] # None =>
              \A k \in DOMAIN registry[n].files :
                  ListedIn(registry[n], k) => RecordedIn(registry[n], k))

\* "A passport is the only way a model enters the daemon, and the promise is
\* that a file which does not match its checksum stops the daemon instead of
\* quietly serving different numbers" (functional-tests/tests/passports.rs:1-3).
ServesVerifiedFiles ==
    startup = "serving" =>
        \A n \in Names : registry[n] # None =>
            \A k \in DOMAIN registry[n].files : RecordedIn(registry[n], k)
=============================================================================
