--------------------------- MODULE ModelFilesProofs ---------------------------
(***************************************************************************)
(* What the passports promise, for any models, any files and any number of *)
(* sessions: the CLI keeps them behind their files wherever it is killed,  *)
(* a daemon that serves skipped none it found, and one that starts while   *)
(* nobody writes serves the numbers the passports were issued for.         *)
(***************************************************************************)
EXTENDS ModelFiles, DataProofs

Active == startup \in {"verify", "load"}

TypeInv == TypeOK /\ disk = [p \in Paths |-> disk[p]]

\* The CLI's checksums are those of its first files, in their order, and a
\* file it is fetching is not the pinned one yet.
CliInv ==
    /\ ~Doing("idle") =>
          /\ cli.path \in Paths
          /\ Len(cli.sums) <= Len(Listed[cli.path])
          /\ \A i \in DOMAIN cli.sums :
                cli.sums[i] = Pin => disk[cli.path][Listed[cli.path][i]] = Pin
    /\ cli.step \in {"copy", "hash"} => MoreFiles
    /\ Doing("copy") => disk[cli.path][File] # Pin

\* A passport goes by its own name and lists files of its own model.
PassportInv ==
    \A p \in Paths : passport[p] \in Passport =>
        /\ passport[p].name = NameOf[p]
        /\ \A i \in DOMAIN passport[p].sums : passport[p].sums[i][1] \in ToSet(Listed[p])

\* Where the daemon's loop over the passports stands.
LoopInv ==
    /\ \A i \in 1..Len(paths) : passport[paths[i]] # None
    /\ at \in 1..(Len(paths) + 1)
    /\ startup = "down" => registry = Empty
    /\ Active => at <= Len(paths) /\ current \in Passport /\ current.name = NameOf[Path]
    /\ startup = "verify" => seen < Len(current.sums)
    /\ startup = "load" => seen <= Len(Reads) /\ Len(read) = seen
    /\ startup \in {"down", "next"} => seen = 0
    /\ startup \in {"down", "next", "verify"} => read = <<>>
    /\ startup = "serving" => at = Len(paths) + 1

\* The last of those the loop has passed is registered under its name.
PassedInv ==
    startup # "down" =>
        \A i \in 1..(at - 1) : \E m \in 1..(at - 1) :
            /\ NameOf[paths[m]] = NameOf[paths[i]]
            /\ \A k \in 1..(at - 1) : NameOf[paths[k]] = NameOf[paths[i]] => k <= m
            /\ registry[NameOf[paths[i]]] # None
            /\ registry[NameOf[paths[i]]].path = paths[m]

Inv == TypeInv /\ CliInv /\ PassportInv /\ SumsFollowFiles /\ LoopInv /\ PassedInv

-----------------------------------------------------------------------------
LEMMA PathsOfPresent ==
    ASSUME TypeOK
    PROVE  /\ Ascending(Present) \in Seq(Paths)
           /\ \A i \in 1..Len(Ascending(Present)) : passport[Ascending(Present)[i]] # None
<1>1. Present \in SUBSET Paths /\ Present \in SUBSET Nat /\ IsFiniteSet(Present)
  BY FilesAssumption, FS_Subset DEF Present
<1>2. /\ Ascending(Present) \in Seq(Present)
      /\ Len(Ascending(Present)) = Cardinality(Present)
  BY <1>1, AscendingProperties
<1>3. Ascending(Present) \in Seq(Paths)
  BY <1>1, <1>2, SeqMonotonic
<1>4. \A i \in 1..Len(Ascending(Present)) : Ascending(Present)[i] \in Present
  BY <1>1, <1>2, AscendingProperties
<1> QED
  BY <1>3, <1>4 DEF Present

LEMMA FileTyped ==
    ASSUME TypeInv, cli.path \in Paths, MoreFiles
    PROVE  /\ Len(cli.sums) + 1 \in DOMAIN Listed[cli.path]
           /\ File \in ToSet(Listed[cli.path])
           /\ File \in Files
           /\ DOMAIN disk[cli.path] = ToSet(Listed[cli.path])
           /\ disk[cli.path][File] \in Contents \union {Absent}
<1>1. Listed[cli.path] \in Seq(Files) /\ cli.sums \in Seq(Contents)
  BY FilesAssumption DEF TypeInv, TypeOK
<1>2. Len(cli.sums) + 1 \in 1..Len(Listed[cli.path])
  BY <1>1 DEF MoreFiles
<1>3. File \in ToSet(Listed[cli.path])
  BY <1>1, <1>2 DEF File, ToSet
<1>4. File \in Files
  BY <1>1, <1>2 DEF File
<1>5. disk[cli.path] \in [ToSet(Listed[cli.path]) -> Contents \union {Absent}]
  BY DEF TypeInv, TypeOK
<1> QED
  BY <1>1, <1>2, <1>3, <1>4, <1>5

\* Writing one file of the model in hand leaves every other as it is.
LEMMA DiskWrite ==
    ASSUME TypeInv, cli.path \in Paths, MoreFiles, NEW c \in Contents \union {Absent},
           disk' = [disk EXCEPT ![cli.path][File] = c]
    PROVE  /\ disk' = [p \in Paths |-> disk'[p]]
           /\ \A p \in Paths : disk'[p] \in [ToSet(Listed[p]) -> Contents \union {Absent}]
           /\ disk'[cli.path][File] = c
           /\ \A p \in Paths : \A f \in ToSet(Listed[p]) :
                 p # cli.path \/ f # File => disk'[p][f] = disk[p][f]
<1>1. DOMAIN disk[cli.path] = ToSet(Listed[cli.path]) /\ File \in ToSet(Listed[cli.path])
  BY FileTyped
<1>2. disk = [p \in Paths |-> disk[p]]
  BY DEF TypeInv
<1>3. disk'[cli.path] = [disk[cli.path] EXCEPT ![File] = c]
  BY <1>2
<1>4. \A p \in Paths : p # cli.path => disk'[p] = disk[p]
  BY <1>2
<1>5. \A p \in Paths : disk[p] \in [ToSet(Listed[p]) -> Contents \union {Absent}]
  BY DEF TypeInv, TypeOK
<1>6. disk'[cli.path] \in [ToSet(Listed[cli.path]) -> Contents \union {Absent}]
  BY <1>1, <1>3, <1>5
<1>7. disk' = [p \in Paths |-> disk'[p]]
  BY <1>2
<1>8. disk'[cli.path][File] = c
  BY <1>1, <1>3
<1>9. \A f \in ToSet(Listed[cli.path]) : f # File => disk'[cli.path][f] = disk[cli.path][f]
  BY <1>1, <1>3
<1> QED
  BY <1>4, <1>5, <1>6, <1>7, <1>8, <1>9

LEMMA ReadsTyped ==
    ASSUME TypeOK, Path \in Paths, current \in Passport
    PROVE  Reads \in Seq(Files) /\ Len(Reads) \in Nat
<1> DEFINE files == ReadOrder[Path]
           n == SessionsOf(current)
<1>1. ToSet(Listed[Path]) \subseteq Files
  BY DEF Files
<1>2. files \in Seq(ToSet(Listed[Path])) /\ files # <<>>
  BY FilesAssumption
<1>3. files \in Seq(Files)
  BY <1>1, <1>2, SeqMonotonic
<1>4. n \in Nat
  BY FilesAssumption DEF SessionsOf, Passport
<1>5. Len(files) \in Nat /\ Len(files) > 0
  BY <1>2, EmptySeq, LenProperties
<1> HIDE DEF files, n
<1>6. \A k \in 1..Len(files) : files[k] \in Files
  BY <1>3, ElementOfSeq
<1>7. Front(files) \in Seq(Files)
  BY <1>5, <1>6 DEF Front
<1>8. Last(files) \in Files
  BY <1>5, <1>6 DEF Last
<1>9. [k \in 1..n |-> Last(files)] \in Seq(Files)
  BY <1>4, <1>8
<1>10. Reads = Front(files) \o [k \in 1..n |-> Last(files)]
  BY DEF Reads, files, n
<1>11. Reads \in Seq(Files)
  BY <1>7, <1>9, <1>10, ConcatProperties
<1> QED
  BY <1>11, LenProperties
-----------------------------------------------------------------------------
\* What is saved is a passport: of its own name, of files the CLI has seen.
LEMMA SavedPassport ==
    ASSUME TypeInv, CliInv, SavePassport
    PROVE  /\ cli.path \in Paths
           /\ \E new \in Passport :
                 /\ passport' = [passport EXCEPT ![cli.path] = new]
                 /\ new.name = NameOf[cli.path]
                 /\ \A i \in DOMAIN new.sums :
                       /\ new.sums[i][1] \in ToSet(Listed[cli.path])
                       /\ new.sums[i][2] = Pin => disk[cli.path][new.sums[i][1]] = Pin
<1> DEFINE P == cli.path
           l == Len(cli.sums)
           L == Listed[P]
           sums == [i \in DOMAIN cli.sums |-> <<L[i], cli.sums[i]>>]
<1>1. cli.sums \in Seq(Contents) /\ l \in Nat /\ DOMAIN cli.sums = 1..l
  BY LenProperties DEF TypeInv, TypeOK
<1>2. P \in Paths /\ ~Doing("idle") /\ l <= Len(L)
  BY DEF SavePassport, CliInv, Doing
<1>3. L \in Seq(Files) /\ Len(L) \in Nat /\ DOMAIN L = 1..Len(L)
  BY <1>2, FilesAssumption, LenProperties
<1>4. PICK k \in SessionCounts : passport' = [passport EXCEPT ![P] =
           [name |-> NameOf[P], sums |-> sums, sessions |-> k]]
  BY DEF SavePassport
<1>5. ASSUME NEW i \in 1..l
      PROVE  /\ L[i] \in ToSet(L) /\ L[i] \in Files /\ cli.sums[i] \in Contents
             /\ cli.sums[i] = Pin => disk[P][L[i]] = Pin
  <2>1. i \in 1..Len(L)
    BY <1>1, <1>2, <1>3
  <2>2. L[i] \in Files /\ cli.sums[i] \in Contents
    BY <1>1, <1>3, <2>1, ElementOfSeq
  <2>3. L[i] \in ToSet(L)
    BY <1>3, <2>1 DEF ToSet
  <2>4. cli.sums[i] = Pin => disk[P][L[i]] = Pin
    BY <1>1, <1>2 DEF CliInv
  <2> QED
    BY <2>2, <2>3, <2>4
<1> HIDE DEF L
<1>6. sums \in Seq(Files \X Contents) /\ DOMAIN sums = 1..l
  BY <1>1, <1>5
<1>7. \A i \in 1..l : sums[i][1] = L[i] /\ sums[i][2] = cli.sums[i]
  BY <1>1
<1> HIDE DEF sums
<1> DEFINE new == [name |-> NameOf[P], sums |-> sums, sessions |-> k]
<1>8. new \in Passport /\ new.name = NameOf[P] /\ new.sums = sums
  BY <1>2, <1>6, FilesAssumption DEF Passport
<1> HIDE DEF new
<1>9. \A i \in DOMAIN new.sums : /\ new.sums[i][1] \in ToSet(L)
                                 /\ new.sums[i][2] = Pin => disk[P][new.sums[i][1]] = Pin
  BY <1>5, <1>6, <1>7, <1>8
<1>10. passport' = [passport EXCEPT ![P] = new]
  BY <1>4 DEF new
<1> QED
  BY <1>2, <1>8, <1>9, <1>10 DEF L

\* What the CLI writes, and where it stands, fits its files.
LEMMA CliTypes ==
    ASSUME TypeInv, CliInv, SumsFollowFiles, PassportInv,
           Fetch \/ Issue \/ CliStep \/ Interrupted
    PROVE  TypeInv' /\ CliInv' /\ SumsFollowFiles' /\ PassportInv'
<1> USE FilesAssumption
<1> DEFINE P == cli.path
           l == Len(cli.sums)
<1>1. \A p \in Paths : Listed[p] \in Seq(Files) /\ Len(Listed[p]) \in Nat
  OBVIOUS
<1>2. /\ cli \in [step : {"idle", "check", "copy", "hash", "issue", "save"},
                  path : Paths \union {None}, sums : Seq(Contents)]
      /\ cli.sums \in Seq(Contents) /\ l \in Nat
  BY LenProperties DEF TypeInv, TypeOK
<1>3. CASE Fetch \/ Issue
  <2>1. PICK p \in Paths, step \in {"check", "issue"} : Begin(step, p)
    BY <1>3 DEF Fetch, Issue
  <2>2. cli' = [step |-> step, path |-> p, sums |-> <<>>] /\ UNCHANGED <<disk, part, passport, daemonVars>>
    BY <2>1 DEF Begin
  <2>3. TypeInv'
    BY <2>2 DEF TypeInv, TypeOK, daemonVars
  <2>4. CliInv'
    BY <2>2, <1>1 DEF CliInv, Doing
  <2>5. SumsFollowFiles' /\ PassportInv'
    BY <2>2 DEF SumsFollowFiles, PassportInv
  <2> QED
    BY <2>3, <2>4, <2>5
<1>4. CASE Interrupted
  <2>1. cli' = NoJob /\ UNCHANGED <<disk, part, passport, daemonVars>>
    BY <1>4 DEF Interrupted
  <2>2. TypeInv'
    BY <2>1 DEF TypeInv, TypeOK, daemonVars, NoJob
  <2>3. CliInv'
    BY <2>1 DEF CliInv, Doing, NoJob
  <2>4. SumsFollowFiles' /\ PassportInv'
    BY <2>1 DEF SumsFollowFiles, PassportInv
  <2> QED
    BY <2>2, <2>3, <2>4
<1>5. CASE AlreadyPresent \/ AcceptDownload \/ HashFile
  <2> DEFINE sum == disk[P][File]
  <2>1. P \in Paths /\ MoreFiles
    BY <1>5 DEF AlreadyPresent, AcceptDownload, HashFile, CliInv, Doing
  <2>2. sum \in Contents
    <3>1. sum \in Contents \union {Absent}
      BY <2>1, FileTyped
    <3> QED
      BY <3>1, <1>5 DEF AlreadyPresent, AcceptDownload, HashFile
  <2>3. cli' = [cli EXCEPT !.step = cli'.step, !.sums = Append(cli.sums, sum)]
        /\ cli'.step \in {"check", "issue"} /\ UNCHANGED <<disk, part, passport, daemonVars>>
    <3>1. CASE HashFile
      BY <3>1, <1>2 DEF HashFile, Doing
    <3>2. CASE AlreadyPresent
      BY <3>2, <1>2 DEF AlreadyPresent, Record
    <3>3. CASE AcceptDownload
      BY <3>3, <1>2 DEF AcceptDownload, Record
    <3> QED
      BY <1>5, <3>1, <3>2, <3>3
  <2>4. File = Listed[P][l + 1]
    BY DEF File
  <2> HIDE DEF sum
  <2>5. /\ cli'.sums = Append(cli.sums, sum) /\ cli'.sums \in Seq(Contents)
        /\ Len(cli'.sums) = l + 1 /\ cli'.path = P
        /\ \A i \in 1..l : cli'.sums[i] = cli.sums[i]
        /\ cli'.sums[l + 1] = sum
    <3>1. cli'.sums = Append(cli.sums, sum) /\ cli'.path = P
      BY <1>2, <2>3
    <3> QED
      BY <1>2, <2>2, <3>1, AppendProperties
  <2>6. TypeInv'
    <3>1. cli' \in [step : {"idle", "check", "copy", "hash", "issue", "save"},
                    path : Paths \union {None}, sums : Seq(Contents)]
      BY <1>2, <2>3, <2>5
    <3> QED
      BY <3>1, <2>3 DEF TypeInv, TypeOK, daemonVars
  <2>7. CliInv'
    <3>1. l + 1 <= Len(Listed[P])
      BY <1>1, <1>2, <2>1 DEF MoreFiles
    <3>2. \A i \in 1..(l + 1) : cli'.sums[i] = Pin => disk[P][Listed[P][i]] = Pin
      <4>1. \A i \in 1..l : cli.sums[i] = Pin => disk[P][Listed[P][i]] = Pin
        BY <1>2, <1>5 DEF CliInv, AlreadyPresent, AcceptDownload, HashFile, Doing
      <4>2. sum = disk[P][Listed[P][l + 1]]
        BY <2>4 DEF sum
      <4>3. ASSUME NEW i \in 1..(l + 1), cli'.sums[i] = Pin
            PROVE  disk[P][Listed[P][i]] = Pin
        <5>1. CASE i \in 1..l
          BY <2>5, <4>1, <4>3, <5>1
        <5>2. CASE i = l + 1
          BY <2>5, <4>2, <4>3, <5>2
        <5> QED
          BY <1>2, <5>1, <5>2
      <4> QED
        BY <4>3
    <3>3. DOMAIN cli'.sums = 1..(l + 1)
      BY <2>5
    <3> QED
      BY <2>1, <2>3, <2>5, <3>1, <3>2, <3>3 DEF CliInv, Doing
  <2>8. SumsFollowFiles' /\ PassportInv'
    BY <2>3 DEF SumsFollowFiles, PassportInv
  <2> QED
    BY <2>6, <2>7, <2>8
<1>6. CASE Download
  <2>1. P \in Paths /\ MoreFiles /\ disk[P][File] # Pin
    BY <1>6 DEF Download, CliInv, Doing
  <2>2. /\ part' = [part EXCEPT ![File] = Cut]
        /\ cli' = [cli EXCEPT !.step = "copy"]
        /\ UNCHANGED <<disk, passport, daemonVars>>
    BY <1>6 DEF Download
  <2>3. TypeInv'
    <3>1. part' \in [Files -> {Absent, Cut}]
      BY <2>2 DEF TypeInv, TypeOK
    <3>2. cli' \in [step : {"idle", "check", "copy", "hash", "issue", "save"},
                    path : Paths \union {None}, sums : Seq(Contents)]
      BY <1>2, <2>2
    <3> QED
      BY <2>2, <3>1, <3>2 DEF TypeInv, TypeOK, daemonVars
  <2>4. cli'.path = P /\ cli'.sums = cli.sums /\ cli'.step = "copy" /\ ~Doing("idle")
    BY <1>2, <1>6, <2>2 DEF Download, Doing
  <2>5. CliInv'
    BY <2>1, <2>2, <2>4 DEF CliInv, Doing, MoreFiles, File
  <2>6. SumsFollowFiles' /\ PassportInv'
    BY <2>2 DEF SumsFollowFiles, PassportInv
  <2> QED
    BY <2>3, <2>5, <2>6
<1>7. CASE Rename \/ RejectDownload
  <2>1. P \in Paths /\ MoreFiles /\ disk[P][File] # Pin /\ ~Doing("idle")
    BY <1>7 DEF Rename, RejectDownload, CliInv, Doing
  <2>2. PICK c \in Contents \union {Absent} : disk' = [disk EXCEPT ![P][File] = c]
    BY <1>7 DEF Rename, RejectDownload
  <2>3. /\ disk' = [p \in Paths |-> disk'[p]]
        /\ \A p \in Paths : disk'[p] \in [ToSet(Listed[p]) -> Contents \union {Absent}]
        /\ disk'[P][File] = c
        /\ \A p \in Paths : \A f \in ToSet(Listed[p]) :
              p # P \/ f # File => disk'[p][f] = disk[p][f]
    BY <2>1, <2>2, DiskWrite
  <2>4. \A p \in Paths : \A f \in ToSet(Listed[p]) : disk[p][f] = Pin => disk'[p][f] = Pin
    BY <2>1, <2>3
  <2>5. /\ UNCHANGED <<passport, daemonVars>>
        /\ cli' = NoJob \/ cli' = [cli EXCEPT !.step = "hash"]
        /\ part' \in [Files -> {Absent, Cut}]
    <3>1. part \in [Files -> {Absent, Cut}]
      BY DEF TypeInv, TypeOK
    <3> QED
      BY <1>7, <3>1 DEF Rename, RejectDownload
  <2>6. TypeInv'
    <3>1. cli' \in [step : {"idle", "check", "copy", "hash", "issue", "save"},
                    path : Paths \union {None}, sums : Seq(Contents)]
      <4>1. <<>> \in Seq(Contents)
        OBVIOUS
      <4>2. CASE cli' = NoJob
        BY <4>1, <4>2 DEF NoJob
      <4>3. CASE cli' = [cli EXCEPT !.step = "hash"]
        BY <1>2, <4>3
      <4> QED
        BY <2>5, <4>2, <4>3
    <3> QED
      BY <2>3, <2>5, <3>1 DEF TypeInv, TypeOK, daemonVars
  <2>7. CliInv'
    <3>1. CASE cli' = NoJob
      BY <3>1 DEF CliInv, Doing, NoJob
    <3>2. CASE cli' = [cli EXCEPT !.step = "hash"]
      <4>1. cli'.path = P /\ cli'.sums = cli.sums /\ cli'.step = "hash"
        BY <1>2, <3>2
      <4>2. l <= Len(Listed[P]) /\ l < Len(Listed[P])
        BY <1>1, <1>2, <2>1 DEF MoreFiles
      <4>3. ASSUME NEW i \in DOMAIN cli.sums, cli.sums[i] = Pin
            PROVE  disk'[P][Listed[P][i]] = Pin
        <5>1. disk[P][Listed[P][i]] = Pin
          BY <2>1, <4>3 DEF CliInv
        <5>2. i \in 1..Len(Listed[P])
          BY <1>1, <1>2, <2>1, <4>2
        <5>3. Listed[P][i] \in ToSet(Listed[P])
          BY <1>1, <2>1, <5>2 DEF ToSet
        <5> QED
          BY <2>1, <2>4, <5>1, <5>3
      <4> QED
        BY <2>1, <4>1, <4>2, <4>3 DEF CliInv, Doing, MoreFiles
    <3> QED
      BY <2>5, <3>1, <3>2
  <2>8. SumsFollowFiles'
    <3>1. passport' = passport
      BY <2>5
    <3>2. ASSUME NEW p \in Paths, passport[p] \in Passport, NEW i \in DOMAIN passport[p].sums,
                 passport[p].sums[i][2] = Pin
          PROVE  disk'[p][passport[p].sums[i][1]] = Pin
      <4> DEFINE f == passport[p].sums[i][1]
      <4>1. f \in ToSet(Listed[p])
        BY <3>2 DEF PassportInv
      <4>2. disk[p][f] = Pin
        BY <3>2 DEF SumsFollowFiles
      <4> QED
        BY <2>4, <4>1, <4>2
    <3> QED
      BY <3>1, <3>2 DEF SumsFollowFiles
  <2>9. PassportInv'
    BY <2>5 DEF PassportInv
  <2> QED
    BY <2>6, <2>7, <2>8, <2>9
<1>8. CASE TruncatePassport
  <2>1. P \in Paths /\ ~Doing("idle")
    BY <1>8 DEF TruncatePassport, CliInv, Doing
  <2>2. /\ passport' = [passport EXCEPT ![P] = Torn]
        /\ cli' = [cli EXCEPT !.step = "save"]
        /\ UNCHANGED <<disk, part, daemonVars>>
    BY <1>8 DEF TruncatePassport
  <2>3. TypeInv'
    <3>1. passport' \in [Paths -> Passport \union {None, Torn}]
      BY <2>2 DEF TypeInv, TypeOK
    <3>2. cli' \in [step : {"idle", "check", "copy", "hash", "issue", "save"},
                    path : Paths \union {None}, sums : Seq(Contents)]
      BY <1>2, <2>2
    <3> QED
      BY <2>2, <3>1, <3>2 DEF TypeInv, TypeOK, daemonVars
  <2>4. CliInv'
    <3>1. cli'.path = P /\ cli'.sums = cli.sums /\ cli'.step = "save"
      BY <1>2, <2>2
    <3> QED
      BY <2>1, <2>2, <3>1 DEF CliInv, Doing
  <2>5. \A p \in Paths : passport'[p] \in Passport => passport'[p] = passport[p]
    BY <2>1, <2>2, SetupsAssumption DEF TypeInv, TypeOK
  <2>6. SumsFollowFiles' /\ PassportInv'
    BY <2>2, <2>5 DEF SumsFollowFiles, PassportInv
  <2> QED
    BY <2>3, <2>4, <2>6
<1>9. CASE SavePassport
  <2>1. P \in Paths
    BY <1>9, SavedPassport
  <2>2. PICK new \in Passport :
           /\ passport' = [passport EXCEPT ![P] = new]
           /\ new.name = NameOf[P]
           /\ \A i \in DOMAIN new.sums :
                 /\ new.sums[i][1] \in ToSet(Listed[P])
                 /\ new.sums[i][2] = Pin => disk[P][new.sums[i][1]] = Pin
    BY <1>9, SavedPassport
  <2>3. cli' = NoJob /\ UNCHANGED <<disk, part, daemonVars>>
    BY <1>9 DEF SavePassport
  <2>4. /\ passport'[P] = new
        /\ \A p \in Paths : p # P => passport'[p] = passport[p]
        /\ passport' \in [Paths -> Passport \union {None, Torn}]
    BY <2>1, <2>2 DEF TypeInv, TypeOK
  <2>5. TypeInv'
    <3>1. cli' \in [step : {"idle", "check", "copy", "hash", "issue", "save"},
                    path : Paths \union {None}, sums : Seq(Contents)]
      BY <2>3, EmptySeq DEF NoJob
    <3> QED
      BY <2>3, <2>4, <3>1 DEF TypeInv, TypeOK, daemonVars
  <2>6. CliInv'
    BY <2>3 DEF CliInv, Doing, NoJob
  <2>7. ASSUME NEW p \in Paths, passport'[p] \in Passport
        PROVE  /\ passport'[p].name = NameOf[p]
               /\ \A i \in DOMAIN passport'[p].sums :
                     /\ passport'[p].sums[i][1] \in ToSet(Listed[p])
                     /\ passport'[p].sums[i][2] = Pin => disk[p][passport'[p].sums[i][1]] = Pin
    <3>1. CASE p = P
      BY <2>2, <2>4, <3>1
    <3>2. CASE p # P
      BY <2>4, <2>7, <3>2 DEF SumsFollowFiles, PassportInv
    <3> QED
      BY <3>1, <3>2
  <2>8. SumsFollowFiles'
    BY <2>3, <2>7 DEF SumsFollowFiles
  <2>9. PassportInv'
    BY <2>7 DEF PassportInv
  <2> QED
    BY <2>5, <2>6, <2>8, <2>9
<1> QED
  BY <1>3, <1>4, <1>5, <1>6, <1>7, <1>8, <1>9
     DEF CliStep, FetchStep, IssueStep, SaveStep

\* The CLI moves nothing of the daemon's.
LEMMA CliLeavesDaemon ==
    Fetch \/ Issue \/ CliStep \/ Interrupted => UNCHANGED daemonVars
BY DEF Fetch, Issue, Begin, CliStep, FetchStep, IssueStep, SaveStep, Interrupted,
       AlreadyPresent, Download, Rename, AcceptDownload, RejectDownload, HashFile,
       TruncatePassport, SavePassport

\* A passport that is there stays, if only torn, so the daemon finds all it
\* has listed.
LEMMA CliKeepsPassports ==
    ASSUME TypeInv, CliInv, Fetch \/ Issue \/ CliStep \/ Interrupted,
           NEW p \in Paths, passport[p] # None
    PROVE  passport'[p] # None
<1>1. CASE UNCHANGED passport
  BY <1>1
<1>2. CASE TruncatePassport
  BY <1>2, SetupsAssumption DEF TruncatePassport, TypeInv, TypeOK
<1>3. CASE SavePassport
  <2>1. cli.path \in Paths /\ \E new \in Passport : passport' = [passport EXCEPT ![cli.path] = new]
    BY <1>3, SavedPassport
  <2>2. None \notin Passport
    BY SetupsAssumption
  <2> QED
    BY <2>1, <2>2 DEF TypeInv, TypeOK
<1> QED
  BY <1>1, <1>2, <1>3
     DEF Fetch, Issue, Begin, CliStep, FetchStep, IssueStep, SaveStep, Interrupted,
         AlreadyPresent, Download, Rename, AcceptDownload, RejectDownload, HashFile
-----------------------------------------------------------------------------
LEMMA DaemonLeavesFiles ==
    Start \/ Stop \/ DaemonStep => UNCHANGED cliVars
BY DEF Start, Stop, Die, Refuse, DaemonStep, LoadPassport, RefusePassport, VerifyFile,
       RefuseFile, ReadFile, CannotRead, Register, Serve

\* A daemon that ends takes all it has loaded with it.
LEMMA DieStep ==
    ASSUME TypeInv, Die
    PROVE  TypeInv' /\ LoopInv' /\ PassedInv'
<1>1. /\ startup' = "down" /\ paths' = <<>> /\ at' = 1 /\ registry' = Empty
      /\ current' = None /\ seen' = 0 /\ read' = <<>>
      /\ disk' = disk /\ part' = part /\ passport' = passport /\ cli' = cli
  BY DEF Die, cliVars
<1>2. <<>> \in Seq(Paths) /\ <<>> \in Seq(Contents) /\ Len(<<>>) = 0
  OBVIOUS
<1>3. Empty \in [Names -> Model \union {None}]
  BY DEF Empty
<1>4. TypeInv'
  BY <1>1, <1>2, <1>3 DEF TypeInv, TypeOK
<1>5. LoopInv'
  BY <1>1, <1>2 DEF LoopInv, Active
<1>6. PassedInv'
  BY <1>1 DEF PassedInv
<1> QED
  BY <1>4, <1>5, <1>6

LEMMA RegisteredModel ==
    ASSUME TypeInv, LoopInv, Register
    PROVE  /\ Path \in Paths /\ current \in Passport /\ current.name = NameOf[Path]
           /\ [path |-> Path, sums |-> current.sums, files |-> Reads, read |-> read] \in Model
<1>1. startup = "load" /\ at \in 1..Len(paths) /\ paths \in Seq(Paths)
  BY DEF Register, LoopInv, Active, TypeInv, TypeOK
<1>2. Path \in Paths
  BY <1>1, ElementOfSeq DEF Path
<1>3. current \in Passport /\ current.name = NameOf[Path]
  BY <1>1 DEF LoopInv, Active
<1>4. Reads \in Seq(Files)
  BY <1>2, <1>3, ReadsTyped DEF TypeInv
<1>5. read \in Seq(Contents)
  BY DEF TypeInv, TypeOK
<1>6. current.sums \in Seq(Files \X Contents)
  BY <1>3 DEF Passport
<1> QED
  BY <1>2, <1>3, <1>4, <1>5, <1>6 DEF Model

LEMMA DaemonTypes ==
    ASSUME TypeInv, PassportInv, LoopInv, PassedInv, Start \/ Stop \/ DaemonStep
    PROVE  TypeInv' /\ LoopInv' /\ PassedInv'
<1> USE FilesAssumption
<1>0. UNCHANGED <<disk, part, passport, cli>>
  BY DaemonLeavesFiles DEF cliVars
<1>1. /\ paths \in Seq(Paths) /\ Len(paths) \in Nat /\ at \in 1..(Len(paths) + 1)
      /\ read \in Seq(Contents) /\ seen \in Nat /\ current \in Passport \union {None}
      /\ registry \in [Names -> Model \union {None}]
      /\ passport \in [Paths -> Passport \union {None, Torn}]
      /\ \A i \in 1..Len(paths) : paths[i] \in Paths /\ passport[paths[i]] # None
  <2>1. paths \in Seq(Paths)
    BY DEF TypeInv, TypeOK
  <2>2. Len(paths) \in Nat /\ \A i \in 1..Len(paths) : paths[i] \in Paths
    BY <2>1, LenProperties, ElementOfSeq
  <2> QED
    BY <2>1, <2>2 DEF TypeInv, TypeOK, LoopInv
<1>2. CASE Start
  <2>1. /\ startup' = "next" /\ paths' = Ascending(Present) /\ at' = 1
        /\ registry' = Empty /\ current' = None /\ seen' = 0 /\ read' = <<>>
    BY <1>2 DEF Start
  <2>2. /\ Ascending(Present) \in Seq(Paths)
        /\ \A i \in 1..Len(Ascending(Present)) : passport[Ascending(Present)[i]] # None
    BY PathsOfPresent DEF TypeInv
  <2>3. Empty \in [Names -> Model \union {None}] /\ <<>> \in Seq(Contents)
    BY DEF Empty
  <2>4. TypeInv'
    BY <1>0, <2>1, <2>2, <2>3 DEF TypeInv, TypeOK
  <2>5. LoopInv'
    <3>1. Len(paths') \in Nat
      BY <2>1, <2>2, LenProperties
    <3> QED
      BY <1>0, <2>1, <2>2, <3>1 DEF LoopInv, Active
  <2>6. PassedInv'
    BY <2>1 DEF PassedInv
  <2> QED
    BY <2>4, <2>5, <2>6
<1>3. CASE Stop \/ RefusePassport \/ RefuseFile \/ CannotRead
  BY <1>3, DieStep DEF Stop, RefusePassport, RefuseFile, CannotRead, Refuse
<1>4. CASE LoadPassport
  <2>1. /\ startup = "next" /\ at <= Len(paths) /\ Valid(Path)
        /\ startup' = "verify" /\ current' = passport[Path]
        /\ UNCHANGED <<paths, at, seen, read, registry>>
    BY <1>4 DEF LoadPassport
  <2>2. Path \in Paths /\ passport[Path] # None
    BY <1>1, <2>1 DEF Path
  <2>3. passport[Path] \in Passport /\ passport[Path].name = NameOf[Path]
    BY <1>1, <2>1, <2>2 DEF Valid, PassportInv
  <2>4. seen = 0 /\ Len(passport[Path].sums) > 0
    <3>1. passport[Path].sums \in Seq(Files \X Contents) /\ passport[Path].sums # <<>>
      BY <2>1, <2>3 DEF Passport, Valid
    <3>2. Len(passport[Path].sums) \in Nat \ {0}
      BY <3>1, EmptySeq
    <3> QED
      BY <2>1, <3>2 DEF LoopInv
  <2>5. TypeInv'
    BY <1>0, <2>1, <2>3 DEF TypeInv, TypeOK
  <2>6. LoopInv'
    BY <1>0, <1>1, <2>1, <2>3, <2>4 DEF LoopInv, Active, Path
  <2>7. PassedInv'
    BY <2>1 DEF PassedInv
  <2> QED
    BY <2>5, <2>6, <2>7
<1>5. CASE VerifyFile
  <2>1. /\ startup = "verify"
        /\ IF seen + 1 < Len(current.sums)
           THEN seen' = seen + 1 /\ UNCHANGED startup
           ELSE seen' = 0 /\ startup' = "load"
        /\ UNCHANGED <<paths, at, current, read, registry>>
    BY <1>5 DEF VerifyFile
  <2>2. /\ at <= Len(paths) /\ current \in Passport /\ current.name = NameOf[Path]
        /\ Path \in Paths /\ Len(Reads) \in Nat
    BY <1>1, <2>1, ReadsTyped DEF LoopInv, Active, TypeInv, Path
  <2>3. TypeInv'
    BY <1>0, <1>1, <2>1 DEF TypeInv, TypeOK
  <2>4. Reads' = Reads /\ Path' = Path
    BY <2>1 DEF Reads, Path
  <2>5. LoopInv'
    <3>1. Len(current.sums) \in Nat
      BY <2>2, LenProperties DEF Passport
    <3>2. Len(<<>>) = 0 /\ read = <<>>
      BY <2>1 DEF LoopInv
    <3>3. startup' = "verify" => seen' < Len(current'.sums)
      BY <2>1, <3>1
    <3>4. startup' = "load" => seen' <= Len(Reads') /\ Len(read') = seen'
      BY <2>1, <2>2, <2>4, <3>2
    <3>5. startup' \in {"verify", "load"}
      BY <2>1
    <3> QED
      BY <1>0, <1>1, <2>1, <2>2, <2>4, <3>2, <3>3, <3>4, <3>5 DEF LoopInv, Active
  <2>6. PassedInv'
    BY <2>1 DEF PassedInv
  <2> QED
    BY <2>3, <2>5, <2>6
<1>6. CASE ReadFile
  <2>1. /\ startup = "load" /\ seen < Len(Reads)
        /\ OnDisk(Reads[seen + 1]) \in Contents
        /\ read' = Append(read, OnDisk(Reads[seen + 1]))
        /\ seen' = seen + 1
        /\ UNCHANGED <<startup, paths, at, current, registry>>
    BY <1>6 DEF ReadFile
  <2>2. /\ at <= Len(paths) /\ current \in Passport /\ current.name = NameOf[Path]
        /\ Path \in Paths /\ Len(Reads) \in Nat /\ Len(read) = seen
    BY <1>1, <2>1, ReadsTyped DEF LoopInv, Active, TypeInv, Path
  <2>3. read' \in Seq(Contents) /\ Len(read') = seen + 1
    BY <1>1, <2>1, <2>2, AppendProperties
  <2>4. TypeInv'
    BY <1>0, <1>1, <2>1, <2>3 DEF TypeInv, TypeOK
  <2>5. Reads' = Reads /\ Path' = Path
    BY <2>1 DEF Reads, Path
  <2>6. LoopInv'
    BY <1>0, <1>1, <2>1, <2>2, <2>3, <2>5 DEF LoopInv, Active
  <2>7. PassedInv'
    BY <2>1 DEF PassedInv
  <2> QED
    BY <2>4, <2>6, <2>7
<1>7. CASE Register
  <2> DEFINE model == [path |-> Path, sums |-> current.sums, files |-> Reads, read |-> read]
  <2>1. /\ startup = "load" /\ startup' = "next" /\ at' = at + 1
        /\ registry' = [registry EXCEPT ![current.name] = model]
        /\ current' = None /\ seen' = 0 /\ read' = <<>> /\ paths' = paths
    BY <1>7 DEF Register
  <2>2. /\ Path \in Paths /\ current.name = NameOf[Path]
        /\ model \in Model /\ model.path = Path
    BY <1>7, RegisteredModel
  <2> HIDE DEF model
  <2>3. at <= Len(paths)
    BY <2>1 DEF LoopInv, Active
  <2>4. /\ registry' \in [Names -> Model \union {None}]
        /\ registry'[NameOf[Path]] = model
        /\ \A n \in Names : n # NameOf[Path] => registry'[n] = registry[n]
    BY <1>1, <2>1, <2>2
  <2>5. TypeInv'
    <3>1. <<>> \in Seq(Contents)
      OBVIOUS
    <3> QED
      BY <1>0, <1>1, <2>1, <2>4, <3>1 DEF TypeInv, TypeOK
  <2>6. LoopInv'
    BY <1>0, <1>1, <2>1, <2>3 DEF LoopInv, Active
  <2>7. PassedInv'
    <3>1. model # None
      BY <2>2, SetupsAssumption
    <3>2. ASSUME NEW i \in 1..at
          PROVE  \E m \in 1..at :
                    /\ NameOf[paths[m]] = NameOf[paths[i]]
                    /\ \A k \in 1..at : NameOf[paths[k]] = NameOf[paths[i]] => k <= m
                    /\ registry'[NameOf[paths[i]]] # None
                    /\ registry'[NameOf[paths[i]]].path = paths[m]
      <4>1. CASE NameOf[paths[i]] = NameOf[Path]
        <5>1. at \in 1..at /\ \A k \in 1..at : k <= at
          BY <1>1
        <5> QED
          BY <2>2, <2>4, <3>1, <4>1, <5>1 DEF Path
      <4>2. CASE NameOf[paths[i]] # NameOf[Path]
        <5>1. i \in 1..(at - 1) /\ i \in 1..Len(paths)
          BY <1>1, <2>3, <4>2 DEF Path
        <5>2. PICK m \in 1..(at - 1) :
                    /\ NameOf[paths[m]] = NameOf[paths[i]]
                    /\ \A k \in 1..(at - 1) : NameOf[paths[k]] = NameOf[paths[i]] => k <= m
                    /\ registry[NameOf[paths[i]]] # None
                    /\ registry[NameOf[paths[i]]].path = paths[m]
          BY <2>1, <5>1 DEF PassedInv
        <5>3. \A k \in 1..at : k \in 1..(at - 1) \/ k = at
          BY <1>1
        <5>4. \A k \in 1..at : NameOf[paths[k]] = NameOf[paths[i]] => k <= m
          BY <4>2, <5>2, <5>3 DEF Path
        <5>5. registry'[NameOf[paths[i]]] = registry[NameOf[paths[i]]]
          <6>1. NameOf[paths[i]] \in Names
            BY <1>1, <5>1
          <6> QED
            BY <2>4, <4>2, <6>1
        <5>6. m \in 1..at
          BY <1>1
        <5> QED
          BY <5>2, <5>4, <5>5, <5>6
      <4> QED
        BY <4>1, <4>2
    <3>3. at' - 1 = at
      BY <1>1, <2>1
    <3> QED
      BY <2>1, <3>2, <3>3 DEF PassedInv
  <2> QED
    BY <2>5, <2>6, <2>7
<1>8. CASE Serve
  <2>1. /\ startup = "next" /\ at > Len(paths) /\ startup' = "serving"
        /\ UNCHANGED <<paths, at, current, seen, read, registry>>
    BY <1>8 DEF Serve
  <2>2. TypeInv'
    BY <1>0, <2>1 DEF TypeInv, TypeOK
  <2>3. LoopInv'
    BY <1>0, <1>1, <2>1 DEF LoopInv, Active
  <2>4. PassedInv'
    BY <2>1 DEF PassedInv
  <2> QED
    BY <2>2, <2>3, <2>4
<1> QED
  BY <1>2, <1>3, <1>4, <1>5, <1>6, <1>7, <1>8 DEF DaemonStep
-----------------------------------------------------------------------------
LEMMA InvStart == Init => Inv
<1> SUFFICES ASSUME Init PROVE Inv
  OBVIOUS
<1>1. PICK s \in Setups : disk = s.disk /\ passport = s.passport
  BY DEF Init
<1>2. <<>> \in Seq(Paths) /\ <<>> \in Seq(Contents) /\ Len(<<>>) = 0
  OBVIOUS
<1>3. TypeInv
  <2>1. Empty \in [Names -> Model \union {None}]
    BY DEF Empty
  <2>2. NoJob \in [step : {"idle", "check", "copy", "hash", "issue", "save"},
                   path : Paths \union {None}, sums : Seq(Contents)]
    BY <1>2 DEF NoJob
  <2>3. part \in [Files -> {Absent, Cut}]
    BY DEF Init
  <2> QED
    BY <1>1, <1>2, <2>1, <2>2, <2>3, SetupsAssumption DEF Init, TypeInv, TypeOK
<1>4. CliInv
  BY DEF Init, CliInv, Doing, NoJob
<1>5. ASSUME NEW p \in Paths, passport[p] \in Passport
      PROVE  /\ passport[p].name = NameOf[p]
             /\ \A i \in DOMAIN passport[p].sums :
                   /\ passport[p].sums[i][1] \in ToSet(Listed[p])
                   /\ passport[p].sums[i][2] = Pin => disk[p][passport[p].sums[i][1]] = Pin
  <2>1. s.passport[p] \in Passport =>
           /\ s.passport[p].name = NameOf[p]
           /\ \A i \in DOMAIN s.passport[p].sums :
                 LET sum == s.passport[p].sums[i]
                 IN  /\ sum[1] \in ToSet(Listed[p])
                     /\ sum[2] = Pin => s.disk[p][sum[1]] = Pin
    BY ONLY SetupsAssumption, s \in Setups, p \in Paths
  <2>2. passport[p] = s.passport[p] /\ disk[p] = s.disk[p]
    BY ONLY <1>1
  <2> QED
    BY <1>5, <2>1, <2>2
<1>6. LoopInv
  BY <1>2 DEF Init, LoopInv, Active
<1>7. PassedInv
  BY DEF Init, PassedInv
<1> QED
  BY <1>3, <1>4, <1>5, <1>6, <1>7 DEF Inv, PassportInv, SumsFollowFiles

LEMMA InvStep == Inv /\ [Next]_vars => Inv'
<1> SUFFICES ASSUME Inv, [Next]_vars PROVE Inv'
  OBVIOUS
<1>1. TypeInv /\ CliInv /\ PassportInv /\ SumsFollowFiles /\ LoopInv /\ PassedInv
  BY DEF Inv
<1>2. CASE Fetch \/ Issue \/ CliStep \/ Interrupted
  <2>1. TypeInv' /\ CliInv' /\ PassportInv' /\ SumsFollowFiles'
    BY <1>1, <1>2, CliTypes
  <2>2. UNCHANGED <<startup, paths, at, current, seen, read, registry>>
    BY <1>2, CliLeavesDaemon DEF daemonVars
  <2>3. \A p \in Paths : passport[p] # None => passport'[p] # None
    BY <1>1, <1>2, CliKeepsPassports
  <2>4. \A i \in 1..Len(paths) : passport'[paths[i]] # None
    <3>1. \A i \in 1..Len(paths) : paths[i] \in Paths
      BY <1>1, ElementOfSeq DEF TypeInv, TypeOK
    <3> QED
      BY <1>1, <2>3, <3>1 DEF LoopInv
  <2>5. Reads' = Reads /\ Path' = Path
    BY <2>2 DEF Reads, Path
  <2>6. LoopInv'
    BY <1>1, <2>2, <2>4, <2>5 DEF LoopInv, Active
  <2>7. PassedInv'
    BY <1>1, <2>2 DEF PassedInv
  <2> QED
    BY <2>1, <2>6, <2>7 DEF Inv
<1>3. CASE Start \/ Stop \/ DaemonStep
  <2>1. TypeInv' /\ LoopInv' /\ PassedInv'
    BY <1>1, <1>3, DaemonTypes
  <2>2. UNCHANGED <<disk, part, passport, cli>>
    BY <1>3, DaemonLeavesFiles DEF cliVars
  <2>3. CliInv'
    BY <1>1, <2>2 DEF CliInv, Doing, MoreFiles, File
  <2>4. PassportInv' /\ SumsFollowFiles'
    BY <1>1, <2>2 DEF PassportInv, SumsFollowFiles
  <2> QED
    BY <2>1, <2>3, <2>4 DEF Inv
<1>4. CASE UNCHANGED vars
  <2>1. /\ UNCHANGED <<disk, part, passport, cli>>
        /\ UNCHANGED <<startup, paths, at, current, seen, read, registry>>
    BY <1>4 DEF vars, cliVars, daemonVars
  <2>2. TypeInv'
    BY <1>1, <2>1 DEF TypeInv, TypeOK
  <2>3. CliInv' /\ PassportInv' /\ SumsFollowFiles'
    BY <1>1, <2>1 DEF CliInv, Doing, MoreFiles, File, PassportInv, SumsFollowFiles
  <2>4. Reads' = Reads /\ Path' = Path
    BY <2>1 DEF Reads, Path
  <2>5. LoopInv' /\ PassedInv'
    BY <1>1, <2>1, <2>4 DEF LoopInv, PassedInv, Active
  <2> QED
    BY <2>2, <2>3, <2>5 DEF Inv
<1> QED
  BY <1>2, <1>3, <1>4 DEF Next

LEMMA Invariance == Spec => []Inv
BY InvStart, InvStep, PTL DEF Spec

\* No model file is ever incomplete under its final name.
THEOREM TypeCorrect == Spec => []TypeOK
<1>1. Inv => TypeOK
  BY DEF Inv, TypeInv
<1> QED
  BY <1>1, Invariance, PTL

\* Wherever fetch is interrupted, repeated or refused, a catalog checksum is in
\* a passport only with its file on disk.
THEOREM PassportsFollowFiles == Spec => []SumsFollowFiles
<1>1. Inv => SumsFollowFiles
  BY DEF Inv
<1> QED
  BY <1>1, Invariance, PTL

\* A daemon that serves has skipped no passport: it serves each whose name no
\* other carries, and one under every name there is.
THEOREM NothingSkipped == Spec => []ServesEveryPassport
<1>1. Inv => ServesEveryPassport
  <2> SUFFICES ASSUME Inv, startup = "serving", NEW i \in DOMAIN paths
               PROVE  LET n == NameOf[paths[i]]
                      IN  /\ registry[n] # None /\ NameOf[registry[n].path] = n
                          /\ Unshared(paths[i]) => Registered(paths[i])
    BY DEF ServesEveryPassport
  <2>1. DOMAIN paths = 1..Len(paths) /\ Len(paths) \in Nat /\ at - 1 = Len(paths)
    <3>1. paths \in Seq(Paths) /\ at = Len(paths) + 1
      BY DEF Inv, TypeInv, TypeOK, LoopInv
    <3> QED
      BY <3>1, LenProperties
  <2>2. PICK m \in DOMAIN paths :
           /\ NameOf[paths[m]] = NameOf[paths[i]]
           /\ registry[NameOf[paths[i]]] # None
           /\ registry[NameOf[paths[i]]].path = paths[m]
    BY <2>1 DEF Inv, PassedInv
  <2>3. ASSUME Unshared(paths[i]) PROVE Registered(paths[i])
    <3>1. paths[m] = paths[i]
      BY <2>2, <2>3 DEF Unshared
    <3> QED
      BY <2>2, <3>1 DEF Registered
  <2> QED
    BY <2>2, <2>3
<1> QED
  BY <1>1, Invariance, PTL

-----------------------------------------------------------------------------
\* While nobody writes: what has been verified is still on disk, and so is what
\* has been read.
QuietModel(d, m) ==
    /\ \A i \in DOMAIN m.sums : d[m.path][m.sums[i][1]] = m.sums[i][2]
    /\ \A k \in DOMAIN m.files : m.read[k] = d[m.path][m.files[k]]

QuietInv ==
    /\ startup = "verify" =>
          \A i \in 1..seen : OnDisk(current.sums[i][1]) = current.sums[i][2]
    /\ startup = "load" =>
          /\ \A i \in DOMAIN current.sums : OnDisk(current.sums[i][1]) = current.sums[i][2]
          /\ \A k \in 1..seen : read[k] = OnDisk(Reads[k])
    /\ \A n \in Names : registry[n] # None => QuietModel(disk, registry[n])

LEMMA QuietStep ==
    ASSUME Inv, QuietInv, Doing("idle"), Doing("idle")', [Next]_vars
    PROVE  QuietInv'
<1>1. UNCHANGED <<disk, passport>>
  BY DEF Next, Fetch, Issue, Begin, CliStep, FetchStep, IssueStep, SaveStep, Interrupted, Doing,
         AlreadyPresent, Download, Rename, AcceptDownload, RejectDownload, HashFile,
         TruncatePassport, SavePassport, Start, Stop, Die, Refuse, DaemonStep, LoadPassport,
         RefusePassport, VerifyFile, RefuseFile, ReadFile, CannotRead, Register, Serve,
         vars, cliVars
<1>2. /\ read \in Seq(Contents) /\ seen \in Nat /\ current \in Passport \union {None}
      /\ registry \in [Names -> Model \union {None}]
      /\ paths \in Seq(Paths) /\ Len(paths) \in Nat
  BY LenProperties DEF Inv, TypeInv, TypeOK
<1>3. CASE UNCHANGED daemonVars
  <2>1. UNCHANGED <<startup, paths, at, current, seen, read, registry>>
    BY <1>3 DEF daemonVars
  <2> QED
    BY <1>1, <2>1 DEF QuietInv, QuietModel, OnDisk, Path, Reads
<1>4. CASE Start \/ Die
  <2>1. startup' \in {"next", "down"} /\ registry' = Empty
    BY <1>4 DEF Start, Die
  <2> QED
    BY <2>1 DEF QuietInv, Empty
<1>5. CASE LoadPassport \/ Serve
  <2>1. /\ startup' = "serving" \/ (startup' = "verify" /\ seen' = 0)
        /\ registry' = registry
    BY <1>5 DEF LoadPassport, Serve, Inv, LoopInv
  <2> QED
    BY <1>1, <2>1 DEF QuietInv, QuietModel
<1>6. CASE VerifyFile
  <2>1. /\ startup = "verify" /\ Matches
        /\ IF seen + 1 < Len(current.sums)
           THEN seen' = seen + 1 /\ UNCHANGED startup
           ELSE seen' = 0 /\ startup' = "load"
        /\ UNCHANGED <<paths, at, current, read, registry>>
    BY <1>6 DEF VerifyFile
  <2>2. current \in Passport /\ seen < Len(current.sums)
    BY <2>1 DEF Inv, LoopInv, Active
  <2>3. Len(current.sums) \in Nat /\ DOMAIN current.sums = 1..Len(current.sums)
    BY <2>2, LenProperties DEF Passport
  <2>4. \A i \in 1..(seen + 1) : OnDisk(current.sums[i][1]) = current.sums[i][2]
    <3>1. \A i \in 1..(seen + 1) : i \in 1..seen \/ i = seen + 1
      BY <1>2
    <3> QED
      BY <2>1, <3>1 DEF Matches, QuietInv
  <2>5. disk' = disk /\ Path' = Path /\ current' = current
    BY <1>1, <2>1 DEF Path
  <2>6. startup' = "verify" =>
           \A i \in 1..seen' : disk'[Path'][current'.sums[i][1]] = current'.sums[i][2]
    BY <2>1, <2>4, <2>5 DEF OnDisk
  <2>7. startup' = "load" => seen' = 0 /\ seen + 1 = Len(current.sums)
    BY <1>2, <2>1, <2>2, <2>3
  <2>8. startup' = "load" =>
           \A i \in DOMAIN current'.sums : disk'[Path'][current'.sums[i][1]] = current'.sums[i][2]
    BY <2>3, <2>4, <2>5, <2>7 DEF OnDisk
  <2>9. \A n \in Names : registry'[n] # None => QuietModel(disk', registry'[n])
    BY <1>1, <2>1 DEF QuietInv
  <2>10. startup' = "load" => \A k \in 1..seen' : read'[k] = OnDisk(Reads[k])'
    BY <2>7
  <2> QED
    BY <2>6, <2>8, <2>9, <2>10 DEF QuietInv, OnDisk
<1>7. CASE ReadFile
  <2>1. /\ startup = "load" /\ startup' = "load"
        /\ OnDisk(Reads[seen + 1]) \in Contents
        /\ read' = Append(read, OnDisk(Reads[seen + 1]))
        /\ seen' = seen + 1
        /\ UNCHANGED <<paths, at, current, registry>>
    BY <1>7 DEF ReadFile
  <2>2. Len(read) = seen
    BY <2>1 DEF Inv, LoopInv
  <2>3. Reads' = Reads /\ Path' = Path
    BY <2>1 DEF Reads, Path
  <2>4. \A k \in 1..(seen + 1) : read'[k] = OnDisk(Reads[k])
    <3>1. \A k \in 1..seen : read'[k] = read[k]
      BY <1>2, <2>1, <2>2, AppendProperties
    <3>2. read'[seen + 1] = OnDisk(Reads[seen + 1])
      BY <1>2, <2>1, <2>2, AppendProperties
    <3>3. \A k \in 1..(seen + 1) : k \in 1..seen \/ k = seen + 1
      BY <1>2
    <3> QED
      BY <2>1, <3>1, <3>2, <3>3 DEF QuietInv
  <2> QED
    BY <1>1, <2>1, <2>3, <2>4 DEF QuietInv, QuietModel, OnDisk
<1>8. CASE Register
  <2> DEFINE model == [path |-> Path, sums |-> current.sums, files |-> Reads, read |-> read]
  <2>1. /\ startup = "load" /\ startup' = "next" /\ seen = Len(Reads)
        /\ registry' = [registry EXCEPT ![current.name] = model]
    BY <1>8 DEF Register
  <2>2. Path \in Paths /\ current \in Passport /\ current.name = NameOf[Path] /\ Len(read) = seen
    BY <1>8, <2>1, RegisteredModel DEF Inv, LoopInv
  <2>3. Reads \in Seq(Files) /\ DOMAIN Reads = 1..Len(Reads)
    BY <2>2, ReadsTyped, LenProperties DEF Inv, TypeInv
  <2>4. QuietModel(disk, model)
    BY <2>1, <2>2, <2>3 DEF QuietModel, QuietInv, OnDisk
  <2> HIDE DEF model
  <2>5. \A n \in Names : registry'[n] = model \/ registry'[n] = registry[n]
    BY <1>2, <2>1
  <2>6. \A n \in Names : registry'[n] # None => QuietModel(disk', registry'[n])
    BY <1>1, <2>4, <2>5 DEF QuietInv
  <2> QED
    BY <2>1, <2>6 DEF QuietInv
<1>9. CASE Fetch \/ Issue \/ CliStep \/ Interrupted
  BY <1>3, <1>9, CliLeavesDaemon
<1>10. CASE UNCHANGED vars
  BY <1>3, <1>10 DEF vars
<1> QED
  BY <1>3, <1>4, <1>5, <1>6, <1>7, <1>8, <1>9, <1>10
     DEF Next, Stop, DaemonStep, RefusePassport, RefuseFile, CannotRead, Refuse

\* In every session, every listed file of a model is the one its passport was
\* issued for, as long as nobody else is at the files.
THEOREM QuietStart == Spec => QuietStartIsVerified
<1> DEFINE Verified == \A n \in Names : registry[n] # None =>
              \A k \in DOMAIN registry[n].files :
                  ListedIn(registry[n], k) => RecordedIn(registry[n], k)
<1>1. Init => QuietInv
  BY DEF Init, QuietInv, Empty
<1>2. Inv /\ QuietInv /\ Doing("idle") /\ Doing("idle")' /\ [Next]_vars => QuietInv'
  BY QuietStep
<1>3. Inv /\ QuietInv => Verified
  <2> SUFFICES ASSUME Inv, QuietInv, NEW n \in Names, registry[n] # None,
                      NEW k \in DOMAIN registry[n].files, ListedIn(registry[n], k)
               PROVE  RecordedIn(registry[n], k)
    OBVIOUS
  <2> DEFINE m == registry[n]
  <2>1. m \in Model /\ QuietModel(disk, m)
    BY DEF Inv, TypeInv, TypeOK, QuietInv
  <2>2. PICK c \in Contents : <<m.files[k], c>> \in ToSet(m.sums)
    BY DEF ListedIn
  <2>3. PICK i \in DOMAIN m.sums : m.sums[i] = <<m.files[k], c>>
    BY <2>2 DEF ToSet
  <2>4. disk[m.path][m.files[k]] = c /\ m.read[k] = disk[m.path][m.files[k]]
    BY <2>1, <2>3 DEF QuietModel
  <2> QED
    BY <2>2, <2>4 DEF RecordedIn
<1> HIDE DEF Verified
<1>4. Spec /\ []Doing("idle") => []Verified
  BY <1>1, <1>2, <1>3, Invariance, PTL DEF Spec
<1> QED
  BY <1>4 DEF QuietStartIsVerified, Verified
===============================================================================
