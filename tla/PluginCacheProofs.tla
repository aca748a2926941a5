-------------------------- MODULE PluginCacheProofs --------------------------
(***************************************************************************)
(* Proofs about the plugin cache for any number of gateways and starts and *)
(* any archives and sources.  What Clean and Join make of a path is never  *)
(* looked at: SafeJoin checks its result, and that is all there is to      *)
(* know.  What is said of the bytes a plugin runs from supposes that the   *)
(* caches of the sources do not overlap (CachesApart).                     *)
(***************************************************************************)
EXTENDS PluginCache, SequenceTheorems, TLAPS

Working == {"extract", "write", "chmod"}
Kept    == {s \in Sources : s.type = "github"}

-----------------------------------------------------------------------------
(***************************************************************************)
(* What the steps do to the disk.                                          *)
(***************************************************************************)
(* Nothing but p changes, and directories may be added.                    *)
ChangesAt(p) ==
  /\ DOMAIN disk \subseteq DOMAIN disk'
  /\ \A q \in DOMAIN disk' \ {p} : disk'[q] = IF q \in DOMAIN disk THEN disk[q] ELSE Folder

(* MkdirAll.                                                               *)
LEMMA MkdirEffect ==
  ASSUME NEW p, disk' = WithDirs(disk, p)
  PROVE  /\ DOMAIN disk' = DOMAIN disk \cup Upto(p) /\ DOMAIN disk \subseteq DOMAIN disk'
         /\ \A q \in DOMAIN disk' : disk'[q] = IF q \in DOMAIN disk THEN disk[q] ELSE Folder
  BY DEF WithDirs

(* The directory itself is there afterwards.                               *)
LEMMA DirExists ==
  ASSUME NEW p, CanMkdir(p), disk' = WithDirs(disk, p), p \in Upto(p)
  PROVE  p \in DOMAIN disk' /\ disk'[p].dir
  <1>1. p \in DOMAIN disk'
    BY MkdirEffect
  <1>2. CASE p \in DOMAIN disk
    BY <1>1, <1>2, MkdirEffect DEF CanMkdir, Exists
  <1>3. CASE p \notin DOMAIN disk
    <2>1. disk'[p] = Folder
      BY <1>1, <1>3, MkdirEffect
    <2>2. Folder.dir
      BY DEF Folder
    <2> QED BY <1>1, <2>1, <2>2
  <1> QED BY <1>2, <1>3

(* safeExtractTarGz opens a file: a partial one is there afterwards.       *)
LEMMA OpenEffect ==
  ASSUME NEW g \in Gateways, OpenFile(g)
  PROVE  /\ ChangesAt(Target(g)) /\ Target(g) \in DOMAIN disk' /\ Target(g) # <<>>
         /\ disk'[Target(g)] = [dir |-> FALSE, of |-> got[g], whole |-> FALSE,
                                exec |-> Mode(Target(g), Entry(g)), by |-> g]
         /\ Target(g) \in DOMAIN disk => ~disk[Target(g)].dir
         /\ pc[g] = "extract" /\ pc' = [pc EXCEPT ![g] = "write"] /\ Entry(g).kind = "reg"
         /\ entry[g] <= Len(Archive[got[g]])
         /\ contested' = IF Exists(Target(g))
                            /\ (disk[Target(g)].whole \/ OpenForWriting(Target(g)))
                         THEN contested \cup {Target(g)} ELSE contested
         /\ UNCHANGED <<src, got, entry, sha, run, starts, installed>>
  <1> DEFINE p == Target(g)
             d == WithDirs(disk, Front(p))
             x == Mode(p, Entry(g))
             f == Partial(got[g], x, g)
  <1>1. /\ disk' = [q \in DOMAIN d \cup {p} |-> IF q = p THEN f ELSE d[q]]
        /\ p # <<>> /\ (p \in DOMAIN disk => ~disk[p].dir)
    BY DEF OpenFile, Exists
  <1>2. f = [dir |-> FALSE, of |-> got[g], whole |-> FALSE, exec |-> x, by |-> g]
    BY DEF Partial
  <1>3. /\ DOMAIN disk \subseteq DOMAIN d
        /\ \A q \in DOMAIN d : d[q] = IF q \in DOMAIN disk THEN disk[q] ELSE Folder
    BY DEF WithDirs
  <1> HIDE DEF p, d, x, f
  <1>4. ChangesAt(p) /\ p \in DOMAIN disk' /\ disk'[p] = f
    BY <1>1, <1>3 DEF ChangesAt
  <1>5. /\ pc[g] = "extract" /\ pc' = [pc EXCEPT ![g] = "write"] /\ Entry(g).kind = "reg"
        /\ entry[g] <= Len(Archive[got[g]])
        /\ contested' = IF Exists(p) /\ (disk[p].whole \/ OpenForWriting(p))
                        THEN contested \cup {p} ELSE contested
        /\ UNCHANGED <<src, got, entry, sha, run, starts, installed>>
    BY DEF OpenFile, Go, p
  <1> QED BY <1>1, <1>2, <1>4, <1>5 DEF p, x

(* It closes the file: whole, if the gateway was the last to truncate it.  *)
LEMMA CloseEffect ==
  ASSUME NEW g \in Gateways, CloseFile(g)
  PROVE  /\ ChangesAt(Target(g)) /\ DOMAIN disk' = DOMAIN disk
         /\ Target(g) \in DOMAIN disk =>
              disk'[Target(g)] =
                IF disk[Target(g)].by = g
                THEN [dir |-> FALSE, of |-> got[g], whole |-> TRUE,
                      exec |-> disk[Target(g)].exec, by |-> Nobody]
                ELSE disk[Target(g)]
         /\ pc[g] = "write" /\ pc' = [pc EXCEPT ![g] = "extract"]
         /\ entry' = [entry EXCEPT ![g] = entry[g] + 1]
         /\ UNCHANGED <<src, got, sha, run, starts, installed, contested>>
  BY DEF CloseFile, ChangesAt, File, Go

(* The binary is marked executable.                                        *)
LEMMA ChmodEffect ==
  ASSUME NEW g \in Gateways, Chmod(g)
  PROVE  /\ ChangesAt(Extracted(g)) /\ DOMAIN disk' = DOMAIN disk
         /\ Extracted(g) \in DOMAIN disk
         /\ disk'[Extracted(g)] = [disk[Extracted(g)] EXCEPT !.exec = TRUE]
         /\ installed' = IF disk[Extracted(g)].dir THEN installed ELSE installed \cup {src[g]}
         /\ pc[g] = "chmod" /\ pc' = [pc EXCEPT ![g] = "verify"]
         /\ UNCHANGED <<src, got, entry, sha, run, starts, contested>>
  BY DEF Chmod, ChangesAt, Exists, Go

(* The operator replaces a file of his.                                    *)
LEMMA ReplaceEffect ==
  ASSUME NEW p, NEW a, Replace(p, a)
  PROVE  /\ ChangesAt(p) /\ DOMAIN disk' = DOMAIN disk /\ p \in DOMAIN Local /\ a \in Local[p]
         /\ p \in DOMAIN disk => disk'[p] = [disk[p] EXCEPT !.of = a]
         /\ UNCHANGED <<pc, src, got, entry, sha, run, starts, installed, contested>>
  BY DEF Replace, ChangesAt

-----------------------------------------------------------------------------
(***************************************************************************)
(* Cache directories.                                                      *)
(***************************************************************************)
(* Sequences with one name...                                              *)
LEMMA Single ==
  ASSUME NEW S, NEW a \in S
  PROVE  <<a>> \in Seq(S)
  OBVIOUS

(* ...and what GitHubCacheDir joins: the checksum comes last.              *)
LEMMA Names4 ==
  ASSUME NEW S, NEW a \in S, NEW b \in S, NEW c \in S, NEW d \in S, NEW r \in Seq(S)
  PROVE  LET p == <<d>> \o r \o <<a, b, c>>
         IN  /\ p \in Seq(S) /\ Len(p) = Len(r) + 4
             /\ p[Len(r) + 4] = c
  <1>1. <<d>> \in Seq(S) /\ Len(<<d>>) = 1 /\ <<a, b, c>> \in Seq(S) /\ Len(<<a, b, c>>) = 3
        /\ <<a, b, c>>[3] = c
    OBVIOUS
  <1> DEFINE s == <<d>>
             t == <<a, b, c>>
  <1>2. s \in Seq(S) /\ Len(s) = 1 /\ t \in Seq(S) /\ Len(t) = 3 /\ t[3] = c
    BY <1>1
  <1> HIDE DEF s, t
  <1>3. s \o r \in Seq(S) /\ Len(s \o r) = Len(r) + 1 /\ Len(r) \in Nat
    BY <1>2, ConcatProperties, LenProperties
  <1> DEFINE q == s \o r
  <1> HIDE DEF q
  <1>4. q \o t \in Seq(S) /\ Len(q \o t) = Len(r) + 4 /\ (q \o t)[Len(r) + 4] = t[3]
    <2>1. q \in Seq(S) /\ Len(q) = Len(r) + 1
      BY <1>3 DEF q
    <2>2. /\ q \o t \in Seq(S) /\ Len(q \o t) = Len(q) + Len(t)
          /\ \A i \in 1 .. Len(q) + Len(t) :
               (q \o t)[i] = IF i <= Len(q) THEN q[i] ELSE t[i - Len(q)]
      BY <1>2, <2>1, ConcatProperties
    <2> QED BY <1>2, <1>3, <2>1, <2>2
  <1> QED BY <1>2, <1>4 DEF q, s, t

(* What a directory may be called.                                         *)
Names == STRING \cup {"github", "unknown"}

(* A sequence of some names is a sequence of more names.                   *)
LEMMA SeqWider ==
  ASSUME NEW S, NEW T, S \subseteq T, NEW r \in Seq(S)
  PROVE  r \in Seq(T)
  <1>1. Len(r) \in Nat /\ r \in [1 .. Len(r) -> S]
    BY LenProperties
  <1>2. r \in [1 .. Len(r) -> T]
    BY <1>1
  <1> QED BY <1>1, <1>2, SeqDef

(* A directory has a name for the checksum at its end.                     *)
LEMMA CacheDirShape ==
  ASSUME NEW s \in Sources, NEW sum \in DOMAIN Means
  PROVE  /\ CacheDir(s, sum) \in Seq(Names) /\ Len(CacheDir(s, sum)) \in Nat \ {0}
         /\ Len(s.repository) = 2 => Len(CacheDir(s, sum)) = 6 /\ CacheDir(s, sum)[6] = sum
  <1>1. s.repository \in Seq(STRING) /\ s.release \in STRING /\ s.asset \in STRING
        /\ sum \in STRING
    BY CacheAssumption
  <1>2. s.repository \in Seq(Names) /\ s.release \in Names /\ s.asset \in Names /\ sum \in Names
    <2>1. STRING \subseteq Names
      BY DEF Names
    <2> QED BY <1>1, <2>1, SeqWider
  <1>3. "github" \in Names /\ "unknown" \in Names
    BY DEF Names
  <1> DEFINE u == <<"unknown">> \o s.repository
             r == IF Len(s.repository) = 2 THEN s.repository ELSE u
             p == <<"github">> \o r \o <<s.release, s.asset, sum>>
  <1>4. u \in Seq(Names)
    BY <1>2, <1>3, Single, ConcatProperties
  <1> HIDE DEF u
  <1>5. r \in Seq(Names) /\ (Len(s.repository) = 2 => Len(r) = 2)
    BY <1>2, <1>4
  <1>6. CacheDir(s, sum) = p
    BY DEF CacheDir, u
  <1> HIDE DEF r
  <1>7. Len(r) \in Nat
    BY <1>5, LenProperties
  <1>8. p \in Seq(Names) /\ Len(p) = Len(r) + 4 /\ p[Len(r) + 4] = sum
    BY <1>2, <1>3, <1>5, Names4
  <1> HIDE DEF p
  <1>9. Len(p) \in Nat \ {0}
    BY <1>7, <1>8
  <1>10. Len(r) = 2 => Len(p) = 6 /\ p[6] = sum
    BY <1>8
  <1> QED BY <1>5, <1>6, <1>8, <1>9, <1>10

(* MkdirAll makes it.                                                      *)
LEMMA CacheDirMade ==
  ASSUME NEW s \in Sources, NEW sum \in DOMAIN Means
  PROVE  CacheDir(s, sum) \in Upto(CacheDir(s, sum))
  <1> DEFINE p == CacheDir(s, sum)
  <1>1. p \in Seq(Names) /\ Len(p) \in Nat \ {0} /\ p # <<>>
    BY CacheDirShape, EmptySeq
  <1> HIDE DEF p
  <1>2. SubSeq(p, 1, Len(p)) = p /\ Len(p) \in 0 .. Len(p)
    BY <1>1, SubSeqProperties
  <1>3. p \in Prefixes(p)
    BY <1>2 DEF Prefixes
  <1> QED BY <1>1, <1>3 DEF p, Upto

(* A directory shares its names with what lies below it.                   *)
LEMMA PrefixElements ==
  ASSUME NEW d, NEW p, IsPrefix(d, p)
  PROVE  Len(d) <= Len(p) /\ \A i \in 1 .. Len(d) : d[i] = p[i]
  BY DEF IsPrefix

(* Where the cache is tidy, a path lies in one directory only.             *)
LEMMA OneDirectory ==
  ASSUME CachesApart, NEW s \in Kept, NEW z \in Kept,
         NEW sum \in DOMAIN Means, NEW other \in DOMAIN Means, NEW p,
         IsPrefix(CacheDir(s, sum), p), IsPrefix(CacheDir(z, other), p)
  PROVE  sum = other /\ CacheDir(s, sum) = CacheDir(z, other)
  <1> DEFINE c == CacheDir(s, sum)
             d == CacheDir(z, other)
  <1>1. /\ c \in Seq(Names) /\ Len(c) = 6 /\ c[6] = sum
        /\ d \in Seq(Names) /\ Len(d) = 6 /\ d[6] = other
    BY CacheDirShape DEF CachesApart, Kept
  <1>2. (\A i \in 1 .. Len(c) : c[i] = p[i]) /\ (\A i \in 1 .. Len(d) : d[i] = p[i])
    BY PrefixElements
  <1> HIDE DEF c, d
  <1>3. \A i \in 1 .. Len(c) : c[i] = d[i]
    BY <1>1, <1>2
  <1>4. c = d
    BY <1>1, <1>3, SeqEqual
  <1> QED BY <1>1, <1>4 DEF c, d

(* safeJoin.                                                               *)
LEMMA SafeJoinStays ==
  ASSUME NEW dest, NEW e, SafeJoin(dest, e) # <<>>
  PROVE  IsPrefix(dest, SafeJoin(dest, e))
  BY DEF SafeJoin

-----------------------------------------------------------------------------
(***************************************************************************)
(* The inductive invariant.                                                *)
(***************************************************************************)
Labels == {"off", "stat", "download", "extract", "write", "chmod", "verify", "launch", "running"}
Nodes  == [dir : BOOLEAN, of : Contents \cup {""}, whole : BOOLEAN, exec : BOOLEAN,
           by : Gateways \cup {Nobody}]

(* What got and sha may hold.                                              *)
Downloads == Archives \cup {""}
Hashes    == DOMAIN Means \cup {"", "partial"}

(* The types, of entry also where TypeOK is silent.                        *)
GatewaysTyped ==
  /\ pc \in [Gateways -> Labels] /\ src \in [Gateways -> Sources]
  /\ got \in [Gateways -> Downloads] /\ entry \in [Gateways -> Nat]
  /\ sha \in [Gateways -> Hashes]
  /\ run \in [Gateways -> Nodes] /\ starts \in 0 .. MaxStarts
DiskTyped ==
  /\ contested \subseteq DOMAIN disk /\ installed \subseteq Sources
  /\ \A p \in DOMAIN disk : disk[p] \in Nodes
Typed == GatewaysTyped /\ DiskTyped

(* Where a gateway is, and what it knows there.                            *)
ControlOf(g) ==
  /\ pc[g] = "stat" => Checksum(src[g]) # ""
  /\ pc[g] \in {"stat", "download"} \cup Working => src[g].type = "github"
  /\ pc[g] \in {"off", "stat", "download"} => got[g] = ""
  /\ pc[g] \in Working => got[g] # ""
  /\ got[g] # "" => src[g].type = "github" /\ entry[g] \in 1 .. Len(Archive[got[g]]) + 1
  /\ got[g] # "" /\ Checksum(src[g]) # "" => Means[Checksum(src[g])] = got[g]
  /\ pc[g] = "chmod" => entry[g] = Len(Archive[got[g]]) + 1
  /\ pc[g] = "verify" /\ src[g].type # "filesystem" => got[g] # ""
  /\ pc[g] \in {"launch", "running"} /\ src[g].type # "filesystem" => src[g].type = "github"
  /\ pc[g] \in {"launch", "running"} /\ src[g].type = "filesystem" /\ Checksum(src[g]) # "" =>
       sha[g] = Means[Checksum(src[g])]

(* What is on the disk for it.                                             *)
PlacedOf(g) ==
  /\ pc[g] \in Working => Dest(g) \in DOMAIN disk /\ disk[Dest(g)].dir
  /\ pc[g] = "write" => /\ entry[g] \in 1 .. Len(Archive[got[g]]) /\ Entry(g).kind = "reg"
                        /\ Target(g) # <<>>
                        /\ Target(g) \in DOMAIN disk /\ ~disk[Target(g)].dir

(* FiledByChecksum, for the directories of downloads only.                 *)
FiledAt(p) ==
  \E s \in Kept, sum \in DOMAIN Means :
    /\ IsStrictPrefix(CacheDir(s, sum), p)
    /\ Means[sum] = disk[p].of
Filed == \A p \in DOMAIN disk \ DOMAIN Local : ~disk[p].dir => FiledAt(p)

(* What was installed under a checksum is found by Stat.                   *)
Found == \A s \in installed :
  Checksum(s) # "" => Runnable(Join(CacheDir(s, Checksum(s)), s.binary))

IInv == /\ Typed
        /\ \A g \in Gateways : ControlOf(g)
        /\ \A g \in Gateways : PlacedOf(g)
        /\ Filed /\ Found

(* Where the cache is tidy: what runs.                                     *)
RunsOf(g) ==
  pc[g] = "running" =>
    /\ src[g].type = "github" /\ Checksum(src[g]) # "" => run[g].of = Means[Checksum(src[g])]
    /\ ~run[g].whole => Ships(run[g].of, TRUE) \/ Path(g) \in contested

(* The operator's own files are never touched.                             *)
Untouched == \A p \in DOMAIN Local : p \in DOMAIN disk => disk[p].whole

(* A file that is not whole belongs to an entry of its archive, and is not *)
(* executable but for the reasons that ChmodCommits names.                 *)
EntryAt(p) ==
  \E s \in Kept, sum \in DOMAIN Means : \E i \in DOMAIN Archive[disk[p].of] :
    /\ Means[sum] = disk[p].of /\ Archive[disk[p].of][i].kind = "reg"
    /\ p = SafeJoin(CacheDir(s, sum), Archive[disk[p].of][i])
TornAt(p) ==
  /\ ~disk[p].dir /\ p # <<>> /\ EntryAt(p)
  /\ disk[p].exec => Ships(disk[p].of, TRUE) \/ p \in contested
Torn == \A p \in DOMAIN disk : ~disk[p].whole => TornAt(p)

(* What a gateway has extracted is whole, what it writes is in its hands,  *)
(* unless another one came in between.                                     *)
Settled(p) == p \in DOMAIN disk /\ (disk[p].whole \/ p \in contested)
DoneOf(g) ==
  /\ pc[g] \in Working =>
       \A i \in 1 .. entry[g] - 1 :
         Archive[got[g]][i].kind = "reg" => Settled(SafeJoin(Dest(g), Archive[got[g]][i]))
  /\ pc[g] = "write" => disk[Target(g)].by = g \/ Target(g) \in contested

Tidy == /\ IInv
        /\ \A g \in Gateways : RunsOf(g)
        /\ Untouched /\ Torn
        /\ \A g \in Gateways : DoneOf(g)

-----------------------------------------------------------------------------
(***************************************************************************)
(* What every step leaves alone.                                           *)
(***************************************************************************)
Still(g) ==
  /\ pc'[g] = pc[g] /\ src'[g] = src[g] /\ got'[g] = got[g]
  /\ entry'[g] = entry[g] /\ sha'[g] = sha[g] /\ run'[g] = run[g]

(* The disk only grows: nothing is removed, no file becomes a directory or *)
(* a directory a file, and no execute bit is cleared.                      *)
Grows ==
  /\ DOMAIN disk \subseteq DOMAIN disk'
  /\ \A p \in DOMAIN disk : disk'[p].dir = disk[p].dir /\ (disk[p].exec => disk'[p].exec)

(* A gateway that does not move means the same paths as before.            *)
LEMMA SamePaths ==
  ASSUME NEW g \in Gateways, Still(g)
  PROVE  /\ Dest(g)' = Dest(g) /\ Entry(g)' = Entry(g) /\ Target(g)' = Target(g)
         /\ Path(g)' = Path(g)
  <1>1. src'[g] = src[g] /\ got'[g] = got[g] /\ entry'[g] = entry[g]
    BY DEF Still
  <1>2. Dest(g)' = Dest(g) /\ Entry(g)' = Entry(g)
    BY <1>1 DEF Dest, Entry
  <1>3. Target(g)' = Target(g)
    BY <1>2 DEF Target
  <1>4. Path(g)' = Path(g)
    BY <1>1, <1>2 DEF Path, Cached, Extracted
  <1> QED BY <1>2, <1>3, <1>4

(* The path that a gateway executes depends on its start only.             *)
LEMMA SamePath ==
  ASSUME NEW g \in Gateways, src'[g] = src[g], got'[g] = got[g]
  PROVE  Dest(g)' = Dest(g) /\ Path(g)' = Path(g) /\ Extracted(g)' = Extracted(g)
  BY DEF Path, Cached, Extracted, Dest

(* A step is a step of one gateway.                                        *)
LEMMA OthersStayStill ==
  ASSUME Typed, NEW g \in Gateways, Step(g), NEW h \in Gateways \ {g}
  PROVE  Still(h)
  <1> USE DEF Go, Typed, GatewaysTyped, DiskTyped, Still
  <1>1. ASSUME NEW s \in Sources, Begin(g, s) PROVE Still(h)
    BY <1>1 DEF Begin
  <1>2. CASE Stat(g)
    BY <1>2 DEF Stat
  <1>3. ASSUME NEW a \in Archives, Download(g, a) PROVE Still(h)
    BY <1>3 DEF Download
  <1>4. CASE ExtractDir(g)
    BY <1>4 DEF ExtractDir
  <1>5. CASE OpenFile(g)
    <2>1. pc' = [pc EXCEPT ![g] = "write"] /\ UNCHANGED <<src, got, entry, sha, run>>
      BY <1>5, OpenEffect
    <2> QED BY <2>1
  <1>6. CASE CloseFile(g)
    <2>1. /\ pc' = [pc EXCEPT ![g] = "extract"] /\ entry' = [entry EXCEPT ![g] = entry[g] + 1]
          /\ UNCHANGED <<src, got, sha, run>>
      BY <1>6, CloseEffect
    <2> QED BY <2>1
  <1>7. CASE ExtractEnds(g)
    BY <1>7 DEF ExtractEnds
  <1>8. CASE Chmod(g)
    BY <1>8, ChmodEffect
  <1>9. CASE Verify(g)
    BY <1>9 DEF Verify
  <1>10. CASE Launch(g)
    BY <1>10 DEF Launch
  <1>11. CASE Fail(g)
    BY <1>11 DEF Fail
  <1> QED
    BY <1>1, <1>2, <1>3, <1>4, <1>5, <1>6, <1>7, <1>8, <1>9, <1>10, <1>11 DEF Step

(* The steps that leave the disk and the histories as they are.            *)
Quiet(g) ==
  \/ \E s \in Sources : Begin(g, s)
  \/ Stat(g) \/ ExtractEnds(g) \/ Verify(g) \/ Launch(g) \/ Fail(g)

(* They do.                                                                *)
LEMMA QuietKeeps ==
  ASSUME NEW g \in Gateways, Quiet(g)
  PROVE  UNCHANGED <<disk, installed, contested>>
  BY DEF Quiet, Begin, Stat, ExtractEnds, Verify, Launch, Fail

(* The steps that make directories.                                        *)
Makes(g) == (\E a \in Archives : Download(g, a)) \/ ExtractDir(g)

(* MkdirAll adds directories and changes nothing that is there.            *)
LEMMA MakesKeeps ==
  ASSUME NEW g \in Gateways, Makes(g)
  PROVE  /\ UNCHANGED <<installed, contested>>
         /\ DOMAIN disk \subseteq DOMAIN disk'
         /\ \A q \in DOMAIN disk' : disk'[q] = IF q \in DOMAIN disk THEN disk[q] ELSE Folder
  <1>1. PICK p : disk' = WithDirs(disk, p) /\ UNCHANGED <<installed, contested>>
    BY DEF Makes, Download, ExtractDir
  <1> QED BY <1>1, MkdirEffect

(* There are no other steps.                                               *)
LEMMA StepKinds ==
  ASSUME NEW g \in Gateways, Step(g)
  PROVE  Quiet(g) \/ Makes(g) \/ OpenFile(g) \/ CloseFile(g) \/ Chmod(g)
  BY DEF Step, Quiet, Makes

(* The fields of what is on the disk.                                      *)
LEMMA FolderFields ==
  /\ Folder.dir /\ Folder.whole /\ Folder.exec /\ Folder.of = ""
  /\ Folder \in Nodes
  <1>1. Folder.dir /\ Folder.whole /\ Folder.exec /\ Folder.of = "" /\ Folder.by = Nobody
    BY DEF Folder
  <1>2. TRUE \in BOOLEAN /\ "" \in Contents \cup {""} /\ Nobody \in Gateways \cup {Nobody}
    OBVIOUS
  <1>3. Folder \in Nodes
    BY <1>2, Zenon DEF Folder, Nodes
  <1> QED BY <1>1, <1>3

(* A record with these fields is one of them.                              *)
LEMMA NodeOf ==
  ASSUME NEW o \in Contents \cup {""}, NEW w \in BOOLEAN, NEW x \in BOOLEAN,
         NEW b \in Gateways \cup {Nobody}
  PROVE  [dir |-> FALSE, of |-> o, whole |-> w, exec |-> x, by |-> b] \in Nodes
  BY DEF Nodes

(* What OpenFile leaves at its target: the mode is the entry's for a new   *)
(* file only.                                                              *)
LEMMA OpenFields ==
  ASSUME Typed, NEW g \in Gateways, OpenFile(g), got[g] \in Archives,
         Entry(g).exec \in BOOLEAN
  PROVE  LET p == Target(g)
         IN  /\ disk'[p] \in Nodes /\ disk'[p].of = got[g] /\ disk'[p].by = g
             /\ ~disk'[p].dir /\ ~disk'[p].whole
             /\ disk'[p].exec = IF p \in DOMAIN disk THEN disk[p].exec ELSE Entry(g).exec
  <1> DEFINE p == Target(g)
             x == Mode(p, Entry(g))
  <1>1. disk'[p] = [dir |-> FALSE, of |-> got[g], whole |-> FALSE, exec |-> x, by |-> g]
    BY OpenEffect
  <1>2. x = IF p \in DOMAIN disk THEN disk[p].exec ELSE Entry(g).exec
    BY DEF Mode, Exists
  <1>3. p \in DOMAIN disk => disk[p].exec \in BOOLEAN
    BY DEF Typed, GatewaysTyped, DiskTyped, Nodes
  <1> HIDE DEF p
  <1>4. x \in BOOLEAN
    BY <1>2, <1>3
  <1> HIDE DEF x
  <1>5. got[g] \in Contents \cup {""} /\ g \in Gateways \cup {Nobody} /\ FALSE \in BOOLEAN
    BY DEF Contents
  <1>6. disk'[p] \in Nodes
    <2>1. [dir |-> FALSE, of |-> got[g], whole |-> FALSE, exec |-> x, by |-> g] \in Nodes
      BY <1>4, <1>5, NodeOf
    <2> QED BY <1>1, <2>1, Zenon
  <1>7. disk'[p].of = got[g] /\ disk'[p].by = g
    BY <1>1
  <1>8. ~disk'[p].dir /\ ~disk'[p].whole
    BY <1>1
  <1>9. disk'[p].exec = x
    BY <1>1
  <1> QED BY <1>2, <1>6, <1>7, <1>8, <1>9 DEF p

(* What CloseFile leaves there: nothing new, if another gateway truncated  *)
(* it.                                                                     *)
LEMMA CloseFields ==
  ASSUME Typed, NEW g \in Gateways, CloseFile(g), got[g] \in Archives, Target(g) \in DOMAIN disk
  PROVE  LET p == Target(g)
         IN  /\ disk'[p] \in Nodes /\ disk'[p].exec = disk[p].exec
             /\ disk[p].by # g => disk'[p] = disk[p]
             /\ disk[p].by = g => disk'[p].of = got[g] /\ ~disk'[p].dir /\ disk'[p].whole
  <1> DEFINE p == Target(g)
  <1>1. disk'[p] = IF disk[p].by = g
                   THEN [dir |-> FALSE, of |-> got[g], whole |-> TRUE,
                         exec |-> disk[p].exec, by |-> Nobody]
                   ELSE disk[p]
    BY CloseEffect
  <1>2. disk[p] \in Nodes /\ disk[p].exec \in BOOLEAN
    BY DEF Typed, GatewaysTyped, DiskTyped, Nodes
  <1>3. got[g] \in Contents \cup {""} /\ Nobody \in Gateways \cup {Nobody}
        /\ FALSE \in BOOLEAN /\ TRUE \in BOOLEAN
    BY DEF Contents
  <1> HIDE DEF p
  <1>4. CASE disk[p].by = g
    <2>1. disk'[p] = [dir |-> FALSE, of |-> got[g], whole |-> TRUE,
                      exec |-> disk[p].exec, by |-> Nobody]
      BY <1>1, <1>4
    <2>2. disk'[p] \in Nodes
      <3> DEFINE x == disk[p].exec
      <3>1. x \in BOOLEAN
        BY <1>2
      <3> HIDE DEF x
      <3>2. [dir |-> FALSE, of |-> got[g], whole |-> TRUE, exec |-> x, by |-> Nobody] \in Nodes
        BY <1>3, <3>1, NodeOf
      <3> QED BY <2>1, <3>2, Zenon DEF x
    <2>3. disk'[p].of = got[g]
      BY <2>1
    <2>4. ~disk'[p].dir /\ disk'[p].whole
      BY <2>1
    <2>5. disk'[p].exec = disk[p].exec
      BY <2>1
    <2> QED BY <1>4, <2>2, <2>3, <2>4, <2>5 DEF p
  <1>5. CASE disk[p].by # g
    BY <1>1, <1>2, <1>5 DEF p
  <1> QED BY <1>4, <1>5

(* Chmod sets one bit.                                                     *)
LEMMA ChmodFields ==
  ASSUME Typed, NEW g \in Gateways, Chmod(g)
  PROVE  LET p == Extracted(g)
         IN  /\ disk'[p] \in Nodes /\ disk'[p].exec
             /\ disk'[p].dir = disk[p].dir /\ disk'[p].of = disk[p].of
             /\ disk'[p].whole = disk[p].whole /\ disk'[p].by = disk[p].by
  <1> DEFINE p == Extracted(g)
  <1>1. disk'[p] = [disk[p] EXCEPT !.exec = TRUE] /\ p \in DOMAIN disk
    BY ChmodEffect
  <1>2. disk[p] \in Nodes
    BY <1>1 DEF Typed, GatewaysTyped, DiskTyped
  <1> HIDE DEF p
  <1> QED BY <1>1, <1>2 DEF Nodes, p

(* Replace changes the content only.                                       *)
LEMMA ReplaceFields ==
  ASSUME Typed, NEW p, NEW a, Replace(p, a), p \in DOMAIN disk
  PROVE  /\ disk'[p] \in Nodes /\ disk'[p].exec = disk[p].exec
         /\ disk'[p].dir = disk[p].dir /\ disk'[p].whole = disk[p].whole
         /\ disk'[p].by = disk[p].by
  <1>1. disk'[p] = [disk[p] EXCEPT !.of = a] /\ disk[p] \in Nodes
        /\ p \in DOMAIN Local /\ a \in Local[p]
    BY ReplaceEffect DEF Typed, GatewaysTyped, DiskTyped
  <1>2. a \in Contents
    BY <1>1 DEF Contents
  <1> QED BY <1>1, <1>2 DEF Nodes

(* Where a gateway extracts to is a directory of its archive.              *)
LEMMA Located ==
  ASSUME Typed, NEW g \in Gateways, ControlOf(g), pc[g] \in Working
  PROVE  /\ src[g] \in Kept /\ got[g] \in Archives
         /\ CacheSum(src[g], got[g]) \in DOMAIN Means
         /\ Means[CacheSum(src[g], got[g])] = got[g]
         /\ DOMAIN Archive[got[g]] = 1 .. Len(Archive[got[g]]) /\ Len(Archive[got[g]]) \in Nat
         /\ entry[g] \in 1 .. Len(Archive[got[g]]) + 1
  <1>1. src[g] \in Kept /\ got[g] \in Archives /\ entry[g] \in 1 .. Len(Archive[got[g]]) + 1
    BY DEF Typed, GatewaysTyped, DiskTyped, Downloads, ControlOf, Kept
  <1>2. got[g] \in DOMAIN Means /\ Means[got[g]] = got[g]
    BY <1>1, CacheAssumption DEF Contents
  <1>3. Checksum(src[g]) \in DOMAIN Means \cup {""}
    BY <1>1, CacheAssumption DEF Checksum, Kept
  <1>4. Checksum(src[g]) # "" => Means[Checksum(src[g])] = got[g]
    BY DEF ControlOf
  <1>5. DOMAIN Archive[got[g]] = 1 .. Len(Archive[got[g]]) /\ Len(Archive[got[g]]) \in Nat
    BY <1>1, CacheAssumption
  <1> QED BY <1>1, <1>2, <1>3, <1>4, <1>5 DEF CacheSum

(* A file that safeJoin allows lies strictly below the directory.          *)
LEMMA TargetBelow ==
  ASSUME NEW g \in Gateways, PlacedOf(g), pc[g] \in Working, Target(g) # <<>>,
         Target(g) \in DOMAIN disk => ~disk[Target(g)].dir
  PROVE  IsStrictPrefix(Dest(g), Target(g))
  <1>1. IsPrefix(Dest(g), Target(g))
    BY SafeJoinStays DEF Target
  <1>2. Dest(g) # Target(g)
    BY DEF PlacedOf
  <1> QED BY <1>1, <1>2 DEF IsStrictPrefix

(* The entry that a gateway is at, while there is one.                     *)
LEMMA AtEntry ==
  ASSUME Typed, NEW g \in Gateways, ControlOf(g), pc[g] \in Working,
         entry[g] <= Len(Archive[got[g]])
  PROVE  /\ entry[g] \in DOMAIN Archive[got[g]] /\ Entry(g) = Archive[got[g]][entry[g]]
         /\ Entry(g).exec \in BOOLEAN /\ entry[g] \in 1 .. Len(Archive[got[g]])
  <1>1. /\ got[g] \in Archives /\ entry[g] \in 1 .. Len(Archive[got[g]]) + 1
        /\ DOMAIN Archive[got[g]] = 1 .. Len(Archive[got[g]]) /\ Len(Archive[got[g]]) \in Nat
    BY Located
  <1>2. entry[g] \in 1 .. Len(Archive[got[g]])
    BY <1>1
  <1>3. Archive[got[g]][entry[g]].exec \in BOOLEAN
    BY <1>1, <1>2, CacheAssumption
  <1> QED BY <1>1, <1>2, <1>3 DEF Entry

(* What a gateway writes exists.                                           *)
LEMMA Writing ==
  ASSUME Typed, NEW g \in Gateways, ControlOf(g), PlacedOf(g), pc[g] = "write"
  PROVE  /\ pc[g] \in Working /\ Target(g) \in DOMAIN disk /\ ~disk[Target(g)].dir
         /\ Target(g) # <<>> /\ got[g] \in Archives
  <1>1. pc[g] \in Working
    BY DEF Working
  <1> QED BY <1>1, Located DEF PlacedOf

(* Opening a file keeps what is there: the target was no directory, and    *)
(* O_TRUNC keeps its mode.                                                 *)
LEMMA OpenGrows ==
  ASSUME Typed, NEW g \in Gateways, ControlOf(g), OpenFile(g)
  PROVE  Grows
  <1> DEFINE p == Target(g)
  <1>1. ChangesAt(p) /\ (p \in DOMAIN disk => ~disk[p].dir) /\ pc[g] = "extract"
        /\ entry[g] <= Len(Archive[got[g]])
    BY OpenEffect
  <1>2. pc[g] \in Working
    BY <1>1 DEF Working
  <1>3. got[g] \in Archives /\ Entry(g).exec \in BOOLEAN
    BY <1>1, <1>2, Located, AtEntry
  <1>4. ~disk'[p].dir /\ (p \in DOMAIN disk => disk'[p].exec = disk[p].exec)
    BY <1>3, OpenFields
  <1> HIDE DEF p
  <1>5. ASSUME NEW q \in DOMAIN disk
        PROVE  disk'[q].dir = disk[q].dir /\ (disk[q].exec => disk'[q].exec)
    <2>1. CASE q = p
      <3>1. disk[q].dir \in BOOLEAN /\ ~disk[q].dir /\ ~disk'[q].dir /\ disk'[q].exec = disk[q].exec
        BY <1>1, <1>4, <2>1 DEF Typed, GatewaysTyped, DiskTyped, Nodes
      <3>2. disk'[q].dir \in BOOLEAN
        BY <1>3, <2>1, OpenFields DEF Nodes, p
      <3> QED BY <3>1, <3>2
    <2>2. CASE q # p
      BY <1>1, <2>2 DEF ChangesAt
    <2> QED BY <2>1, <2>2
  <1> QED BY <1>1, <1>5 DEF Grows, ChangesAt

(* Closing it does too.                                                    *)
LEMMA CloseGrows ==
  ASSUME Typed, NEW g \in Gateways, ControlOf(g), PlacedOf(g), CloseFile(g)
  PROVE  Grows
  <1> DEFINE p == Target(g)
  <1>1. ChangesAt(p) /\ pc[g] = "write"
    BY CloseEffect
  <1>2. p \in DOMAIN disk /\ ~disk[p].dir /\ got[g] \in Archives
    BY <1>1, Writing
  <1>3. /\ disk'[p] \in Nodes /\ disk[p] \in Nodes /\ disk'[p].exec = disk[p].exec
        /\ disk[p].by # g => disk'[p] = disk[p]
        /\ disk[p].by = g => ~disk'[p].dir
    BY <1>2, CloseFields DEF Typed, GatewaysTyped, DiskTyped
  <1> HIDE DEF p
  <1>4. disk'[p].dir \in BOOLEAN /\ disk[p].dir \in BOOLEAN
    BY <1>3 DEF Nodes
  <1>5. disk'[p].dir = disk[p].dir
    BY <1>2, <1>3, <1>4
  <1> QED BY <1>1, <1>3, <1>5 DEF Grows, ChangesAt

(* So does Chmod.                                                          *)
LEMMA ChmodGrows ==
  ASSUME Typed, NEW g \in Gateways, Chmod(g)
  PROVE  Grows
  <1> DEFINE p == Extracted(g)
  <1>1. ChangesAt(p) /\ disk'[p].dir = disk[p].dir /\ disk'[p].exec
    BY ChmodEffect, ChmodFields
  <1> HIDE DEF p
  <1> QED BY <1>1 DEF Grows, ChangesAt

(* So does the operator.                                                   *)
LEMMA ReplaceGrows ==
  ASSUME Typed, NEW p, NEW a, Replace(p, a)
  PROVE  Grows
  <1>1. ChangesAt(p)
    BY ReplaceEffect
  <1>2. p \in DOMAIN disk => disk'[p].dir = disk[p].dir /\ disk'[p].exec = disk[p].exec
    BY ReplaceFields
  <1> QED BY <1>1, <1>2 DEF Grows, ChangesAt

(* No step of a gateway takes anything from the disk.                      *)
LEMMA StepGrows ==
  ASSUME Typed, NEW g \in Gateways, ControlOf(g), PlacedOf(g), Step(g)
  PROVE  Grows
  <1>1. CASE Quiet(g)
    BY <1>1, QuietKeeps DEF Grows
  <1>2. CASE Makes(g)
    BY <1>2, MakesKeeps DEF Grows
  <1> QED BY <1>1, <1>2, StepKinds, OpenGrows, CloseGrows, ChmodGrows

-----------------------------------------------------------------------------
(***************************************************************************)
(* The types are kept.                                                     *)
(***************************************************************************)
LEMMA DiskTypedInStep ==
  ASSUME Typed, NEW g \in Gateways, ControlOf(g), PlacedOf(g), Step(g)
  PROVE  DiskTyped'
  <1>0. DiskTyped
    BY DEF Typed, DiskTyped
  <1>1. CASE Quiet(g)
    BY <1>0, <1>1, QuietKeeps DEF DiskTyped
  <1>2. CASE Makes(g)
    BY <1>0, <1>2, MakesKeeps, FolderFields DEF DiskTyped
  <1>3. CASE OpenFile(g)
    <2> DEFINE p == Target(g)
    <2>1. ChangesAt(p) /\ pc[g] = "extract" /\ entry[g] <= Len(Archive[got[g]])
          /\ installed' = installed /\ (contested' = contested \cup {p} \/ contested' = contested)
          /\ p \in DOMAIN disk'
      BY <1>3, OpenEffect
    <2>2. pc[g] \in Working
      BY <2>1 DEF Working
    <2>3. got[g] \in Archives /\ Entry(g).exec \in BOOLEAN
      BY <2>1, <2>2, Located, AtEntry
    <2>4. disk'[p] \in Nodes
      BY <1>3, <2>3, OpenFields
    <2> HIDE DEF p
    <2> QED BY <1>0, <2>1, <2>4, FolderFields DEF DiskTyped, ChangesAt
  <1>4. CASE CloseFile(g)
    <2> DEFINE p == Target(g)
    <2>1. ChangesAt(p) /\ pc[g] = "write" /\ UNCHANGED <<installed, contested>>
      BY <1>4, CloseEffect
    <2>2. p \in DOMAIN disk /\ got[g] \in Archives
      BY <2>1, Writing
    <2>3. disk'[p] \in Nodes
      BY <1>4, <2>2, CloseFields
    <2> HIDE DEF p
    <2> QED BY <1>0, <2>1, <2>3, FolderFields DEF DiskTyped, ChangesAt
  <1>5. CASE Chmod(g)
    <2> DEFINE p == Extracted(g)
    <2>1. ChangesAt(p) /\ disk'[p] \in Nodes
          /\ (installed' = installed \/ installed' = installed \cup {src[g]})
          /\ UNCHANGED contested
      BY <1>5, ChmodEffect, ChmodFields
    <2>2. src[g] \in Sources
      BY DEF Typed, GatewaysTyped, DiskTyped
    <2> HIDE DEF p
    <2> QED BY <1>0, <2>1, <2>2, FolderFields DEF DiskTyped, ChangesAt
  <1> QED BY <1>1, <1>2, <1>3, <1>4, <1>5, StepKinds

(* Hash gives the name of a content, or something else.                    *)
LEMMA HashTyped ==
  ASSUME Typed, NEW p \in DOMAIN disk
  PROVE  Hash(p) \in Hashes
  <1>1. disk[p].of \in Contents \cup {""}
    BY DEF Typed, GatewaysTyped, DiskTyped, Nodes
  <1>2. Contents \subseteq DOMAIN Means
    BY CacheAssumption
  <1> QED BY <1>1, <1>2 DEF Hash, Hashes

(* The labels.                                                             *)
LEMMA LabelsAre ==
  /\ "off" \in Labels /\ "stat" \in Labels /\ "download" \in Labels /\ "extract" \in Labels
  /\ "write" \in Labels /\ "chmod" \in Labels /\ "verify" \in Labels
  /\ "launch" \in Labels /\ "running" \in Labels
  BY DEF Labels

(* The variables of a gateway, action by action.                           *)
LEMMA GatewaysTypedInStep ==
  ASSUME Typed, NEW g \in Gateways, Step(g)
  PROVE  GatewaysTyped'
  <1>0. GatewaysTyped
    BY DEF Typed, GatewaysTyped, DiskTyped
  <1>1. ASSUME NEW s \in Sources, Begin(g, s) PROVE GatewaysTyped'
    <2>1. starts + 1 \in 0 .. MaxStarts
      <3>1. MaxStarts \in Nat
        BY CacheAssumption
      <3>2. starts \in 0 .. MaxStarts /\ starts < MaxStarts
        BY <1>0, LabelsAre, <1>1 DEF Begin, GatewaysTyped
      <3> QED BY <3>1, <3>2
    <2>2. PICK l \in Labels : pc' = [pc EXCEPT ![g] = l]
      BY <1>1 DEF Begin, Go, Labels
    <2>3. src' = [src EXCEPT ![g] = s] /\ starts' = starts + 1 /\ UNCHANGED <<got, entry, sha, run>>
      BY <1>1 DEF Begin
    <2> QED BY <1>0, LabelsAre, <2>1, <2>2, <2>3 DEF GatewaysTyped
  <1>2. CASE Stat(g)
    <2>1. PICK l \in Labels : pc' = [pc EXCEPT ![g] = l]
      BY <1>2 DEF Stat, Go, Labels
    <2>2. Checksum(src[g]) \in Hashes
      <3>1. src[g] \in Sources
        BY <1>0 DEF GatewaysTyped
      <3> QED BY <3>1, CacheAssumption DEF Checksum, Hashes
    <2>3. UNCHANGED <<src, got, entry, run, starts>>
          /\ (sha' = sha \/ sha' = [sha EXCEPT ![g] = Checksum(src[g])])
      BY <1>2 DEF Stat
    <2> QED BY <1>0, LabelsAre, <2>1, <2>2, <2>3 DEF GatewaysTyped
  <1>3. ASSUME NEW a \in Archives, Download(g, a) PROVE GatewaysTyped'
    <2>1. a \in Downloads
      BY DEF Downloads
    <2> QED BY <1>0, LabelsAre, <1>3, <2>1 DEF Download, Go, GatewaysTyped
  <1>4. CASE ExtractDir(g)
    <2>1. UNCHANGED <<pc, src, got, sha, run, starts>> /\ entry' = [entry EXCEPT ![g] = entry[g] + 1]
      BY <1>4 DEF ExtractDir
    <2>2. entry[g] + 1 \in Nat
      BY <1>0 DEF GatewaysTyped
    <2> QED BY <1>0, <2>1, <2>2 DEF GatewaysTyped
  <1>5. CASE OpenFile(g)
    <2>1. pc' = [pc EXCEPT ![g] = "write"] /\ UNCHANGED <<src, got, entry, sha, run, starts>>
      BY <1>5, OpenEffect
    <2> QED BY <1>0, LabelsAre, <2>1 DEF GatewaysTyped
  <1>6. CASE CloseFile(g)
    <2>1. /\ pc' = [pc EXCEPT ![g] = "extract"] /\ entry' = [entry EXCEPT ![g] = entry[g] + 1]
          /\ UNCHANGED <<src, got, sha, run, starts>>
      BY <1>6, CloseEffect
    <2> QED BY <1>0, LabelsAre, <2>1 DEF GatewaysTyped
  <1>7. CASE ExtractEnds(g)
    BY <1>0, LabelsAre, <1>7 DEF ExtractEnds, Go, GatewaysTyped
  <1>8. CASE Chmod(g)
    <2>1. pc' = [pc EXCEPT ![g] = "verify"] /\ UNCHANGED <<src, got, entry, sha, run, starts>>
      BY <1>8, ChmodEffect
    <2> QED BY <1>0, LabelsAre, <2>1 DEF GatewaysTyped
  <1>9. CASE Verify(g)
    <2>1. Hash(Path(g)) \in Hashes
      BY <1>9, HashTyped DEF Verify, Runnable, Exists
    <2> QED BY <1>0, LabelsAre, <1>9, <2>1 DEF Verify, Go, GatewaysTyped
  <1>10. CASE Launch(g)
    <2>1. disk[Path(g)] \in Nodes
      BY <1>10 DEF Launch, Runnable, Exists, Typed, GatewaysTyped, DiskTyped
    <2> QED BY <1>0, LabelsAre, <1>10, <2>1 DEF Launch, Go, GatewaysTyped
  <1>11. CASE Fail(g)
    <2>1. "" \in Downloads /\ "" \in Hashes
      BY DEF Downloads, Hashes
    <2> QED BY <1>0, LabelsAre, <1>11, <2>1, FolderFields DEF Fail, Go, GatewaysTyped
  <1> QED
    BY <1>1, <1>2, <1>3, <1>4, <1>5, <1>6, <1>7, <1>8, <1>9, <1>10, <1>11 DEF Step

(* A step of a gateway keeps all types.                                    *)
LEMMA TypedInStep ==
  ASSUME Typed, NEW g \in Gateways, ControlOf(g), PlacedOf(g), Step(g)
  PROVE  Typed'
  BY DiskTypedInStep, GatewaysTypedInStep DEF Typed

(* So does the operator.                                                   *)
LEMMA TypedInReplace ==
  ASSUME Typed, NEW p, NEW a, Replace(p, a)
  PROVE  Typed'
  <1>1. ChangesAt(p) /\ DOMAIN disk' = DOMAIN disk
        /\ UNCHANGED <<pc, src, got, entry, sha, run, starts, installed, contested>>
    BY ReplaceEffect
  <1>2. p \in DOMAIN disk => disk'[p] \in Nodes
    BY ReplaceFields
  <1>3. \A q \in DOMAIN disk' : disk'[q] \in Nodes
    BY <1>1, <1>2 DEF Typed, GatewaysTyped, DiskTyped, ChangesAt
  <1> QED BY <1>1, <1>3 DEF Typed, GatewaysTyped, DiskTyped

(* Init.                                                                   *)
LEMMA InitTyped ==
  ASSUME Init
  PROVE  Typed
  <1>1. \A p \in DOMAIN disk : disk[p] \in Nodes
    <2>1. PICK own \in [DOMAIN Local -> Contents] :
            disk = [p \in DOMAIN Local |-> File(own[p], TRUE)]
      BY DEF Init
    <2>2. ASSUME NEW p \in DOMAIN disk PROVE disk[p] \in Nodes
      <3>1. own[p] \in Contents \cup {""} /\ Nobody \in Gateways \cup {Nobody} /\ TRUE \in BOOLEAN
        BY <2>1
      <3>2. [dir |-> FALSE, of |-> own[p], whole |-> TRUE, exec |-> TRUE, by |-> Nobody] \in Nodes
        BY <3>1, NodeOf
      <3>3. disk[p] = [dir |-> FALSE, of |-> own[p], whole |-> TRUE, exec |-> TRUE, by |-> Nobody]
        BY <2>1 DEF File
      <3> QED BY <3>2, <3>3, Zenon
    <2> QED BY <2>2
  <1>2. (CHOOSE s \in Sources : TRUE) \in Sources
    BY CacheAssumption
  <1>3. "off" \in Labels
    BY DEF Labels
  <1>4. 0 \in 0 .. MaxStarts
    <2>1. MaxStarts \in Nat
      BY CacheAssumption
    <2> QED BY <2>1
  <1>5. "" \in Downloads /\ "" \in Hashes
    BY DEF Downloads, Hashes
  <1> QED BY <1>1, <1>2, <1>3, <1>4, <1>5, FolderFields DEF Init, Typed, GatewaysTyped, DiskTyped

-----------------------------------------------------------------------------
(***************************************************************************)
(* The places of a gateway are kept.                                       *)
(***************************************************************************)
(* A gateway that does not move stays where it was.                        *)
LEMMA ControlStays ==
  ASSUME NEW g \in Gateways, ControlOf(g), Still(g)
  PROVE  ControlOf(g)'
  <1>1. /\ pc'[g] = pc[g] /\ src'[g] = src[g] /\ got'[g] = got[g]
        /\ entry'[g] = entry[g] /\ sha'[g] = sha[g]
    BY DEF Still
  <1> QED BY <1>1 DEF ControlOf

(* The new place of the gateway that moves.                                *)
Moved(g, l) ==
  /\ pc'[g] = l /\ src'[g] = src[g] /\ got'[g] = got[g]
  /\ entry'[g] = entry[g] /\ sha'[g] = sha[g]

(* The gateway that moves, action by action: resolveSource decides where   *)
(* it begins, the comparison of the checksums what it may have downloaded. *)
LEMMA ControlMoves ==
  ASSUME Typed, NEW g \in Gateways, ControlOf(g), PlacedOf(g), Step(g)
  PROVE  ControlOf(g)'
  <1>0. /\ pc \in [Gateways -> Labels] /\ src \in [Gateways -> Sources]
        /\ got \in [Gateways -> Downloads] /\ entry \in [Gateways -> Nat]
        /\ sha \in [Gateways -> Hashes]
    BY DEF Typed, GatewaysTyped
  <1>1. ASSUME NEW s \in Sources, Begin(g, s) PROVE ControlOf(g)'
    <2>1. /\ pc[g] = "off" /\ src'[g] = s /\ got'[g] = "" /\ entry'[g] = entry[g]
          /\ pc'[g] = CASE s.type = "filesystem" -> "verify"
                        [] s.type = "github" /\ Checksum(s) # "" -> "stat"
                        [] s.type = "github" /\ Checksum(s) = "" -> "download"
                        [] OTHER -> "off"
      BY <1>0, <1>1, Zenon DEF Begin, Go, ControlOf
    <2>2. \/ s.type = "filesystem" /\ pc'[g] = "verify"
          \/ s.type = "github" /\ Checksum(s) # "" /\ pc'[g] = "stat"
          \/ s.type = "github" /\ pc'[g] = "download"
          \/ pc'[g] = "off"
      BY <2>1
    <2> QED BY <2>1, <2>2 DEF ControlOf, Working
  <1>2. CASE Stat(g)
    <2>1. /\ pc[g] = "stat" /\ src'[g] = src[g] /\ got'[g] = got[g] /\ entry'[g] = entry[g]
          /\ pc'[g] \in {"launch", "download"}
      BY <1>0, <1>2 DEF Stat, Go
    <2> QED BY <2>1 DEF ControlOf, Working
  <1>3. ASSUME NEW a \in Archives, Download(g, a) PROVE ControlOf(g)'
    <2>1. /\ pc[g] = "download" /\ pc'[g] = "extract" /\ src'[g] = src[g]
          /\ got'[g] = a /\ entry'[g] = 1
          /\ Checksum(src[g]) # "" => Means[Checksum(src[g])] = a
      BY <1>0, <1>3 DEF Download, Go
    <2>2. a # ""
      BY CacheAssumption
    <2>3. 1 \in 1 .. Len(Archive[a]) + 1
      <3>1. Len(Archive[a]) \in Nat
        BY CacheAssumption
      <3> QED BY <3>1
    <2> QED BY <2>1, <2>2, <2>3 DEF ControlOf, Working
  <1>4. CASE ExtractDir(g)
    <2>1. /\ pc[g] = "extract" /\ pc'[g] = pc[g] /\ src'[g] = src[g] /\ got'[g] = got[g]
          /\ entry[g] <= Len(Archive[got[g]]) /\ entry'[g] = entry[g] + 1
      BY <1>0, <1>4 DEF ExtractDir
    <2>2. pc[g] \in Working
      BY <2>1 DEF Working
    <2>3. Len(Archive[got[g]]) \in Nat /\ entry[g] \in 1 .. Len(Archive[got[g]]) + 1
      BY <2>2, Located
    <2>4. entry'[g] \in 1 .. Len(Archive[got[g]]) + 1
      BY <2>1, <2>3
    <2> QED BY <2>1, <2>4 DEF ControlOf, Working
  <1>5. CASE OpenFile(g)
    <2>1. pc' = [pc EXCEPT ![g] = "write"] /\ UNCHANGED <<src, got, entry, sha>>
          /\ pc[g] = "extract"
      BY <1>5, OpenEffect
    <2>2. Moved(g, "write")
      BY <1>0, <2>1 DEF Moved
    <2> QED BY <2>1, <2>2 DEF ControlOf, Working, Moved
  <1>6. CASE CloseFile(g)
    <2>1. /\ pc' = [pc EXCEPT ![g] = "extract"] /\ entry' = [entry EXCEPT ![g] = entry[g] + 1]
          /\ UNCHANGED <<src, got, sha>> /\ pc[g] = "write"
      BY <1>6, CloseEffect
    <2>2. pc'[g] = "extract" /\ entry'[g] = entry[g] + 1 /\ src'[g] = src[g] /\ got'[g] = got[g]
      BY <1>0, <2>1
    <2>3. pc[g] \in Working
      BY <2>1 DEF Working
    <2>4. Len(Archive[got[g]]) \in Nat /\ entry[g] \in 1 .. Len(Archive[got[g]])
      BY <2>1, <2>3, Located DEF PlacedOf
    <2>5. entry'[g] \in 1 .. Len(Archive[got[g]]) + 1
      BY <2>2, <2>4
    <2> QED BY <2>1, <2>2, <2>5 DEF ControlOf, Working
  <1>7. CASE ExtractEnds(g)
    <2>1. Moved(g, "chmod") /\ pc[g] = "extract" /\ entry[g] > Len(Archive[got[g]])
      BY <1>0, <1>7 DEF ExtractEnds, Go, Moved
    <2>2. pc[g] \in Working
      BY <2>1 DEF Working
    <2>3. Len(Archive[got[g]]) \in Nat /\ entry[g] \in 1 .. Len(Archive[got[g]]) + 1
      BY <2>2, Located
    <2>4. entry[g] = Len(Archive[got[g]]) + 1
      BY <2>1, <2>3
    <2> QED BY <2>1, <2>4 DEF ControlOf, Working, Moved
  <1>8. CASE Chmod(g)
    <2>1. pc' = [pc EXCEPT ![g] = "verify"] /\ UNCHANGED <<src, got, entry, sha>>
          /\ pc[g] = "chmod"
      BY <1>8, ChmodEffect
    <2>2. Moved(g, "verify")
      BY <1>0, <2>1 DEF Moved
    <2> QED BY <2>1, <2>2 DEF ControlOf, Working, Moved
  <1>9. CASE Verify(g)
    <2>1. /\ pc[g] = "verify" /\ pc'[g] = "launch" /\ src'[g] = src[g] /\ got'[g] = got[g]
          /\ entry'[g] = entry[g] /\ sha'[g] = Hash(Path(g))
          /\ src[g].type = "filesystem" /\ Checksum(src[g]) # "" =>
               Means[Checksum(src[g])] = Hash(Path(g))
      BY <1>0, <1>9 DEF Verify, Go
    <2> QED BY <2>1 DEF ControlOf, Working
  <1>10. CASE Launch(g)
    <2>1. Moved(g, "running") /\ pc[g] = "launch"
      BY <1>0, <1>10 DEF Launch, Go, Moved
    <2> QED BY <2>1 DEF ControlOf, Working, Moved
  <1>11. CASE Fail(g)
    <2>1. pc'[g] = "off" /\ src'[g] = src[g] /\ got'[g] = ""
      BY <1>0, <1>11 DEF Fail, Go
    <2> QED BY <2>1 DEF ControlOf, Working
  <1> QED
    BY <1>1, <1>2, <1>3, <1>4, <1>5, <1>6, <1>7, <1>8, <1>9, <1>10, <1>11 DEF Step

(* What is there for a gateway that does not move stays there.             *)
LEMMA PlacedStays ==
  ASSUME NEW g \in Gateways, PlacedOf(g), Still(g), Grows
  PROVE  PlacedOf(g)'
  <1>1. Dest(g)' = Dest(g) /\ Entry(g)' = Entry(g) /\ Target(g)' = Target(g)
    BY SamePaths
  <1>2. pc'[g] = pc[g] /\ got'[g] = got[g] /\ entry'[g] = entry[g]
    BY DEF Still
  <1>3. pc'[g] \in Working => Dest(g) \in DOMAIN disk' /\ disk'[Dest(g)].dir
    BY <1>2 DEF PlacedOf, Grows
  <1>4. pc'[g] = "write" =>
          /\ entry[g] \in 1 .. Len(Archive[got[g]]) /\ Entry(g).kind = "reg"
          /\ Target(g) # <<>>
          /\ Target(g) \in DOMAIN disk'
    BY <1>2 DEF PlacedOf, Grows
  <1>5. pc'[g] = "write" => ~disk'[Target(g)].dir
    BY <1>2 DEF PlacedOf, Grows
  <1> QED BY <1>1, <1>2, <1>3, <1>4, <1>5 DEF PlacedOf

(* What is there for the gateway that moves: MkdirAll has made its         *)
(* directory, OpenFile its target.                                         *)
LEMMA PlacedMoves ==
  ASSUME Typed, NEW g \in Gateways, ControlOf(g), PlacedOf(g), Step(g)
  PROVE  PlacedOf(g)'
  <1>0. /\ pc \in [Gateways -> Labels] /\ src \in [Gateways -> Sources]
        /\ got \in [Gateways -> Downloads] /\ entry \in [Gateways -> Nat]
    BY DEF Typed, GatewaysTyped
  <1>1. Grows
    BY StepGrows
  <1>2. ASSUME src'[g] = src[g], got'[g] = got[g], pc[g] \in Working
        PROVE  Dest(g)' = Dest(g) /\ Dest(g) \in DOMAIN disk' /\ disk'[Dest(g)].dir
    BY <1>1, <1>2, SamePath DEF PlacedOf, Grows
  <1>3. ASSUME pc'[g] \notin Working, pc'[g] # "write" PROVE PlacedOf(g)'
    BY <1>3 DEF PlacedOf
  <1>4. ASSUME NEW s \in Sources, Begin(g, s) PROVE PlacedOf(g)'
    <2>1. pc'[g] = CASE s.type = "filesystem" -> "verify"
                     [] s.type = "github" /\ Checksum(s) # "" -> "stat"
                     [] s.type = "github" /\ Checksum(s) = "" -> "download"
                     [] OTHER -> "off"
      BY <1>0, <1>4, Zenon DEF Begin, Go
    <2> QED BY <1>3, <2>1 DEF Working
  <1>5. CASE Stat(g)
    <2>1. pc'[g] \in {"launch", "download"}
      BY <1>0, <1>5 DEF Stat, Go
    <2> QED BY <1>3, <2>1 DEF Working
  <1>6. ASSUME NEW a \in Archives, Download(g, a) PROVE PlacedOf(g)'
    <2> DEFINE sum == CacheSum(src[g], a)
               dest == CacheDir(src[g], sum)
    <2>1. /\ pc'[g] = "extract" /\ src'[g] = src[g] /\ got'[g] = a
          /\ CanMkdir(dest) /\ disk' = WithDirs(disk, dest)
      BY <1>0, <1>6 DEF Download, Go
    <2>2. sum \in DOMAIN Means /\ src[g] \in Sources
      <3>1. a \in DOMAIN Means
        BY CacheAssumption DEF Contents
      <3>2. Checksum(src[g]) \in DOMAIN Means \cup {""}
        BY <1>0, CacheAssumption DEF Checksum
      <3> QED BY <1>0, <3>1, <3>2 DEF CacheSum
    <2>3. dest \in Upto(dest)
      BY <2>2, CacheDirMade
    <2>4. Dest(g)' = dest
      BY <2>1 DEF Dest
    <2> HIDE DEF dest
    <2>5. dest \in DOMAIN disk' /\ disk'[dest].dir
      BY <2>1, <2>3, DirExists
    <2> QED BY <2>1, <2>4, <2>5 DEF PlacedOf
  <1>7. CASE ExtractDir(g)
    <2>1. pc[g] = "extract" /\ pc'[g] = "extract" /\ src'[g] = src[g] /\ got'[g] = got[g]
      BY <1>0, <1>7 DEF ExtractDir
    <2> QED BY <1>2, <2>1 DEF PlacedOf, Working
  <1>8. CASE OpenFile(g)
    <2>1. /\ pc' = [pc EXCEPT ![g] = "write"] /\ UNCHANGED <<src, got, entry>>
          /\ pc[g] = "extract" /\ Target(g) \in DOMAIN disk' /\ Target(g) # <<>>
          /\ Entry(g).kind = "reg" /\ entry[g] <= Len(Archive[got[g]])
      BY <1>8, OpenEffect
    <2>2. src'[g] = src[g] /\ got'[g] = got[g] /\ entry'[g] = entry[g] /\ pc[g] \in Working
          /\ pc'[g] = "write"
      BY <1>0, <2>1 DEF Working
    <2>3. got[g] \in Archives /\ Entry(g).exec \in BOOLEAN /\ entry[g] \in 1 .. Len(Archive[got[g]])
      BY <2>1, <2>2, Located, AtEntry
    <2>4. ~disk'[Target(g)].dir
      BY <1>8, <2>3, OpenFields
    <2>5. Dest(g)' = Dest(g) /\ Dest(g) \in DOMAIN disk' /\ disk'[Dest(g)].dir
      BY <1>2, <2>2
    <2>6. Entry(g)' = Entry(g)
      BY <2>2 DEF Entry
    <2>7. Target(g)' = Target(g)
      BY <2>5, <2>6 DEF Target
    <2> QED BY <2>1, <2>2, <2>3, <2>4, <2>5, <2>6, <2>7 DEF PlacedOf
  <1>9. CASE CloseFile(g)
    <2>1. pc' = [pc EXCEPT ![g] = "extract"] /\ UNCHANGED <<src, got>> /\ pc[g] = "write"
      BY <1>9, CloseEffect
    <2>2. pc'[g] = "extract" /\ src'[g] = src[g] /\ got'[g] = got[g] /\ pc[g] \in Working
      BY <1>0, <2>1 DEF Working
    <2> QED BY <1>2, <2>2 DEF PlacedOf
  <1>10. CASE ExtractEnds(g)
    <2>1. pc[g] = "extract" /\ pc'[g] = "chmod" /\ src'[g] = src[g] /\ got'[g] = got[g]
      BY <1>0, <1>10 DEF ExtractEnds, Go
    <2> QED BY <1>2, <2>1 DEF PlacedOf, Working
  <1>11. CASE Chmod(g)
    <2>1. pc' = [pc EXCEPT ![g] = "verify"]
      BY <1>11, ChmodEffect
    <2>2. pc'[g] = "verify"
      BY <1>0, <2>1
    <2> QED BY <1>3, <2>2 DEF Working
  <1>12. CASE Verify(g) \/ Launch(g) \/ Fail(g)
    <2>1. pc'[g] \in {"launch", "running", "off"}
      BY <1>0, <1>12 DEF Verify, Launch, Fail, Go
    <2> QED BY <1>3, <2>1 DEF Working
  <1> QED
    BY <1>4, <1>5, <1>6, <1>7, <1>8, <1>9, <1>10, <1>11, <1>12 DEF Step

-----------------------------------------------------------------------------
(***************************************************************************)
(* Files stay filed, and what was installed stays found.                   *)
(***************************************************************************)
(* A file is filed where its content has not changed.                      *)
LEMMA FiledSame ==
  ASSUME NEW p, FiledAt(p), disk'[p].of = disk[p].of
  PROVE  FiledAt(p)'
  BY DEF FiledAt

(* The gateway that extracts files under its own archive.                  *)
LEMMA FiledHere ==
  ASSUME Typed, NEW g \in Gateways, ControlOf(g), PlacedOf(g), pc[g] \in Working,
         NEW p, p = Target(g), p # <<>>, p \in DOMAIN disk => ~disk[p].dir,
         disk'[p].of = got[g]
  PROVE  FiledAt(p)'
  <1> DEFINE z == src[g]
             sum == CacheSum(src[g], got[g])
  <1>1. z \in Kept /\ sum \in DOMAIN Means /\ Means[sum] = disk'[p].of
    BY Located
  <1>2. IsStrictPrefix(CacheDir(z, sum), p)
    BY TargetBelow DEF Dest
  <1> HIDE DEF z, sum
  <1> QED BY <1>1, <1>2 DEF FiledAt

(* No step of a gateway leaves a file elsewhere: safeJoin keeps what is    *)
(* opened below the directory, and the directory is named by the checksum. *)
LEMMA FiledInStep ==
  ASSUME Typed, NEW g \in Gateways, ControlOf(g), PlacedOf(g), Step(g), Filed
  PROVE  Filed'
  <1>1. CASE Quiet(g)
    BY <1>1, QuietKeeps DEF Filed, FiledAt
  <1>2. CASE Makes(g)
    <2>1. /\ DOMAIN disk \subseteq DOMAIN disk'
          /\ \A q \in DOMAIN disk' : disk'[q] = IF q \in DOMAIN disk THEN disk[q] ELSE Folder
      BY <1>2, MakesKeeps
    <2>2. ASSUME NEW p \in DOMAIN disk' \ DOMAIN Local, ~disk'[p].dir PROVE FiledAt(p)'
      <3>1. p \in DOMAIN disk /\ disk'[p] = disk[p]
        BY <2>1, <2>2, FolderFields
      <3>2. FiledAt(p)
        BY <2>2, <3>1 DEF Filed
      <3> QED BY <3>1, <3>2, FiledSame
    <2> QED BY <2>2 DEF Filed
  <1>3. CASE OpenFile(g)
    <2>1. /\ ChangesAt(Target(g)) /\ Target(g) # <<>> /\ pc[g] = "extract"
          /\ Target(g) \in DOMAIN disk => ~disk[Target(g)].dir
          /\ entry[g] <= Len(Archive[got[g]])
      BY <1>3, OpenEffect
    <2>2. pc[g] \in Working
      BY <2>1 DEF Working
    <2>3. got[g] \in Archives /\ Entry(g).exec \in BOOLEAN
      BY <2>1, <2>2, Located, AtEntry
    <2>4. disk'[Target(g)].of = got[g]
      BY <1>3, <2>3, OpenFields
    <2>5. ASSUME NEW p \in DOMAIN disk' \ DOMAIN Local, ~disk'[p].dir PROVE FiledAt(p)'
      <3>1. CASE p = Target(g)
        BY <2>1, <2>2, <2>4, <3>1, FiledHere
      <3>2. CASE p # Target(g)
        <4>1. p \in DOMAIN disk /\ disk'[p] = disk[p]
          BY <2>1, <2>5, <3>2, FolderFields DEF ChangesAt
        <4>2. FiledAt(p)
          BY <2>5, <4>1 DEF Filed
        <4> QED BY <4>1, <4>2, FiledSame
      <3> QED BY <3>1, <3>2
    <2> QED BY <2>5 DEF Filed
  <1>4. CASE CloseFile(g)
    <2>1. ChangesAt(Target(g)) /\ pc[g] = "write" /\ DOMAIN disk' = DOMAIN disk
      BY <1>4, CloseEffect
    <2>2. pc[g] \in Working /\ Target(g) \in DOMAIN disk /\ ~disk[Target(g)].dir
          /\ Target(g) # <<>> /\ got[g] \in Archives
      BY <2>1, Writing
    <2>3. /\ disk[Target(g)].by # g => disk'[Target(g)] = disk[Target(g)]
          /\ disk[Target(g)].by = g => disk'[Target(g)].of = got[g]
      BY <1>4, <2>2, CloseFields
    <2>4. ASSUME NEW p \in DOMAIN disk' \ DOMAIN Local, ~disk'[p].dir PROVE FiledAt(p)'
      <3>1. CASE p = Target(g) /\ disk[p].by = g
        BY <2>1, <2>2, <2>3, <3>1, FiledHere
      <3>2. CASE ~(p = Target(g) /\ disk[p].by = g)
        <4>1. p \in DOMAIN disk /\ disk'[p] = disk[p]
          BY <2>1, <2>3, <2>4, <3>2 DEF ChangesAt
        <4>2. FiledAt(p)
          BY <2>4, <4>1 DEF Filed
        <4> QED BY <4>1, <4>2, FiledSame
      <3> QED BY <3>1, <3>2
    <2> QED BY <2>4 DEF Filed
  <1>5. CASE Chmod(g)
    <2>1. ChangesAt(Extracted(g)) /\ DOMAIN disk' = DOMAIN disk
          /\ disk'[Extracted(g)].of = disk[Extracted(g)].of
          /\ disk'[Extracted(g)].dir = disk[Extracted(g)].dir
      BY <1>5, ChmodEffect, ChmodFields
    <2>2. ASSUME NEW p \in DOMAIN disk' \ DOMAIN Local, ~disk'[p].dir PROVE FiledAt(p)'
      <3>1. p \in DOMAIN disk /\ disk'[p].of = disk[p].of /\ disk'[p].dir = disk[p].dir
        BY <2>1 DEF ChangesAt
      <3>2. FiledAt(p)
        BY <2>2, <3>1 DEF Filed
      <3> QED BY <3>1, <3>2, FiledSame
    <2> QED BY <2>2 DEF Filed
  <1> QED BY <1>1, <1>2, <1>3, <1>4, <1>5, StepKinds

(* The operator touches his own files only.                                *)
LEMMA FiledInReplace ==
  ASSUME Typed, NEW p, NEW a, Replace(p, a), Filed
  PROVE  Filed'
  <1>1. ChangesAt(p) /\ DOMAIN disk' = DOMAIN disk /\ p \in DOMAIN Local
    BY ReplaceEffect
  <1>2. ASSUME NEW q \in DOMAIN disk' \ DOMAIN Local, ~disk'[q].dir PROVE FiledAt(q)'
    <2>1. q \in DOMAIN disk /\ disk'[q] = disk[q]
      BY <1>1 DEF ChangesAt
    <2>2. FiledAt(q)
      BY <1>2, <2>1 DEF Filed
    <2> QED BY <2>1, <2>2, FiledSame
  <1> QED BY <1>2 DEF Filed

(* What could be executed can still be, and new ones are added with their  *)
(* binary.                                                                 *)
LEMMA RunnableStays ==
  ASSUME NEW p, Runnable(p), Grows
  PROVE  Runnable(p)'
  BY DEF Runnable, Exists, Grows

(* A configuration is recorded as installed when its binary is marked, and *)
(* the binary stays.                                                       *)
LEMMA FoundInStep ==
  ASSUME Typed, NEW g \in Gateways, ControlOf(g), PlacedOf(g), Step(g), Found
  PROVE  Found'
  <1>1. Grows
    BY StepGrows
  <1>2. ASSUME installed' = installed PROVE Found'
    BY <1>1, <1>2, RunnableStays DEF Found
  <1>3. CASE Quiet(g)
    BY <1>2, <1>3, QuietKeeps
  <1>4. CASE Makes(g)
    BY <1>2, <1>4, MakesKeeps
  <1>5. CASE OpenFile(g)
    BY <1>2, <1>5, OpenEffect
  <1>6. CASE CloseFile(g)
    BY <1>2, <1>6, CloseEffect
  <1>7. CASE Chmod(g)
    <2> PICK p, z : p = Extracted(g) /\ z = src[g]
      OBVIOUS
    <2>1. /\ p \in DOMAIN disk
          /\ installed' = IF disk[p].dir THEN installed ELSE installed \cup {z}
      BY <1>7, ChmodEffect
    <2>2. disk'[p].exec /\ disk'[p].dir = disk[p].dir
      BY <1>7, ChmodFields
    <2>3. Checksum(z) # "" => p = Join(CacheDir(z, Checksum(z)), z.binary)
      BY DEF Extracted, Dest, CacheSum
    <2>4. ~disk[p].dir => Runnable(p)'
      BY <1>1, <2>1, <2>2 DEF Runnable, Exists, Grows
    <2>5. CASE disk[p].dir
      BY <1>2, <2>1, <2>5
    <2>6. CASE ~disk[p].dir
      <3>1. ASSUME NEW s \in installed', Checksum(s) # ""
            PROVE  Runnable(Join(CacheDir(s, Checksum(s)), s.binary))'
        <4>1. CASE s = z
          BY <2>3, <2>4, <2>6, <3>1, <4>1
        <4>2. CASE s \in installed
          BY <1>1, <3>1, <4>2, RunnableStays DEF Found
        <4> QED BY <2>1, <2>6, <4>1, <4>2
      <3> QED BY <3>1 DEF Found
    <2> QED BY <2>5, <2>6
  <1> QED BY <1>3, <1>4, <1>5, <1>6, <1>7, StepKinds

-----------------------------------------------------------------------------
(***************************************************************************)
(* The theorems that need nothing of the sources.                          *)
(***************************************************************************)
(* At the beginning all gateways are off and the disk has the operator's   *)
(* files.                                                                  *)
LEMMA InitHolds ==
  ASSUME Init
  PROVE  IInv
  <1>1. Typed
    BY InitTyped
  <1>2. \A g \in Gateways : pc[g] = "off" /\ got[g] = ""
    BY DEF Init
  <1>3. \A g \in Gateways : ControlOf(g)
    BY <1>2 DEF ControlOf, Working
  <1>4. \A g \in Gateways : PlacedOf(g)
    BY <1>2 DEF PlacedOf, Working
  <1>5. Filed
    BY DEF Init, Filed
  <1>6. Found
    BY DEF Init, Found
  <1> QED BY <1>1, <1>3, <1>4, <1>5, <1>6 DEF IInv

(* Every step of a gateway keeps the invariant, for all gateways.          *)
LEMMA StepHolds ==
  ASSUME IInv, NEW g \in Gateways, Step(g)
  PROVE  IInv'
  <1>1. Typed /\ ControlOf(g) /\ PlacedOf(g) /\ Filed /\ Found
    BY DEF IInv
  <1>2. Typed' /\ Filed' /\ Found' /\ Grows
    BY <1>1, TypedInStep, FiledInStep, FoundInStep, StepGrows
  <1>3. ASSUME NEW h \in Gateways PROVE ControlOf(h)' /\ PlacedOf(h)'
    <2>1. CASE h = g
      BY <1>1, <2>1, ControlMoves, PlacedMoves
    <2>2. CASE h # g
      <3>1. Still(h)
        BY <1>1, <2>2, OthersStayStill
      <3>2. ControlOf(h) /\ PlacedOf(h)
        BY DEF IInv
      <3> QED BY <1>2, <3>1, <3>2, ControlStays, PlacedStays
    <2> QED BY <2>1, <2>2
  <1> QED BY <1>2, <1>3 DEF IInv

(* The operator keeps it.                                                  *)
LEMMA ReplaceHolds ==
  ASSUME IInv, NEW p, NEW a, Replace(p, a)
  PROVE  IInv'
  <1>1. Typed /\ Filed /\ Found
    BY DEF IInv
  <1>2. Typed' /\ Filed' /\ Grows
    BY <1>1, TypedInReplace, FiledInReplace, ReplaceGrows
  <1>3. UNCHANGED <<pc, src, got, entry, sha, run, installed>>
    BY ReplaceEffect
  <1>4. Found'
    BY <1>1, <1>2, <1>3, RunnableStays DEF Found
  <1>5. ASSUME NEW h \in Gateways PROVE ControlOf(h)' /\ PlacedOf(h)'
    <2>1. Still(h)
      BY <1>3 DEF Still
    <2>2. ControlOf(h) /\ PlacedOf(h)
      BY DEF IInv
    <2> QED BY <1>2, <2>1, <2>2, ControlStays, PlacedStays
  <1> QED BY <1>2, <1>4, <1>5 DEF IInv

(* It does not depend on anything else.                                    *)
LEMMA StutterHolds ==
  ASSUME IInv, UNCHANGED vars
  PROVE  IInv'
  <1>1. UNCHANGED <<disk, pc, src, got, entry, sha, run, starts, installed, contested>>
    BY DEF vars
  <1>2. Typed'
    BY <1>1 DEF IInv, Typed, GatewaysTyped, DiskTyped
  <1>3. Filed' /\ Found' /\ Grows
    BY <1>1 DEF IInv, Filed, FiledAt, Found, Runnable, Exists, Grows
  <1>4. ASSUME NEW h \in Gateways PROVE ControlOf(h)' /\ PlacedOf(h)'
    <2>1. Still(h) /\ ControlOf(h) /\ PlacedOf(h)
      BY <1>1 DEF Still, IInv
    <2> QED BY <1>3, <2>1, ControlStays, PlacedStays
  <1> QED BY <1>2, <1>3, <1>4 DEF IInv

(* The inductive invariant: the types, where each gateway is and what it   *)
(* has on the disk, FiledByChecksum for the downloads, and that what was   *)
(* installed is found again.                                               *)
THEOREM Invariance == Spec => []IInv
  <1>1. Init => IInv
    BY InitHolds
  <1>2. IInv /\ [Next]_vars => IInv'
    <2> SUFFICES ASSUME IInv, [Next]_vars PROVE IInv'
      OBVIOUS
    <2>1. CASE UNCHANGED vars
      BY <2>1, StutterHolds
    <2>2. ASSUME NEW g \in Gateways, Step(g) PROVE IInv'
      BY <2>2, StepHolds
    <2>3. ASSUME NEW p \in DOMAIN Local, NEW a \in Contents, Replace(p, a) PROVE IInv'
      BY <2>3, ReplaceHolds
    <2> QED BY <2>1, <2>2, <2>3 DEF Next
  <1> QED BY <1>1, <1>2, PTL DEF Spec

(* The types.                                                              *)
THEOREM TypeCorrect == Spec => []TypeOK
  <1>1. IInv => TypeOK
    <2> SUFFICES ASSUME IInv PROVE TypeOK
      OBVIOUS
    <2>1. Typed
      BY DEF IInv
    <2>2. \A p \in DOMAIN disk : disk[p] \in Nodes
      BY <2>1 DEF Typed, DiskTyped
    <2>3. pc \in [Gateways -> Labels] /\ src \in [Gateways -> Sources]
          /\ got \in [Gateways -> Downloads] /\ sha \in [Gateways -> Hashes]
          /\ starts \in 0 .. MaxStarts /\ installed \subseteq Sources
          /\ contested \subseteq DOMAIN disk
      BY <2>1 DEF Typed, GatewaysTyped, DiskTyped
    <2>4. \A g \in Gateways : got[g] # "" => entry[g] \in 1 .. Len(Archive[got[g]]) + 1
      BY DEF IInv, ControlOf
    <2> QED BY <2>2, <2>3, <2>4 DEF TypeOK, Nodes, Labels, Downloads, Hashes
  <1> QED BY <1>1, Invariance, PTL

(* A file that a gateway wrote lies in the directory of its checksum,      *)
(* whatever the archives hold and whoever extracts, fails or crashes.      *)
THEOREM FilesAreFiled == Spec => []FiledByChecksum
  <1>1. IInv => FiledByChecksum
    BY DEF IInv, Filed, FiledAt, Kept, FiledByChecksum
  <1> QED BY <1>1, Invariance, PTL

(* A start that looks into the cache does not download what was installed. *)
THEOREM InstalledOnce == Spec => FetchedOnce
  <1>1. IInv /\ [Next]_vars =>
          [\A g \in Gateways :
             pc[g] = "stat" /\ pc'[g] = "download" => src[g] \notin installed]_vars
    <2> SUFFICES ASSUME IInv, Next, NEW h \in Gateways, pc[h] = "stat", pc'[h] = "download",
                        src[h] \in installed
                 PROVE  FALSE
      OBVIOUS
    <2>1. ControlOf(h) /\ Found /\ Typed
      BY DEF IInv
    <2>2. Runnable(Cached(h))
      BY <2>1 DEF ControlOf, Found, Cached
    <2>3. ASSUME NEW g \in Gateways, Step(g) PROVE FALSE
      <3>1. g = h
        BY <2>1, <2>3, OthersStayStill DEF Still
      <3>2. Stat(h)
        <4>1. \A s \in Sources : ~Begin(g, s)
          BY <3>1 DEF Begin
        <4>2. \A a \in Archives : ~Download(g, a)
          BY <3>1 DEF Download
        <4>3. ~ExtractDir(g) /\ ~ExtractEnds(g) /\ ~Verify(g) /\ ~Launch(g)
          BY <3>1 DEF ExtractDir, ExtractEnds, Verify, Launch
        <4>4. ~OpenFile(g) /\ ~CloseFile(g) /\ ~Chmod(g)
          BY <3>1 DEF OpenFile, CloseFile, Chmod
        <4>5. ~Fail(g)
          BY <2>1, <3>1 DEF Fail, Go, Typed, GatewaysTyped
        <4> QED BY <2>3, <3>1, <4>1, <4>2, <4>3, <4>4, <4>5 DEF Step
      <3> QED BY <2>1, <2>2, <3>2 DEF Stat, Go, Typed, GatewaysTyped
    <2>4. ASSUME NEW p \in DOMAIN Local, NEW a \in Contents, Replace(p, a) PROVE FALSE
      BY <2>4 DEF Replace
    <2> QED BY <2>3, <2>4 DEF Next
  <1> QED BY <1>1, Invariance, PTL DEF Spec, FetchedOnce

-----------------------------------------------------------------------------
(***************************************************************************)
(* Where the caches are apart.                                             *)
(***************************************************************************)
(* Nothing of the operator's own lies in a cache directory, and a file     *)
(* that does is of the archive that the directory is named after.          *)
LEMMA InDirectory ==
  ASSUME CachesApart, Filed, NEW s \in Kept, NEW sum \in DOMAIN Means, NEW p,
         IsPrefix(CacheDir(s, sum), p)
  PROVE  /\ p \notin DOMAIN Local
         /\ p \in DOMAIN disk /\ ~disk[p].dir => disk[p].of = Means[sum]
  <1>1. p \notin DOMAIN Local
    BY DEF CachesApart, Kept
  <1>2. ASSUME p \in DOMAIN disk, ~disk[p].dir PROVE disk[p].of = Means[sum]
    <2>1. PICK z \in Kept, m \in DOMAIN Means :
            IsStrictPrefix(CacheDir(z, m), p) /\ Means[m] = disk[p].of
      BY <1>1, <1>2 DEF Filed, FiledAt
    <2>2. m = sum
      BY <2>1, OneDirectory DEF IsStrictPrefix
    <2> QED BY <2>1, <2>2
  <1> QED BY <1>1, <1>2

(* A gateway opens nothing outside its directory.                          *)
LEMMA OpensInside ==
  ASSUME CachesApart, Typed, Filed, NEW g \in Gateways, ControlOf(g), pc[g] \in Working,
         NEW p, p = Target(g), p # <<>>
  PROVE  /\ IsPrefix(Dest(g), p) /\ p \notin DOMAIN Local
         /\ p \in DOMAIN disk /\ ~disk[p].dir => disk[p].of = got[g]
  <1>1. IsPrefix(Dest(g), p)
    BY SafeJoinStays DEF Target
  <1>2. /\ src[g] \in Kept /\ CacheSum(src[g], got[g]) \in DOMAIN Means
        /\ Means[CacheSum(src[g], got[g])] = got[g]
    BY Located
  <1> QED BY <1>1, <1>2, InDirectory DEF Dest

(* Facts of the steps, as far as files are concerned: what is opened...    *)
LEMMA Opening ==
  ASSUME Typed, NEW g \in Gateways, ControlOf(g), PlacedOf(g), OpenFile(g),
         NEW p, p = Target(g)
  PROVE  /\ pc[g] \in Working /\ pc[g] = "extract" /\ got[g] \in Archives /\ p # <<>>
         /\ Entry(g).kind = "reg" /\ entry[g] \in 1 .. Len(Archive[got[g]])
         /\ ChangesAt(p) /\ p \in DOMAIN disk' /\ disk'[p].of = got[g] /\ disk'[p].by = g
         /\ ~disk'[p].dir /\ ~disk'[p].whole
         /\ disk'[p].exec = IF p \in DOMAIN disk THEN disk[p].exec ELSE Entry(g).exec
         /\ p \in DOMAIN disk => ~disk[p].dir
         /\ contested \subseteq contested'
         /\ p \in DOMAIN disk /\ (disk[p].whole \/ OpenForWriting(p)) => p \in contested'
  <1>1. /\ ChangesAt(p) /\ p \in DOMAIN disk' /\ p # <<>>
        /\ p \in DOMAIN disk => ~disk[p].dir
        /\ pc[g] = "extract" /\ Entry(g).kind = "reg"
        /\ entry[g] <= Len(Archive[got[g]])
        /\ contested' = IF Exists(p) /\ (disk[p].whole \/ OpenForWriting(p))
                        THEN contested \cup {p} ELSE contested
    BY OpenEffect
  <1>2. pc[g] \in Working
    BY <1>1 DEF Working
  <1>3. got[g] \in Archives /\ Entry(g).exec \in BOOLEAN /\ entry[g] \in 1 .. Len(Archive[got[g]])
    BY <1>1, <1>2, Located, AtEntry
  <1>4. /\ disk'[p].of = got[g] /\ disk'[p].by = g /\ ~disk'[p].dir /\ ~disk'[p].whole
        /\ disk'[p].exec = IF p \in DOMAIN disk THEN disk[p].exec ELSE Entry(g).exec
    BY <1>3, OpenFields
  <1>5. contested \subseteq contested'
    BY <1>1
  <1>6. p \in DOMAIN disk /\ (disk[p].whole \/ OpenForWriting(p)) => p \in contested'
    BY <1>1 DEF Exists
  <1> QED BY <1>1, <1>2, <1>3, <1>4, <1>5, <1>6

(* ...and what is closed.                                                  *)
LEMMA Closing ==
  ASSUME Typed, NEW g \in Gateways, ControlOf(g), PlacedOf(g), CloseFile(g),
         NEW p, p = Target(g)
  PROVE  /\ pc[g] \in Working /\ pc[g] = "write" /\ got[g] \in Archives
         /\ ChangesAt(p) /\ DOMAIN disk' = DOMAIN disk /\ p \in DOMAIN disk
         /\ contested' = contested
         /\ disk[p].by # g => disk'[p] = disk[p]
         /\ disk[p].by = g => disk'[p].whole
  <1>1. ChangesAt(p) /\ DOMAIN disk' = DOMAIN disk /\ contested' = contested /\ pc[g] = "write"
    BY CloseEffect
  <1>2. pc[g] \in Working /\ got[g] \in Archives /\ p \in DOMAIN disk
    BY <1>1, Writing
  <1>3. /\ disk[p].by # g => disk'[p] = disk[p]
        /\ disk[p].by = g => disk'[p].whole
    BY <1>2, CloseFields
  <1> QED BY <1>1, <1>2, <1>3

(* The operator's own files stay whole.                                    *)
LEMMA UntouchedInStep ==
  ASSUME CachesApart, Typed, Filed, NEW g \in Gateways, ControlOf(g), PlacedOf(g), Step(g),
         Untouched
  PROVE  Untouched'
  <1> SUFFICES ASSUME NEW q \in DOMAIN Local, q \in DOMAIN disk' PROVE disk'[q].whole
    BY DEF Untouched
  <1>1. CASE Quiet(g)
    BY <1>1, QuietKeeps DEF Untouched
  <1>2. CASE Makes(g)
    BY <1>2, MakesKeeps, FolderFields DEF Untouched
  <1>3. CASE OpenFile(g)
    <2> PICK p : p = Target(g)
      OBVIOUS
    <2>1. ChangesAt(p) /\ p # <<>> /\ pc[g] \in Working
      BY <1>3, Opening
    <2>2. q # p
      BY <2>1, OpensInside
    <2> QED BY <2>1, <2>2, FolderFields DEF ChangesAt, Untouched
  <1>4. CASE CloseFile(g)
    <2> PICK p : p = Target(g)
      OBVIOUS
    <2>1. /\ ChangesAt(p) /\ DOMAIN disk' = DOMAIN disk
          /\ disk[p].by # g => disk'[p] = disk[p]
          /\ disk[p].by = g => disk'[p].whole
      BY <1>4, Closing
    <2> QED BY <2>1 DEF ChangesAt, Untouched
  <1>5. CASE Chmod(g)
    <2> PICK p : p = Extracted(g)
      OBVIOUS
    <2>1. ChangesAt(p) /\ DOMAIN disk' = DOMAIN disk /\ disk'[p].whole = disk[p].whole
      BY <1>5, ChmodEffect, ChmodFields
    <2> QED BY <2>1 DEF ChangesAt, Untouched
  <1> QED BY <1>1, <1>2, <1>3, <1>4, <1>5, StepKinds

(* The operator puts whole files.                                          *)
LEMMA UntouchedInReplace ==
  ASSUME Typed, NEW p, NEW a, Replace(p, a), Untouched
  PROVE  Untouched'
  <1>1. ChangesAt(p) /\ DOMAIN disk' = DOMAIN disk
    BY ReplaceEffect
  <1>2. p \in DOMAIN disk => disk'[p].whole = disk[p].whole
    BY ReplaceFields
  <1> QED BY <1>1, <1>2 DEF ChangesAt, Untouched

(* A file that is whole, or contested, stays one or the other.             *)
LEMMA SettledInStep ==
  ASSUME Typed, NEW g \in Gateways, ControlOf(g), PlacedOf(g), Step(g),
         NEW q, Settled(q)
  PROVE  Settled(q)' /\ contested \subseteq contested'
  <1>0. q \in DOMAIN disk /\ (disk[q].whole \/ q \in contested)
    BY DEF Settled
  <1>1. CASE Quiet(g)
    BY <1>0, <1>1, QuietKeeps DEF Settled
  <1>2. CASE Makes(g)
    BY <1>0, <1>2, MakesKeeps DEF Settled
  <1>3. CASE OpenFile(g)
    <2> PICK p : p = Target(g)
      OBVIOUS
    <2>1. /\ ChangesAt(p) /\ contested \subseteq contested'
          /\ p \in DOMAIN disk /\ (disk[p].whole \/ OpenForWriting(p)) => p \in contested'
      BY <1>3, Opening
    <2> QED BY <1>0, <2>1 DEF ChangesAt, Settled
  <1>4. CASE CloseFile(g)
    <2> PICK p : p = Target(g)
      OBVIOUS
    <2>1. /\ ChangesAt(p) /\ DOMAIN disk' = DOMAIN disk /\ contested' = contested
          /\ disk[p].by # g => disk'[p] = disk[p]
          /\ disk[p].by = g => disk'[p].whole
      BY <1>4, Closing
    <2> QED BY <1>0, <2>1 DEF ChangesAt, Settled
  <1>5. CASE Chmod(g)
    <2> PICK p : p = Extracted(g)
      OBVIOUS
    <2>1. /\ ChangesAt(p) /\ DOMAIN disk' = DOMAIN disk /\ disk'[p].whole = disk[p].whole
          /\ contested' = contested
      BY <1>5, ChmodEffect, ChmodFields
    <2> QED BY <1>0, <2>1 DEF ChangesAt, Settled
  <1> QED BY <1>1, <1>2, <1>3, <1>4, <1>5, StepKinds

(* So they do if the operator replaces one of his.                         *)
LEMMA SettledInReplace ==
  ASSUME Typed, NEW p, NEW a, Replace(p, a), NEW q, Settled(q)
  PROVE  Settled(q)'
  <1>1. ChangesAt(p) /\ DOMAIN disk' = DOMAIN disk /\ contested' = contested
    BY ReplaceEffect
  <1>2. p \in DOMAIN disk => disk'[p].whole = disk[p].whole
    BY ReplaceFields
  <1> QED BY <1>1, <1>2 DEF ChangesAt, Settled

(* The history of contested files only grows.                              *)
LEMMA ContestedGrows ==
  ASSUME Typed, NEW g \in Gateways, ControlOf(g), PlacedOf(g), Step(g)
  PROVE  contested \subseteq contested'
  <1>1. CASE OpenFile(g)
    <2> PICK p : p = Target(g)
      OBVIOUS
    <2> QED BY <1>1, Opening
  <1> QED BY <1>1, StepKinds, QuietKeeps, MakesKeeps, CloseEffect, ChmodEffect

(* Torn files: one that nobody touches...                                  *)
LEMMA TornSame ==
  ASSUME NEW q, TornAt(q), disk'[q] = disk[q], contested \subseteq contested'
  PROVE  TornAt(q)'
  <1>1. EntryAt(q)'
    BY DEF TornAt, EntryAt
  <1> QED BY <1>1 DEF TornAt

(* ...the one that is opened...                                            *)
LEMMA TornOpened ==
  ASSUME CachesApart, Typed, Filed, Torn, NEW g \in Gateways, ControlOf(g), PlacedOf(g),
         OpenFile(g), NEW p, p = Target(g)
  PROVE  TornAt(p)'
  <1>1. /\ pc[g] \in Working /\ got[g] \in Archives /\ p # <<>>
        /\ Entry(g).kind = "reg" /\ entry[g] \in 1 .. Len(Archive[got[g]])
        /\ disk'[p].of = got[g] /\ ~disk'[p].dir
        /\ disk'[p].exec = IF p \in DOMAIN disk THEN disk[p].exec ELSE Entry(g).exec
        /\ p \in DOMAIN disk => ~disk[p].dir
        /\ contested \subseteq contested'
        /\ p \in DOMAIN disk /\ disk[p].whole => p \in contested'
    BY Opening
  <1>2. /\ src[g] \in Kept /\ CacheSum(src[g], got[g]) \in DOMAIN Means
        /\ Means[CacheSum(src[g], got[g])] = got[g]
        /\ DOMAIN Archive[got[g]] = 1 .. Len(Archive[got[g]])
    BY <1>1, Located
  <1>3. Entry(g) = Archive[got[g]][entry[g]] /\ entry[g] \in DOMAIN Archive[got[g]]
    BY <1>1, <1>2 DEF Entry
  <1>4. p = SafeJoin(CacheDir(src[g], CacheSum(src[g], got[g])), Archive[got[g]][entry[g]])
    BY <1>3 DEF Target, Dest
  <1> DEFINE s0 == src[g]
             m0 == CacheSum(src[g], got[g])
             i0 == entry[g]
             a0 == got[g]
  <1>5. /\ s0 \in Kept /\ m0 \in DOMAIN Means /\ Means[m0] = a0 /\ i0 \in DOMAIN Archive[a0]
        /\ Archive[a0][i0].kind = "reg" /\ p = SafeJoin(CacheDir(s0, m0), Archive[a0][i0])
        /\ disk'[p].of = a0
    BY <1>1, <1>2, <1>3, <1>4
  <1>6. EntryAt(p)'
    <2> HIDE DEF s0, m0, i0, a0
    <2> QED BY <1>5 DEF EntryAt
  <1>7. ASSUME disk'[p].exec PROVE Ships(disk'[p].of, TRUE) \/ p \in contested'
    <2>1. CASE p \in DOMAIN disk /\ disk[p].whole
      BY <1>1, <2>1
    <2>2. CASE p \in DOMAIN disk /\ ~disk[p].whole
      <3>1. disk[p].of = got[g]
        BY <1>1, <2>2, OpensInside
      <3>2. TornAt(p)
        BY <2>2 DEF Torn
      <3> QED BY <1>1, <1>7, <2>2, <3>1, <3>2 DEF TornAt
    <2>3. CASE p \notin DOMAIN disk
      <3>1. Archive[got[g]][entry[g]].exec = TRUE /\ Archive[got[g]][entry[g]].kind = "reg"
        <4>1. Archive[got[g]][entry[g]].exec \in BOOLEAN
          BY <1>1, <1>3, CacheAssumption
        <4>2. Archive[got[g]][entry[g]].exec
          BY <1>1, <1>3, <1>7, <2>3
        <4> QED BY <1>1, <1>3, <4>1, <4>2
      <3> QED BY <1>1, <1>3, <3>1 DEF Ships
    <2> QED BY <2>1, <2>2, <2>3
  <1> QED BY <1>1, <1>6, <1>7 DEF TornAt

(* ...and the one that is marked executable, when nothing of the archive   *)
(* is left to be extracted.                                                *)
LEMMA TornMarked ==
  ASSUME CachesApart, Typed, Torn, NEW g \in Gateways, ControlOf(g), DoneOf(g),
         Chmod(g), NEW p, p = Extracted(g), ~disk[p].whole
  PROVE  TornAt(p)'
  <1>1. /\ p \in DOMAIN disk /\ pc[g] = "chmod" /\ contested' = contested
        /\ disk'[p].dir = disk[p].dir /\ disk'[p].of = disk[p].of
    BY ChmodEffect, ChmodFields
  <1>2. TornAt(p)
    BY <1>1 DEF Torn
  <1>3. EntryAt(p) /\ ~disk[p].dir /\ p # <<>>
    BY <1>2 DEF TornAt
  <1>4. EntryAt(p)'
    BY <1>1, <1>3 DEF EntryAt
  <1>5. p \in contested
    <2>1. pc[g] \in Working
      BY <1>1 DEF Working
    <2>2. /\ src[g] \in Kept /\ CacheSum(src[g], got[g]) \in DOMAIN Means
          /\ Means[CacheSum(src[g], got[g])] = got[g]
          /\ DOMAIN Archive[got[g]] = 1 .. Len(Archive[got[g]]) /\ Len(Archive[got[g]]) \in Nat
      BY <2>1, Located
    <2>3. IsPrefix(Dest(g), p)
      BY <2>2 DEF CachesApart, Kept, Extracted, Dest
    <2>4. PICK s \in Kept, sum \in DOMAIN Means : \E i \in DOMAIN Archive[disk[p].of] :
            /\ Means[sum] = disk[p].of /\ Archive[disk[p].of][i].kind = "reg"
            /\ p = SafeJoin(CacheDir(s, sum), Archive[disk[p].of][i])
      BY <1>3 DEF EntryAt
    <2>5. PICK i \in DOMAIN Archive[disk[p].of] :
            /\ Means[sum] = disk[p].of /\ Archive[disk[p].of][i].kind = "reg"
            /\ p = SafeJoin(CacheDir(s, sum), Archive[disk[p].of][i])
      BY <2>4
    <2>6. IsPrefix(CacheDir(s, sum), p)
      BY <1>3, <2>5, SafeJoinStays
    <2>7. sum = CacheSum(src[g], got[g]) /\ CacheDir(s, sum) = Dest(g)
      BY <2>2, <2>3, <2>6, OneDirectory DEF Dest
    <2>8. disk[p].of = got[g]
      BY <2>2, <2>5, <2>7
    <2>9. i \in 1 .. entry[g] - 1
      <3>1. entry[g] = Len(Archive[got[g]]) + 1
        BY <1>1 DEF ControlOf
      <3>2. i \in 1 .. Len(Archive[got[g]])
        BY <2>2, <2>5, <2>8
      <3> QED BY <2>2, <3>1, <3>2
    <2>10. Settled(SafeJoin(Dest(g), Archive[got[g]][i]))
      BY <2>1, <2>5, <2>8, <2>9 DEF DoneOf
    <2>11. Settled(p)
      BY <2>5, <2>7, <2>8, <2>10
    <2> QED BY <2>11 DEF Settled
  <1> QED BY <1>1, <1>3, <1>4, <1>5 DEF TornAt

(* All torn files, in every step of a gateway.                             *)
LEMMA TornInStep ==
  ASSUME CachesApart, Typed, Filed, Torn, NEW g \in Gateways, ControlOf(g), PlacedOf(g),
         DoneOf(g), Step(g)
  PROVE  Torn'
  <1> SUFFICES ASSUME NEW q, q \in DOMAIN disk', ~disk'[q].whole PROVE TornAt(q)'
    BY DEF Torn
  <1>1. contested \subseteq contested'
    BY ContestedGrows
  <1>2. ASSUME q \in DOMAIN disk, disk'[q] = disk[q] PROVE TornAt(q)'
    BY <1>1, <1>2, TornSame DEF Torn
  <1>3. CASE Quiet(g)
    BY <1>2, <1>3, QuietKeeps
  <1>4. CASE Makes(g)
    BY <1>2, <1>4, MakesKeeps, FolderFields
  <1>5. CASE OpenFile(g)
    <2> PICK p : p = Target(g)
      OBVIOUS
    <2>1. ChangesAt(p) /\ TornAt(p)'
      BY <1>5, Opening, TornOpened
    <2> QED BY <1>2, <2>1, FolderFields DEF ChangesAt
  <1>6. CASE CloseFile(g)
    <2> PICK p : p = Target(g)
      OBVIOUS
    <2>1. /\ ChangesAt(p) /\ DOMAIN disk' = DOMAIN disk
          /\ disk[p].by # g => disk'[p] = disk[p]
          /\ disk[p].by = g => disk'[p].whole
      BY <1>6, Closing
    <2> QED BY <1>2, <2>1 DEF ChangesAt
  <1>7. CASE Chmod(g)
    <2> PICK p : p = Extracted(g)
      OBVIOUS
    <2>1. ChangesAt(p) /\ DOMAIN disk' = DOMAIN disk /\ disk'[p].whole = disk[p].whole
      BY <1>7, ChmodEffect, ChmodFields
    <2>2. ~disk[p].whole => TornAt(p)'
      BY <1>7, TornMarked
    <2> QED BY <1>2, <2>1, <2>2 DEF ChangesAt
  <1> QED BY <1>3, <1>4, <1>5, <1>6, <1>7, StepKinds

(* The operator has no torn files.                                         *)
LEMMA TornInReplace ==
  ASSUME Typed, Torn, Untouched, NEW p, NEW a, Replace(p, a)
  PROVE  Torn'
  <1> SUFFICES ASSUME NEW q, q \in DOMAIN disk', ~disk'[q].whole PROVE TornAt(q)'
    BY DEF Torn
  <1>1. ChangesAt(p) /\ DOMAIN disk' = DOMAIN disk /\ p \in DOMAIN Local /\ contested' = contested
    BY ReplaceEffect
  <1>2. p \in DOMAIN disk => disk'[p].whole = disk[p].whole
    BY ReplaceFields
  <1>3. q # p
    BY <1>1, <1>2 DEF Untouched
  <1>4. disk'[q] = disk[q] /\ TornAt(q)
    BY <1>1, <1>3 DEF ChangesAt, Torn
  <1> QED BY <1>1, <1>4, TornSame

(* A gateway that does not move loses no file, but to the history.         *)
LEMMA DoneStays ==
  ASSUME Typed, NEW g \in Gateways, ControlOf(g), PlacedOf(g), Step(g),
         NEW h \in Gateways \ {g}, PlacedOf(h), DoneOf(h)
  PROVE  DoneOf(h)'
  <1>1. Still(h)
    BY OthersStayStill
  <1>2. Dest(h)' = Dest(h) /\ Target(h)' = Target(h)
    BY <1>1, SamePaths
  <1>3. pc'[h] = pc[h] /\ got'[h] = got[h] /\ entry'[h] = entry[h]
    BY <1>1 DEF Still
  <1>4. ASSUME pc[h] \in Working, NEW i \in 1 .. entry[h] - 1, Archive[got[h]][i].kind = "reg"
        PROVE  Settled(SafeJoin(Dest(h), Archive[got[h]][i]))'
    <2> PICK q : q = SafeJoin(Dest(h), Archive[got[h]][i])
      OBVIOUS
    <2>1. Settled(q)
      BY <1>4 DEF DoneOf
    <2>2. Settled(q)'
      BY <2>1, SettledInStep
    <2>3. q = SafeJoin(Dest(h), Archive[got[h]][i])'
      BY <1>2, <1>3
    <2> QED BY <2>2, <2>3
  <1>5. ASSUME pc[h] = "write", NEW q, q = Target(h)
        PROVE  disk'[q].by = h \/ q \in contested'
    <2>1. q \in DOMAIN disk /\ OpenForWriting(q) /\ (disk[q].by = h \/ q \in contested)
      BY <1>5 DEF PlacedOf, OpenForWriting, DoneOf
    <2>2. contested \subseteq contested'
      BY ContestedGrows
    <2>3. CASE Quiet(g)
      BY <2>1, <2>3, QuietKeeps
    <2>4. CASE Makes(g)
      BY <2>1, <2>4, MakesKeeps
    <2>5. CASE OpenFile(g)
      <3> PICK p : p = Target(g)
        OBVIOUS
      <3>1. /\ ChangesAt(p)
            /\ p \in DOMAIN disk /\ (disk[p].whole \/ OpenForWriting(p)) => p \in contested'
        BY <2>5, Opening
      <3> QED BY <2>1, <2>2, <3>1 DEF ChangesAt
    <2>6. CASE CloseFile(g)
      <3> PICK p : p = Target(g)
        OBVIOUS
      <3>1. ChangesAt(p) /\ DOMAIN disk' = DOMAIN disk
            /\ (disk[p].by # g => disk'[p] = disk[p])
        BY <2>6, Closing
      <3> QED BY <2>1, <2>2, <3>1 DEF ChangesAt
    <2>7. CASE Chmod(g)
      <3> PICK p : p = Extracted(g)
        OBVIOUS
      <3>1. ChangesAt(p) /\ DOMAIN disk' = DOMAIN disk /\ disk'[p].by = disk[p].by
        BY <2>7, ChmodEffect, ChmodFields
      <3> QED BY <2>1, <2>2, <3>1 DEF ChangesAt
    <2> QED BY <2>3, <2>4, <2>5, <2>6, <2>7, StepKinds
  <1>6. pc[h] = "write" => disk'[Target(h)].by = h \/ Target(h) \in contested'
    BY <1>5
  <1> QED BY <1>2, <1>3, <1>4, <1>6 DEF DoneOf

(* What was settled below the directory of a gateway still is.             *)
LEMMA DoneBefore ==
  ASSUME Typed, NEW g \in Gateways, ControlOf(g), PlacedOf(g), Step(g), DoneOf(g),
         pc[g] \in Working, src'[g] = src[g], got'[g] = got[g],
         NEW i \in 1 .. entry[g] - 1, Archive[got[g]][i].kind = "reg"
  PROVE  Settled(SafeJoin(Dest(g), Archive[got[g]][i]))'
  <1> PICK q : q = SafeJoin(Dest(g), Archive[got[g]][i])
    OBVIOUS
  <1>1. Settled(q)'
    BY SettledInStep DEF DoneOf
  <1>2. q = SafeJoin(Dest(g), Archive[got[g]][i])'
    BY SamePath
  <1> QED BY <1>1, <1>2

(* The gateway that moves: an entry counts as done when its file is        *)
(* closed, and every other step leaves the entries as they are.            *)
LEMMA DoneMoves ==
  ASSUME Typed, NEW g \in Gateways, ControlOf(g), PlacedOf(g), Step(g), DoneOf(g)
  PROVE  DoneOf(g)'
  <1>0. /\ pc \in [Gateways -> Labels] /\ src \in [Gateways -> Sources]
        /\ got \in [Gateways -> Downloads] /\ entry \in [Gateways -> Nat]
    BY DEF Typed, GatewaysTyped
  <1>1. ASSUME pc'[g] \notin Working PROVE DoneOf(g)'
    BY <1>1 DEF DoneOf, Working
  <1>2. ASSUME pc[g] \in Working, pc'[g] # "write", src'[g] = src[g], got'[g] = got[g],
               entry'[g] = entry[g]
        PROVE  DoneOf(g)'
    BY <1>2, DoneBefore DEF DoneOf
  <1>3. ASSUME NEW s \in Sources, Begin(g, s) PROVE DoneOf(g)'
    <2>1. pc'[g] = CASE s.type = "filesystem" -> "verify"
                     [] s.type = "github" /\ Checksum(s) # "" -> "stat"
                     [] s.type = "github" /\ Checksum(s) = "" -> "download"
                     [] OTHER -> "off"
      BY <1>0, <1>3, Zenon DEF Begin, Go
    <2> QED BY <1>1, <2>1 DEF Working
  <1>4. CASE Stat(g) \/ Verify(g) \/ Launch(g) \/ Fail(g)
    <2>1. pc'[g] \in {"launch", "download", "running", "off"}
      BY <1>0, <1>4 DEF Stat, Verify, Launch, Fail, Go
    <2> QED BY <1>1, <2>1 DEF Working
  <1>5. ASSUME NEW a \in Archives, Download(g, a) PROVE DoneOf(g)'
    <2>1. pc'[g] = "extract" /\ entry'[g] = 1
      BY <1>0, <1>5 DEF Download, Go
    <2> QED BY <2>1 DEF DoneOf
  <1>6. CASE ExtractDir(g)
    <2>1. pc[g] = "extract" /\ pc'[g] = "extract" /\ src'[g] = src[g] /\ got'[g] = got[g]
          /\ entry'[g] = entry[g] + 1 /\ Entry(g).kind = "dir"
      BY <1>0, <1>6 DEF ExtractDir
    <2>2. pc[g] \in Working /\ entry[g] \in Nat
      BY <1>0, <2>1 DEF Working
    <2>3. ASSUME NEW i \in 1 .. entry'[g] - 1, Archive[got[g]][i].kind = "reg"
          PROVE  Settled(SafeJoin(Dest(g), Archive[got[g]][i]))'
      <3>1. i # entry[g]
        BY <2>1, <2>3 DEF Entry
      <3>2. i \in 1 .. entry[g] - 1
        BY <2>1, <2>2, <3>1
      <3> QED BY <2>1, <2>2, <2>3, <3>2, DoneBefore
    <2> QED BY <2>1, <2>3 DEF DoneOf
  <1>7. CASE OpenFile(g)
    <2> PICK p : p = Target(g)
      OBVIOUS
    <2>1. disk'[p].by = g /\ pc[g] \in Working
      BY <1>7, Opening
    <2>2. pc' = [pc EXCEPT ![g] = "write"] /\ UNCHANGED <<src, got, entry>>
      BY <1>7, OpenEffect
    <2>3. pc'[g] = "write" /\ src'[g] = src[g] /\ got'[g] = got[g] /\ entry'[g] = entry[g]
      BY <1>0, <2>2
    <2>4. Target(g)' = p
      BY <2>3 DEF Target, Dest, Entry
    <2>5. ASSUME NEW i \in 1 .. entry[g] - 1, Archive[got[g]][i].kind = "reg"
          PROVE  Settled(SafeJoin(Dest(g), Archive[got[g]][i]))'
      BY <2>1, <2>3, <2>5, DoneBefore
    <2> QED BY <2>1, <2>3, <2>4, <2>5 DEF DoneOf
  <1>8. CASE CloseFile(g)
    <2> PICK p : p = Target(g)
      OBVIOUS
    <2>1. /\ pc[g] \in Working /\ pc[g] = "write"
          /\ DOMAIN disk' = DOMAIN disk /\ p \in DOMAIN disk /\ contested' = contested
          /\ disk[p].by = g => disk'[p].whole
      BY <1>8, Closing
    <2>2. /\ pc' = [pc EXCEPT ![g] = "extract"] /\ entry' = [entry EXCEPT ![g] = entry[g] + 1]
          /\ UNCHANGED <<src, got>>
      BY <1>8, CloseEffect
    <2>3. pc'[g] = "extract" /\ src'[g] = src[g] /\ got'[g] = got[g] /\ entry'[g] = entry[g] + 1
          /\ entry[g] \in Nat
      BY <1>0, <2>2
    <2>4. Settled(p)'
      BY <2>1 DEF DoneOf, Settled
    <2>5. p = SafeJoin(Dest(g), Archive[got[g]][entry[g]])
      BY DEF Target, Entry
    <2>6. ASSUME NEW i \in 1 .. entry'[g] - 1, Archive[got[g]][i].kind = "reg"
          PROVE  Settled(SafeJoin(Dest(g), Archive[got[g]][i]))'
      <3>1. CASE i = entry[g]
        <4>1. p = SafeJoin(Dest(g), Archive[got[g]][i])'
          BY <2>3, <2>5, <3>1, SamePath
        <4> QED BY <2>4, <4>1
      <3>2. CASE i # entry[g]
        <4>1. i \in 1 .. entry[g] - 1
          BY <2>3, <3>2
        <4> QED BY <2>1, <2>3, <2>6, <4>1, DoneBefore
      <3> QED BY <3>1, <3>2
    <2> QED BY <2>3, <2>6 DEF DoneOf
  <1>9. CASE ExtractEnds(g)
    <2>1. pc[g] = "extract" /\ pc'[g] = "chmod" /\ src'[g] = src[g] /\ got'[g] = got[g]
          /\ entry'[g] = entry[g]
      BY <1>0, <1>9 DEF ExtractEnds, Go
    <2> QED BY <1>2, <2>1 DEF Working
  <1>10. CASE Chmod(g)
    <2>1. pc' = [pc EXCEPT ![g] = "verify"]
      BY <1>10, ChmodEffect
    <2>2. pc'[g] = "verify"
      BY <1>0, <2>1
    <2> QED BY <1>1, <2>2 DEF Working
  <1> QED
    BY <1>3, <1>4, <1>5, <1>6, <1>7, <1>8, <1>9, <1>10 DEF Step

-----------------------------------------------------------------------------
(***************************************************************************)
(* What runs.                                                              *)
(***************************************************************************)
(* What a gateway runs does not change while it does not move.             *)
LEMMA RunsStays ==
  ASSUME NEW g \in Gateways, Still(g), contested \subseteq contested', RunsOf(g)
  PROVE  RunsOf(g)'
  <1>1. Path(g)' = Path(g)
    BY SamePaths
  <1>2. pc'[g] = pc[g] /\ src'[g] = src[g] /\ run'[g] = run[g]
    BY DEF Still
  <1> QED BY <1>1, <1>2 DEF RunsOf

(* The cache is trusted without a look at the content, and rightly so.     *)
LEMMA RunsLaunched ==
  ASSUME CachesApart, Typed, Filed, Torn, NEW g \in Gateways, ControlOf(g), Launch(g)
  PROVE  RunsOf(g)'
  <1> PICK p : p = Path(g)
    OBVIOUS
  <1>1. /\ p \in DOMAIN disk /\ ~disk[p].dir /\ disk[p].exec
        /\ pc[g] = "launch" /\ UNCHANGED <<src, got, contested>>
        /\ run' = [run EXCEPT ![g] = disk[p]]
    BY DEF Launch, Runnable, Exists
  <1>2. run'[g] = disk[p] /\ src'[g] = src[g]
    BY <1>1 DEF Typed, GatewaysTyped
  <1>3. Path(g)' = p
    BY <1>1, SamePath
  <1>4. ASSUME src[g].type = "github", Checksum(src[g]) # ""
        PROVE  disk[p].of = Means[Checksum(src[g])]
    <2> DEFINE z == src[g]
               sum == Checksum(src[g])
    <2>1. z \in Kept
      BY <1>4 DEF Kept, Typed, GatewaysTyped
    <2>2. sum \in DOMAIN Means
      BY <1>4, <2>1, CacheAssumption DEF Checksum, Kept
    <2>3. p = Join(CacheDir(z, sum), z.binary)
      BY <1>4 DEF Path, Cached, Extracted, Dest, CacheSum
    <2>4. IsPrefix(CacheDir(z, sum), p)
      BY <2>1, <2>2, <2>3 DEF CachesApart, Kept
    <2> HIDE DEF z, sum
    <2>5. disk[p].of = Means[sum]
      BY <1>1, <2>1, <2>2, <2>4, InDirectory
    <2> QED BY <2>5 DEF sum
  <1>5. ~disk[p].whole => Ships(disk[p].of, TRUE) \/ p \in contested'
    BY <1>1 DEF Torn, TornAt
  <1> QED BY <1>2, <1>3, <1>4, <1>5 DEF RunsOf

(* The gateway that moves runs something after Launch only.                *)
LEMMA RunsMoves ==
  ASSUME CachesApart, Typed, Filed, Torn, NEW g \in Gateways, ControlOf(g), Step(g), RunsOf(g)
  PROVE  RunsOf(g)'
  <1>0. pc \in [Gateways -> Labels]
    BY DEF Typed, GatewaysTyped
  <1>1. ASSUME pc'[g] # "running" PROVE RunsOf(g)'
    BY <1>1 DEF RunsOf
  <1>2. CASE Launch(g)
    BY <1>2, RunsLaunched
  <1>3. ASSUME NEW s \in Sources, Begin(g, s) PROVE RunsOf(g)'
    <2>1. pc'[g] = CASE s.type = "filesystem" -> "verify"
                     [] s.type = "github" /\ Checksum(s) # "" -> "stat"
                     [] s.type = "github" /\ Checksum(s) = "" -> "download"
                     [] OTHER -> "off"
      BY <1>0, <1>3, Zenon DEF Begin, Go
    <2> QED BY <1>1, <2>1
  <1>4. ASSUME NEW a \in Archives, Download(g, a) PROVE RunsOf(g)'
    <2>1. pc'[g] = "extract"
      BY <1>0, <1>4 DEF Download, Go
    <2> QED BY <1>1, <2>1
  <1>5. CASE Stat(g) \/ ExtractEnds(g) \/ Verify(g) \/ Fail(g)
    <2>1. pc'[g] \in {"launch", "download", "chmod", "off"}
      BY <1>0, <1>5 DEF Stat, ExtractEnds, Verify, Fail, Go
    <2> QED BY <1>1, <2>1
  <1>6. CASE ExtractDir(g)
    <2>1. pc'[g] = "extract"
      BY <1>6 DEF ExtractDir
    <2> QED BY <1>1, <2>1
  <1>7. CASE OpenFile(g) \/ CloseFile(g) \/ Chmod(g)
    <2>1. PICK l \in {"write", "extract", "verify"} : pc' = [pc EXCEPT ![g] = l]
      BY <1>7, OpenEffect, CloseEffect, ChmodEffect
    <2>2. pc'[g] # "running"
      BY <1>0, <2>1
    <2> QED BY <1>1, <2>2
  <1> QED
    BY <1>2, <1>3, <1>4, <1>5, <1>6, <1>7 DEF Step

(* All of it holds at the beginning...                                     *)
LEMMA InitTidy ==
  ASSUME Init
  PROVE  Tidy
  <1>1. IInv
    BY InitHolds
  <1>2. \A g \in Gateways : pc[g] = "off"
    BY DEF Init
  <1>3. \A p \in DOMAIN disk : disk[p].whole
    <2>1. PICK own \in [DOMAIN Local -> Contents] :
            disk = [p \in DOMAIN Local |-> File(own[p], TRUE)]
      BY DEF Init
    <2> QED BY <2>1 DEF File
  <1>4. Untouched /\ Torn
    BY <1>3 DEF Untouched, Torn
  <1>5. \A g \in Gateways : RunsOf(g) /\ DoneOf(g)
    BY <1>2 DEF RunsOf, DoneOf, Working
  <1> QED BY <1>1, <1>4, <1>5 DEF Tidy

(* ...in every step of a gateway...                                        *)
LEMMA StepTidy ==
  ASSUME CachesApart, Tidy, NEW g \in Gateways, Step(g)
  PROVE  Tidy'
  <1>1. /\ IInv /\ Untouched /\ Torn /\ RunsOf(g) /\ DoneOf(g)
        /\ Typed /\ ControlOf(g) /\ PlacedOf(g) /\ Filed
    BY DEF Tidy, IInv
  <1>2. IInv' /\ contested \subseteq contested'
    BY <1>1, StepHolds, ContestedGrows
  <1>3. Untouched' /\ Torn'
    BY <1>1, UntouchedInStep, TornInStep
  <1>4. ASSUME NEW h \in Gateways PROVE RunsOf(h)' /\ DoneOf(h)'
    <2>1. CASE h = g
      BY <1>1, <2>1, RunsMoves, DoneMoves
    <2>2. CASE h # g
      <3>1. Still(h) /\ RunsOf(h) /\ DoneOf(h) /\ PlacedOf(h)
        BY <1>1, <2>2, OthersStayStill DEF Tidy, IInv
      <3> QED BY <1>1, <1>2, <2>2, <3>1, RunsStays, DoneStays
    <2> QED BY <2>1, <2>2
  <1> QED BY <1>2, <1>3, <1>4 DEF Tidy

(* ...when the operator replaces a file...                                 *)
LEMMA ReplaceTidy ==
  ASSUME Tidy, NEW p, NEW a, Replace(p, a)
  PROVE  Tidy'
  <1>1. IInv /\ Untouched /\ Torn /\ Typed
    BY DEF Tidy, IInv
  <1>2. IInv' /\ Untouched' /\ Torn'
    BY <1>1, ReplaceHolds, UntouchedInReplace, TornInReplace
  <1>3. UNCHANGED <<pc, src, got, entry, sha, run, contested>>
    BY ReplaceEffect
  <1>4. ASSUME NEW h \in Gateways PROVE RunsOf(h)' /\ DoneOf(h)'
    <2>1. Still(h) /\ RunsOf(h) /\ DoneOf(h) /\ PlacedOf(h)
      BY <1>3 DEF Still, Tidy, IInv
    <2>2. Dest(h)' = Dest(h) /\ Target(h)' = Target(h)
      BY <2>1, SamePaths
    <2>3. ASSUME pc[h] \in Working, NEW i \in 1 .. entry[h] - 1, Archive[got[h]][i].kind = "reg"
          PROVE  Settled(SafeJoin(Dest(h), Archive[got[h]][i]))'
      <3> PICK q : q = SafeJoin(Dest(h), Archive[got[h]][i])
        OBVIOUS
      <3>1. Settled(q)'
        BY <1>1, <2>1, <2>3, SettledInReplace DEF DoneOf
      <3>2. q = SafeJoin(Dest(h), Archive[got[h]][i])'
        BY <1>3, <2>2
      <3> QED BY <3>1, <3>2
    <2>4. ASSUME pc[h] = "write", NEW q, q = Target(h) PROVE disk'[q].by = h \/ q \in contested'
      <3>1. q \in DOMAIN disk /\ (disk[q].by = h \/ q \in contested)
        BY <2>1, <2>4 DEF PlacedOf, DoneOf
      <3>2. ChangesAt(p) /\ DOMAIN disk' = DOMAIN disk
        BY ReplaceEffect
      <3>3. p \in DOMAIN disk => disk'[p].by = disk[p].by
        BY <1>1, ReplaceFields
      <3> QED BY <1>3, <3>1, <3>2, <3>3 DEF ChangesAt
    <2>5. pc[h] = "write" => disk'[Target(h)].by = h \/ Target(h) \in contested'
      BY <2>4
    <2>6. DoneOf(h)'
      BY <1>3, <2>2, <2>3, <2>5 DEF DoneOf
    <2> QED BY <1>3, <2>1, <2>6, RunsStays
  <1> QED BY <1>2, <1>4 DEF Tidy

(* ...and when nothing happens.                                            *)
LEMMA StutterTidy ==
  ASSUME Tidy, UNCHANGED vars
  PROVE  Tidy'
  <1>1. UNCHANGED <<disk, pc, src, got, entry, sha, run, starts, installed, contested>>
    BY DEF vars
  <1>2. IInv'
    BY StutterHolds DEF Tidy
  <1>3. Untouched'
    BY <1>1 DEF Tidy, Untouched
  <1>4. Torn'
    BY <1>1, TornSame DEF Tidy, Torn
  <1>5. ASSUME NEW h \in Gateways PROVE RunsOf(h)' /\ DoneOf(h)'
    <2>1. Still(h) /\ RunsOf(h) /\ DoneOf(h)
      BY <1>1 DEF Still, Tidy
    <2>2. Dest(h)' = Dest(h) /\ Target(h)' = Target(h)
      BY <2>1, SamePaths
    <2>3. DoneOf(h)'
      BY <1>1, <2>1, <2>2 DEF DoneOf, Settled
    <2> QED BY <1>1, <2>1, <2>3, RunsStays
  <1> QED BY <1>2, <1>3, <1>4, <1>5 DEF Tidy

(* Where the caches are apart, what runs comes from the archive that is    *)
(* pinned, and files of which a part is missing are accounted for.         *)
THEOREM TidyInvariance == CachesApart /\ Spec => []Tidy
  <1> DEFINE Inv == CachesApart /\ Tidy
  <1>1. CachesApart /\ Init => Inv
    BY InitTidy
  <1>2. Inv /\ [Next]_vars => Inv'
    <2> SUFFICES ASSUME CachesApart, Tidy, [Next]_vars PROVE Tidy'
      BY DEF CachesApart
    <2>1. CASE UNCHANGED vars
      BY <2>1, StutterTidy
    <2>2. ASSUME NEW g \in Gateways, Step(g) PROVE Tidy'
      BY <2>2, StepTidy
    <2>3. ASSUME NEW p \in DOMAIN Local, NEW a \in Contents, Replace(p, a) PROVE Tidy'
      BY <2>3, ReplaceTidy
    <2> QED BY <2>1, <2>2, <2>3 DEF Next
  <1>3. Inv => Tidy
    OBVIOUS
  <1> HIDE DEF Inv
  <1> QED BY <1>1, <1>2, <1>3, PTL DEF Spec

(* A gateway with a checksum runs the archive it names, or the file of the *)
(* operator that had it when it was looked at.                             *)
THEOREM RunsArePinned == CachesApart /\ Spec => []RunsPinned
  <1>1. Tidy => RunsPinned
    <2> SUFFICES ASSUME Tidy, NEW g \in Gateways, pc[g] = "running", Checksum(src[g]) # ""
                 PROVE  IF src[g].type = "github" THEN run[g].of = Means[Checksum(src[g])]
                                                  ELSE sha[g] = Means[Checksum(src[g])]
      BY DEF RunsPinned, Checksum
    <2>1. RunsOf(g) /\ ControlOf(g)
      BY DEF Tidy, IInv
    <2> QED BY <2>1 DEF RunsOf, ControlOf
  <1> QED BY <1>1, TidyInvariance, PTL

(* What runs is complete, unless its archive is executable as it comes or  *)
(* two gateways met at the file.                                           *)
THEOREM ChmodIsTheCommit == CachesApart /\ Spec => []ChmodCommits
  <1>1. Tidy => ChmodCommits
    BY DEF Tidy, RunsOf, ChmodCommits
  <1> QED BY <1>1, TidyInvariance, PTL
=============================================================================
