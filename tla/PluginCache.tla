----------------------------- MODULE PluginCache -----------------------------
(***************************************************************************)
(* Where plugin binaries come from: Manager.resolveSource, ResolveGitHub   *)
(* with its download, its archive extraction and its cache under the home  *)
(* directory, and ResolveFilesystem.                                       *)
(*                                                                         *)
(* Several gateways share one disk and start independently.  A gateway may *)
(* crash between any two steps (and is killed the same way); the disk      *)
(* stays as it is.  A path is a sequence of names from the root.  An       *)
(* archive is its sequence of entries, and its name stands for its         *)
(* SHA-256; a checksum in a configuration is a spelling of such a name     *)
(* (upper or lower case).  The content of a binary is named after the      *)
(* archive it comes from.  Temporary files are private and left out; their *)
(* names never end in .zip, so a release is always read as a tar.gz.       *)
(***************************************************************************)
EXTENDS Integers, SequencesExt

CONSTANTS
  Gateways,   \* processes that share the disk
  Sources,    \* the plugin configurations considered
  Archive,    \* archive name -> sequence of [kind, abs, name, exec]
  Means,      \* spelling of a checksum -> archive name
  Local,      \* the operator's own files: path -> contents he may put there
  MaxStarts   \* starts of all gateways together (bound)

Archives == DOMAIN Archive
Kinds    == {"reg", "dir", "link", "other"}
Contents == Archives \cup UNION {Local[p] : p \in DOMAIN Local}

ASSUME CacheAssumption ==
  /\ MaxStarts \in Nat /\ Sources # {} /\ "" \notin Archives
  /\ Means \in [DOMAIN Means -> Contents] /\ DOMAIN Means \subseteq STRING
  /\ \A a \in Contents : a \in DOMAIN Means /\ Means[a] = a
  /\ \A a \in Archives : \A i \in DOMAIN Archive[a] :
       /\ Archive[a][i].kind \in Kinds /\ Archive[a][i].name \in Seq(STRING)
       /\ Archive[a][i].abs \in BOOLEAN /\ Archive[a][i].exec \in BOOLEAN
  /\ \A a \in Archives : Len(Archive[a]) \in Nat /\ DOMAIN Archive[a] = 1 .. Len(Archive[a])
  /\ \A s \in Sources :
       /\ s.pluginSum \in DOMAIN Means \cup {""} /\ s.sourceSum \in DOMAIN Means \cup {""}
       /\ s.repository \in Seq(STRING) /\ s.release \in STRING /\ s.asset \in STRING

VARIABLES
  disk,     \* path -> [dir, of, whole, exec, by]; its domain is what exists, and by
            \*   is the gateway that truncated a file that is not whole yet
  pc,       \* per gateway: "off", "stat", "download", "extract", "write", "chmod",
            \*   "verify", "launch" or "running"
  src,      \* per gateway: the configuration of this start
  got,      \* per gateway: the archive downloaded
  entry,    \* per gateway: the entry it is at
  sha,      \* per gateway: SHA256 of the ResolvedPlugin
  run,      \* per gateway: what it executes, a value of disk
  starts,   \* starts so far
  installed,\* history: configurations whose binary was extracted and marked executable
  contested \* history: files truncated while complete or in another gateway's hands

vars == <<disk, pc, src, got, entry, sha, run, starts, installed, contested>>

Nobody     == ""
Folder     == [dir |-> TRUE, of |-> "", whole |-> TRUE, exec |-> TRUE, by |-> Nobody]
File(a, x) == [dir |-> FALSE, of |-> a, whole |-> TRUE, exec |-> x, by |-> Nobody]
Partial(a, x, g) == [dir |-> FALSE, of |-> a, whole |-> FALSE, exec |-> x, by |-> g]
Exists(p)  == p \in DOMAIN disk
(* os.Stat succeeds, it is no directory and some execute bit is set.       *)
Runnable(p) == Exists(p) /\ ~disk[p].dir /\ disk[p].exec
Go(g, l)   == pc' = [pc EXCEPT ![g] = l]

Init ==
  /\ disk \in {[p \in DOMAIN Local |-> File(own[p], TRUE)] : own \in [DOMAIN Local -> Contents]}
  /\ \A p \in DOMAIN Local : disk[p].of \in Local[p]
  /\ pc = [g \in Gateways |-> "off"] /\ src = [g \in Gateways |-> CHOOSE s \in Sources : TRUE]
  /\ got = [g \in Gateways |-> ""] /\ entry = [g \in Gateways |-> 0]
  /\ sha = [g \in Gateways |-> ""]
  /\ run = [g \in Gateways |-> Folder] /\ starts = 0
  /\ installed = {} /\ contested = {}

-----------------------------------------------------------------------------
(***************************************************************************)
(* Paths.                                                                  *)
(***************************************************************************)
Upto(p) == Prefixes(p) \ {<<>>}

(* filepath.Clean (external): ".." takes the name before it with it, and   *)
(* at the root it goes; at the start of a relative path it stays.          *)
Clean(abs, p) ==
  LET Add(q, n) == CASE n \in {"", "."} -> q
                     [] n = ".." /\ q # <<>> /\ Last(q) # ".." -> Front(q)
                     [] n = ".." /\ q = <<>> /\ abs -> q
                     [] OTHER -> Append(q, n)
  IN  FoldLeft(Add, <<>>, p)

(* filepath.Join of an absolute directory and a name (external).           *)
Join(dir, p) == Clean(TRUE, dir \o p)

(* The names that begin with "..": filepath.Rel's result is compared as a  *)
(* string, so a file that is really called "..a" is refused with them.     *)
DotDot(n) == n \in {"..", "..a"}

(* safeJoin; <<>> stands for "unsafe archive path".                        *)
SafeJoin_Join(dest, e) == Join(dest, e.name)
SafeJoin(dest, e) ==
  LET clean == Clean(e.abs, e.name)
      p     == Join(dest, clean)
      rel   == SubSeq(p, Len(dest) + 1, Len(p))
  IN  IF \/ e.abs \/ (clean # <<>> /\ Head(clean) = "..")
         \/ ~IsPrefix(dest, p) \/ (rel # <<>> /\ DotDot(Head(rel)))
      THEN <<>> ELSE p

(* GitHubCacheDir below the home directory.                                *)
CacheDir(s, sum) ==
  <<"github">> \o (IF Len(s.repository) = 2 THEN s.repository
                                            ELSE <<"unknown">> \o s.repository)
    \o <<s.release, s.asset, sum>>

(* resolveSource: a checksum at the source goes before the plugin's.       *)
Checksum_PluginFirst(s) == IF s.pluginSum # "" THEN s.pluginSum ELSE s.sourceSum
Checksum(s) == IF s.sourceSum # "" THEN s.sourceSum ELSE s.pluginSum

(* The directory is named by the checksum as it is spelled in the          *)
(* configuration, or by the one computed if there is none.                 *)
CacheSum_Computed(s, a) == a
CacheSum(s, a) == IF Checksum(s) # "" THEN Checksum(s) ELSE a

Dest(g)      == CacheDir(src[g], CacheSum(src[g], got[g]))
Cached(g)    == Join(CacheDir(src[g], Checksum(src[g])), src[g].binary)
Extracted(g) == Join(Dest(g), src[g].binary)

(* ResolvedPlugin.Path.                                                    *)
Path(g) == IF src[g].type = "filesystem" THEN src[g].path
           ELSE IF got[g] = "" THEN Cached(g) ELSE Extracted(g)

-----------------------------------------------------------------------------
(***************************************************************************)
(* One start of one gateway.                                               *)
(***************************************************************************)
(* resolveSource; a source of another type is an error.                    *)
Begin(g, s) ==
  /\ pc[g] = "off" /\ starts < MaxStarts
  /\ src' = [src EXCEPT ![g] = s] /\ starts' = starts + 1
  /\ Go(g, CASE s.type = "filesystem" -> "verify"
             [] s.type = "github" /\ Checksum(s) # "" -> "stat"
             [] s.type = "github" /\ Checksum(s) = "" -> "download"
             [] OTHER -> "off")
  /\ UNCHANGED <<disk, got, entry, sha, run, installed, contested>>

(* The cache is looked at only if a checksum is configured.                *)
Stat(g) ==
  /\ pc[g] = "stat"
  /\ IF Runnable(Cached(g)) THEN /\ Go(g, "launch")
                                 /\ sha' = [sha EXCEPT ![g] = Checksum(src[g])]
                            ELSE Go(g, "download") /\ UNCHANGED sha
  /\ UNCHANGED <<disk, src, got, entry, run, starts, installed, contested>>

(* MkdirAll fails where a file is in the way.                              *)
CanMkdir(p)    == \A q \in Upto(p) : Exists(q) => disk[q].dir
WithDirs(d, p) == [q \in DOMAIN d \cup Upto(p) |-> IF q \in DOMAIN d THEN d[q] ELSE Folder]

(* The release gives an archive, any one if it was published again, whose  *)
(* checksum is compared without regard to case.                            *)
Download_Unchecked(g, a) ==
  /\ pc[g] = "download"
  /\ got' = [got EXCEPT ![g] = a] /\ entry' = [entry EXCEPT ![g] = 1]
  /\ LET dest == CacheDir(src[g], CacheSum(src[g], a))
     IN  CanMkdir(dest) /\ disk' = WithDirs(disk, dest)
  /\ Go(g, "extract")
  /\ UNCHANGED <<src, sha, run, starts, installed, contested>>
Download(g, a) ==
  /\ pc[g] = "download"
  /\ Checksum(src[g]) # "" => Means[Checksum(src[g])] = a
  /\ got' = [got EXCEPT ![g] = a] /\ entry' = [entry EXCEPT ![g] = 1]
  /\ LET dest == CacheDir(src[g], CacheSum(src[g], a))
     IN  CanMkdir(dest) /\ disk' = WithDirs(disk, dest)
  /\ Go(g, "extract")
  /\ UNCHANGED <<src, sha, run, starts, installed, contested>>

(* A write to a file that is being executed is refused, and so is the      *)
(* execution of one that is open for writing (ETXTBSY).                    *)
Executing(p) == \E g \in Gateways : pc[g] = "running" /\ Path(g) = p
Entry(g)     == Archive[got[g]][entry[g]]
Target(g)    == SafeJoin(Dest(g), Entry(g))
OpenForWriting(p) == \E g \in Gateways : pc[g] = "write" /\ Target(g) = p

(* safeExtractTarGz at a directory entry.                                  *)
ExtractDir(g) ==
  /\ pc[g] = "extract" /\ entry[g] <= Len(Archive[got[g]])
  /\ Entry(g).kind = "dir" /\ Target(g) # <<>> /\ CanMkdir(Target(g))
  /\ disk' = WithDirs(disk, Target(g))
  /\ entry' = [entry EXCEPT ![g] = @ + 1]
  /\ UNCHANGED <<pc, src, got, sha, run, starts, installed, contested>>

(* safeExtractTarGz opens a file: created with the entry's mode, truncated *)
(* with the mode it has if it is there already.                            *)
Mode_Executable(p, e) == TRUE
Mode(p, e) == IF Exists(p) THEN disk[p].exec ELSE e.exec

OpenFile(g) ==
  LET p == Target(g)
  IN  /\ pc[g] = "extract" /\ entry[g] <= Len(Archive[got[g]])
      /\ Entry(g).kind = "reg" /\ p # <<>> /\ CanMkdir(Front(p))
      /\ Exists(p) => ~disk[p].dir /\ ~Executing(p)
      /\ disk' = [q \in DOMAIN WithDirs(disk, Front(p)) \cup {p} |->
                    IF q = p THEN Partial(got[g], Mode(p, Entry(g)), g)
                             ELSE WithDirs(disk, Front(p))[q]]
      /\ contested' = IF Exists(p) /\ (disk[p].whole \/ OpenForWriting(p))
                       THEN contested \cup {p} ELSE contested
      /\ Go(g, "write")
      /\ UNCHANGED <<src, got, entry, sha, run, starts, installed>>

(* io.Copy has written the last byte.  Two gateways may have the same file *)
(* open and write the same to it; it is whole once the one that truncated  *)
(* it last, and so writes all of it, is done.                              *)
CloseFile(g) ==
  /\ pc[g] = "write"
  /\ disk' = IF disk[Target(g)].by = g THEN [disk EXCEPT ![Target(g)] = File(got[g], @.exec)]
                                       ELSE disk
  /\ entry' = [entry EXCEPT ![g] = @ + 1]
  /\ Go(g, "extract")
  /\ UNCHANGED <<src, got, sha, run, starts, installed, contested>>

ExtractEnds_Late(g) ==
  /\ pc[g] = "extract" /\ entry[g] > Len(Archive[got[g]])
  /\ entry' = [entry EXCEPT ![g] = @ + 1]
  /\ Go(g, "chmod")
  /\ UNCHANGED <<disk, src, got, sha, run, starts, installed, contested>>
ExtractEnds(g) ==
  /\ pc[g] = "extract" /\ entry[g] > Len(Archive[got[g]])
  /\ Go(g, "chmod")
  /\ UNCHANGED <<disk, src, got, entry, sha, run, starts, installed, contested>>

Chmod(g) ==
  /\ pc[g] = "chmod" /\ Exists(Extracted(g))
  /\ disk' = [disk EXCEPT ![Extracted(g)].exec = TRUE]
  /\ installed' = IF disk[Extracted(g)].dir THEN installed ELSE installed \cup {src[g]}
  /\ Go(g, "verify")
  /\ UNCHANGED <<src, got, entry, sha, run, starts, contested>>

(* ResolveFilesystem: for a file of the operator with the checksum, for an *)
(* extracted binary without one.  A partial file has a hash of its own.    *)
Hash(p) == IF disk[p].whole THEN disk[p].of ELSE "partial"
Verify(g) ==
  /\ pc[g] = "verify" /\ Runnable(Path(g))
  /\ src[g].type = "filesystem" /\ Checksum(src[g]) # "" =>
       Means[Checksum(src[g])] = Hash(Path(g))
  /\ sha' = [sha EXCEPT ![g] = Hash(Path(g))]
  /\ Go(g, "launch")
  /\ UNCHANGED <<disk, src, got, entry, run, starts, installed, contested>>

(* Process.Start executes whatever the path names by now.                  *)
Launch(g) ==
  /\ pc[g] = "launch" /\ Runnable(Path(g)) /\ ~OpenForWriting(Path(g))
  /\ run' = [run EXCEPT ![g] = disk[Path(g)]]
  /\ Go(g, "running")
  /\ UNCHANGED <<disk, src, got, entry, sha, starts, installed, contested>>

(* The start fails, and everything stays as it is on the disk: the         *)
(* download fails or does not match, an entry is a link, of another kind,  *)
(* unsafe or in the way, a disk operation fails, the binary is not there,  *)
(* not executable, busy or another one.  The gateway may also crash, or be *)
(* stopped, anywhere.                                                      *)
Fail(g) ==
  /\ pc[g] # "off"
  /\ Go(g, "off")
  /\ got' = [got EXCEPT ![g] = ""] /\ entry' = [entry EXCEPT ![g] = 0]
  /\ sha' = [sha EXCEPT ![g] = ""] /\ run' = [run EXCEPT ![g] = Folder]
  /\ UNCHANGED <<disk, src, starts, installed, contested>>

(* The operator puts another binary in place of a file of his (external).  *)
Replace(p, a) ==
  /\ p \in DOMAIN Local /\ a \in Local[p] \ {disk[p].of}
  /\ disk' = [disk EXCEPT ![p].of = a]
  /\ UNCHANGED <<pc, src, got, entry, sha, run, starts, installed, contested>>

Step(g) ==
  \/ \E s \in Sources : Begin(g, s)
  \/ Stat(g) \/ (\E a \in Archives : Download(g, a))
  \/ ExtractDir(g) \/ OpenFile(g) \/ CloseFile(g) \/ ExtractEnds(g)
  \/ Chmod(g) \/ Verify(g) \/ Launch(g) \/ Fail(g)

Next ==
  \/ \E g \in Gateways : Step(g)
  \/ \E p \in DOMAIN Local, a \in Contents : Replace(p, a)

Spec == Init /\ [][Next]_vars

-----------------------------------------------------------------------------
(***************************************************************************)
(* Properties.                                                             *)
(***************************************************************************)

(* Type invariant.                                                         *)
TypeOK ==
  /\ \A p \in DOMAIN disk : disk[p] \in [dir : BOOLEAN, of : Contents \cup {""}, whole : BOOLEAN,
                                        exec : BOOLEAN, by : Gateways \cup {Nobody}]
  /\ pc \in [Gateways -> {"off", "stat", "download", "extract", "write", "chmod",
                          "verify", "launch", "running"}]
  /\ src \in [Gateways -> Sources] /\ got \in [Gateways -> Archives \cup {""}]
  /\ \A g \in Gateways : got[g] # "" => entry[g] \in 1 .. Len(Archive[got[g]]) + 1
  /\ sha \in [Gateways -> DOMAIN Means \cup {"", "partial"}]
  /\ starts \in 0 .. MaxStarts
  /\ installed \subseteq Sources /\ contested \subseteq DOMAIN disk

(* Whatever the archives contain and whoever extracts, fails or crashes,   *)
(* a file that the gateway wrote lies in a cache directory, and in the one *)
(* named by the checksum of the archive it came from (safeJoin, the        *)
(* comparison of the checksums, GitHubCacheDir).                           *)
FiledByChecksum ==
  \A p \in DOMAIN disk \ DOMAIN Local : ~disk[p].dir =>
    \E s \in Sources, sum \in DOMAIN Means :
      /\ IsStrictPrefix(CacheDir(s, sum), p)
      /\ Means[sum] = disk[p].of

(* What a checksum in a configuration takes for granted and nobody checks: *)
(* a repository is an owner and a name, the binary is below the directory  *)
(* its archive is extracted to, and the operator keeps nothing of his own  *)
(* in there.                                                               *)
CachesApart ==
  \A s \in Sources : s.type = "github" =>
    /\ Len(s.repository) = 2
    /\ \A sum \in DOMAIN Means :
         /\ IsPrefix(CacheDir(s, sum), Join(CacheDir(s, sum), s.binary))
         /\ \A p \in DOMAIN Local : ~IsPrefix(CacheDir(s, sum), p)

(* A gateway whose configuration names a checksum never executes the       *)
(* binary of another archive, though the cache is shared, trusted without  *)
(* a look at the content and written by gateways without a checksum too; a *)
(* file of the operator had the content named when it was looked at.  The  *)
(* source's checksum counts if there are two.                              *)
RunsPinned ==
  \A g \in Gateways :
    LET pin == IF src[g].sourceSum = "" THEN src[g].pluginSum ELSE src[g].sourceSum
    IN  pc[g] = "running" /\ pin # "" =>
          IF src[g].type = "github" THEN run[g].of = Means[pin] ELSE sha[g] = Means[pin]

(* Setting the execute bit commits an extraction: if the archive's entries *)
(* are not executable, and nobody, the same gateway included, truncated    *)
(* the file once it was whole or while another was writing it, what runs   *)
(* is complete, whoever crashed or ran out of space on the way.            *)
Ships(a, x) == \E i \in DOMAIN Archive[a] : Archive[a][i].kind = "reg" /\ Archive[a][i].exec = x
ChmodCommits ==
  \A g \in Gateways :
    pc[g] = "running" /\ ~run[g].whole =>
      Ships(run[g].of, TRUE) \/ Path(g) \in contested

(* A plugin that is pinned is fetched once: after a start has installed it *)
(* no start with the same configuration downloads it again, however the    *)
(* checksum is spelled and whatever other gateways do to the directory.    *)
FetchedOnce ==
  [][\A g \in Gateways :
       pc[g] = "stat" /\ pc'[g] = "download" => src[g] \notin installed]_vars

(* What the specification says of a checksum that is configured: what runs *)
(* was verified, all of it.                                                *)
RunsVerified ==
  \A g \in Gateways : pc[g] = "running" /\ Checksum(src[g]) # "" => run[g].whole
=============================================================================
