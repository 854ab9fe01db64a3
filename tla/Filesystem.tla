----------------------------- MODULE Filesystem -----------------------------
(***************************************************************************)
(* Disks shared by concurrent callers: ReadFallbackFilesystem over any of   *)
(* the drivers with its tombstones, and the release of quarantined files.   *)
(* An operation is the sequence of storage calls its code awaits, ended by  *)
(* the first one that decides the answer; a call may throw or the process   *)
(* stop between any two.  The reads of delete that only shape its answer    *)
(* are left out.                                                            *)
(***************************************************************************)
EXTENDS Naturals, Sequences, FiniteSets

CONSTANTS
    DiskDrivers,   \* drivers of the primary disk
    Paths,         \* paths; every one has a file on the fallback disk
    NewContents,   \* contents that callers write
    Accepted,      \* the contents the scanner accepted
    Users,         \* concurrent callers
    MaxOperations  \* bound: operations started
ASSUME FilesystemAssumption ==
    /\ Accepted \subseteq NewContents /\ MaxOperations \in Nat
    /\ {"absent", "old", "torn"} \intersect NewContents = {}   \* names of what no caller writes

VARIABLES
    disk,        \* the driver of the primary disk
    primary,     \* its files
    tombstones,  \* FilesystemTombstoneStore
    user,        \* the operation of every caller
    superseded,  \* the paths that have shown something else than the fallback
    destination, \* the files of the disk that releases write to, of the same driver
    interrupted, \* its files that were open when their release stopped
    operations
filesystemVars == <<disk, primary, tombstones, user, superseded, destination, interrupted, operations>>

Absent == "absent"
Old == "old"      \* what the fallback holds
Torn == "torn"    \* a file that is open for writing, and what a write that stopped leaves

(***************************************************************************)
(* The drivers: the calls behind write (of contents or of a stream), copy,  *)
(* delete and a move to the same path.  An object store shows an object when *)
(* it is complete; the local disk empties the file first.                   *)
(***************************************************************************)
InMemoryFilesystem == [write |-> <<"write">>, copy |-> <<"read", "write">>, same |-> <<"read">>, delete |-> <<"remove">>]
LocalFilesystem == [write |-> <<"truncate", "write">>, copy |-> <<"read", "truncate", "write">>, same |-> <<"head">>, delete |-> <<"remove">>]
AwsS3Filesystem == [write |-> <<"write">>, copy |-> <<"copyFile">>, same |-> <<"head">>, delete |-> <<"head", "remove">>]
CloudflareR2Filesystem == [write |-> <<"write">>, copy |-> <<"read", "write">>, same |-> <<"read">>, delete |-> <<"head", "remove">>]
FilesystemDriver ==
    CASE disk = "memory" -> InMemoryFilesystem [] disk = "local" -> LocalFilesystem
      [] disk = "s3" -> AwsS3Filesystem [] OTHER -> CloudflareR2Filesystem

(***************************************************************************)
(* ReadFallbackFilesystem, and release of the quarantine.                   *)
(***************************************************************************)
fallbackOnMissing == <<"look", "tombstone", "fallback", "tombstone", "look", "tombstone", "answer">>
existsCalls == <<"look", "tombstone", "peek", "look", "tombstone", "answer">>
listCalls == <<"look", "snapshot", "tombstone", "answer">>
\* mutant: the tombstone is recorded after the file is gone
deleteCallsLate == FilesystemDriver.delete \o <<"record">>
deleteCalls == <<"record">> \o FilesystemDriver.delete
moveCalls(same) ==
    IF same THEN FilesystemDriver.same ELSE FilesystemDriver.copy \o <<"record">> \o FilesystemDriver.delete
\* write on the destination, by the calls of its driver.
destinationWrite == IF Len(FilesystemDriver.write) = 1 THEN <<"publish">> ELSE <<"open", "publish">>
release == <<"read", "verify">> \o destinationWrite

Calls(op, same) ==
    CASE op = "read" -> fallbackOnMissing [] op = "exists" -> existsCalls [] op = "list" -> listCalls
      [] op = "write" -> FilesystemDriver.write [] op = "copy" -> FilesystemDriver.copy [] op = "delete" -> deleteCalls
      [] op = "move" -> moveCalls(same) [] OTHER -> release

\* What a caller should find at a path: a file of the primary disk hides the
\* fallback, and a tombstone does.
Visible(files, recorded, path) ==
    IF files[path] # Absent THEN files[path] ELSE IF path \in recorded THEN Absent ELSE Old

AtRest == [calls |-> <<>>, op |-> "none", path |-> "none", to |-> "none", got |-> Absent, answer |-> "none",
           seen |-> {}, deleted |-> FALSE]

FilesystemInit ==
    /\ disk \in DiskDrivers /\ primary = [p \in Paths |-> Absent] /\ tombstones = {}
    /\ user = [u \in Users |-> AtRest] /\ superseded = {} /\ operations = 0
    /\ destination = [p \in Paths |-> Absent] /\ interrupted = {}

FilesystemTypeOK ==
    /\ primary \in [Paths -> NewContents \union {Absent, Old, Torn}]
    /\ destination \in [Paths -> NewContents \union {Absent, Torn}] /\ interrupted \subseteq Paths
    /\ tombstones \subseteq Paths /\ operations \in 0..MaxOperations

\* After every step: what the running readers could have seen, and whether their path
\* was being deleted.
Reading == {"read", "exists", "list"}
Observed(now) ==
    /\ superseded' = superseded \union {p \in Paths : Visible(primary', tombstones', p) # Old}
    /\ user' = [u \in Users |-> IF now[u].calls = <<>> \/ now[u].op \notin Reading THEN now[u]
                ELSE [now[u] EXCEPT !.seen = @ \union {Visible(primary', tombstones', now[u].path)},
                        !.deleted = @ \/ (now[u].path \in tombstones') # (now[u].path \in tombstones)]]

begins(u, op, path, to, contents) ==
    /\ user[u].calls = <<>> /\ operations < MaxOperations /\ operations' = operations + 1
    /\ (op \notin {"copy", "move", "release"} => to = path) /\ (op = "copy" => to # path)
    /\ op # "write" => contents = (CHOOSE c \in NewContents : TRUE)
    /\ UNCHANGED <<disk, primary, tombstones, destination, interrupted>>
    /\ Observed([user EXCEPT ![u] = [AtRest EXCEPT !.calls = Calls(op, path = to), !.op = op, !.path = path, !.to = to,
                                        !.got = contents, !.seen = IF op \in Reading THEN {Visible(primary, tombstones, path)} ELSE {}]])

Proceeds(u, got, skipped) ==
    Observed([user EXCEPT ![u].calls = SubSeq(@, 2 + skipped, Len(@)), ![u].got = got])
Replies(u, answer) == Observed([user EXCEPT ![u].calls = <<>>, ![u].answer = answer, ![u].got = Absent])

\* The next call of the operation.
reads(u) ==
    LET me == user[u]
        name == Head(me.calls)
        here == primary[me.path]
    IN /\ me.calls # <<>> /\ UNCHANGED <<disk, primary, tombstones, destination, interrupted, operations>>
       /\ \/ name = "read" /\ IF here = Absent THEN Replies(u, Absent) ELSE Proceeds(u, here, 0)
          \/ name = "head" /\ Proceeds(u, me.got, IF here = Absent THEN 1 ELSE 0)
          \/ name = "look" /\ IF here = Absent THEN Proceeds(u, me.got, 0) ELSE Replies(u, here)
          \/ name = "tombstone" /\ IF me.path \in tombstones THEN Replies(u, Absent) ELSE Proceeds(u, me.got, 0)
          \/ name \in {"fallback", "peek"}   \* what counts is what the path shows from here on
             /\ Observed([user EXCEPT ![u].calls = Tail(@), ![u].got = Old, ![u].seen = {}])
          \/ name = "snapshot" /\ Proceeds(u, Old, 0)
          \/ name = "verify" /\ IF me.got \in Accepted THEN Proceeds(u, me.got, 0) ELSE Replies(u, "refused")
          \/ name = "answer" /\ Replies(u, me.got)
changes(u) ==
    LET me == user[u]
        name == Head(me.calls)
    IN /\ me.calls # <<>> /\ UNCHANGED <<disk, operations>>
       /\ \/ /\ name = "truncate" /\ primary' = [primary EXCEPT ![me.to] = Torn]
             /\ UNCHANGED <<tombstones, destination, interrupted>> /\ Proceeds(u, me.got, 0)
          \/ /\ name = "write" /\ primary' = [primary EXCEPT ![me.to] = me.got]
             /\ UNCHANGED <<tombstones, destination, interrupted>> /\ Proceeds(u, me.got, 0)
          \/ /\ name = "copyFile" /\ UNCHANGED <<tombstones, destination, interrupted>>
             /\ IF primary[me.path] = Absent THEN UNCHANGED primary /\ Replies(u, Absent)
                ELSE primary' = [primary EXCEPT ![me.to] = primary[me.path]] /\ Proceeds(u, me.got, 0)
          \/ /\ name = "remove" /\ primary' = [primary EXCEPT ![me.path] = Absent]
             /\ UNCHANGED <<tombstones, destination, interrupted>> /\ Proceeds(u, me.got, 0)
          \/ /\ name = "record" /\ tombstones' = tombstones \union {me.path}
             /\ UNCHANGED <<primary, destination, interrupted>> /\ Proceeds(u, me.got, 0)
          \/ /\ name = "open" /\ destination' = [destination EXCEPT ![me.to] = Torn]
             /\ UNCHANGED <<primary, tombstones, interrupted>> /\ Proceeds(u, me.got, 0)
          \/ /\ name = "publish" /\ destination' = [destination EXCEPT ![me.to] = me.got]
             /\ interrupted' = interrupted \ {me.to} /\ UNCHANGED <<primary, tombstones>> /\ Proceeds(u, me.got, 0)
\* The call throws another error, or the process stops.
stops(u) ==
    /\ user[u].calls # <<>> /\ UNCHANGED <<disk, primary, tombstones, destination, operations>>
    /\ interrupted' = IF user[u].calls = <<"publish">> /\ destination[user[u].to] = Torn
                      THEN interrupted \union {user[u].to} ELSE interrupted
    /\ Observed([user EXCEPT ![u] = AtRest])

FilesystemNext ==
    \E u \in Users :
        \/ reads(u) \/ changes(u) \/ stops(u)
        \/ \E path, to \in Paths, contents \in NewContents, op \in {"read", "exists", "list", "write", "copy", "delete", "move", "release"} :
               begins(u, op, path, to, contents)

FilesystemSpec == FilesystemInit /\ [][FilesystemNext]_filesystemVars

\* A release that has opened its destination, and has it to write.
IsWriting(me, path) == me.op = "release" /\ me.to = path /\ me.calls = <<"publish">>

\* Whatever else runs on the disk: contents that read returns were what the path showed
\* at some instant of the call, and of those of the fallback at one after they were
\* fetched; a file that exists or list reports was there.  A file reported missing was
\* invisible at some instant, unless it was deleted meanwhile.  What the fallback holds
\* never comes back once the path was written or deleted.  A release shows
\* its destination the contents the scanner accepted and nothing else, but for a local
\* disk, where the file is torn while a release is writing it and stays torn after one
\* that stopped there, until another is through.
FilesAreHonest ==
    /\ \A u \in Users :
          LET me == user[u] IN
          me.op \in Reading /\ me.answer # "none" =>
              IF me.answer = Absent THEN Absent \in me.seen \/ me.deleted
              ELSE IF me.op = "read" THEN me.answer \in me.seen ELSE me.seen # {Absent}
    /\ \A path \in superseded : Visible(primary, tombstones, path) # Old
    /\ \A path \in Paths :
          /\ destination[path] \in Accepted \union {Absent, Torn}
          /\ destination[path] = Torn => disk = "local" /\ (path \in interrupted \/ \E u \in Users : IsWriting(user[u], path))

(***************************************************************************)
(* Paths, as sequences of segments.                                         *)
(***************************************************************************)
RefusedPath == <<"refused">>
normalizeStoragePath(path, allowEmpty) ==
    LET kept == SelectSeq(path, LAMBDA s : s \notin {"", "."})
    IN IF (\E i \in DOMAIN kept : kept[i] = "..") \/ (kept = <<>> /\ ~allowEmpty) THEN RefusedPath ELSE kept
strictPath(path, allowEmpty) == IF normalizeStoragePath(path, allowEmpty) = path THEN path ELSE RefusedPath
scopedPath(scope, path) == IF strictPath(path, TRUE) = RefusedPath THEN RefusedPath ELSE scope \o path
unpath(scope, path) ==
    IF SubSeq(path, 1, Len(scope)) = scope THEN SubSeq(path, Len(scope) + 1, Len(path)) ELSE RefusedPath

\* A path that is accepted stays below its disk and is in the one form that names its
\* file; a scoped disk gives back what it was given, and two scopes share no file.
PathsAreContained(Given, Scopes) ==
    /\ \A path \in Given :
          LET normal == normalizeStoragePath(path, TRUE) IN
          normal # RefusedPath =>
              /\ \A i \in DOMAIN normal : normal[i] \notin {"", ".", ".."}
              /\ strictPath(normal, TRUE) = normal
              /\ strictPath(path, TRUE) # RefusedPath => path = normal
    /\ \A scope \in Scopes, path \in Given : scopedPath(scope, path) # RefusedPath =>
          /\ unpath(scope, scopedPath(scope, path)) = path
          /\ \A other \in Scopes \ {scope}, elsewhere \in Given :
                scopedPath(other, elsewhere) # scopedPath(scope, path)
=============================================================================
