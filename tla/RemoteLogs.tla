------------------------------ MODULE RemoteLogs ------------------------------
(***************************************************************************)
(* The downloads of KubernetesLocalProxy: the log of a scenario runner,    *)
(* and an archive of the run directories which is made for the download.   *)
(* A large file is split in the pod, its chunks are fetched one by one and *)
(* joined on the operator's machine.                                       *)
(*                                                                         *)
(* A file is a sequence of pieces of CHUNK_SIZE_MB, <<version, index>>:    *)
(* all of a log are of version 0, as it only grows; every archive is a new *)
(* version.  A piece with index 0 has been emptied or cut short.           *)
(* kubectl is external: a copy that succeeds is complete.                  *)
(***************************************************************************)
EXTENDS Naturals, Sequences, FiniteSets

CONSTANTS
    LARGE_FILE_THRESHOLD,   \* in pieces
    MAX_DOWNLOAD_RETRIES,
    MaxSize,                \* bound on the pieces of a file
    MaxArchives,            \* bound on the archives made
    MaxPods                 \* bound on the pods that are replaced

ASSUME ThresholdAssumption == LARGE_FILE_THRESHOLD \in Nat
ASSUME RetriesAssumption == MAX_DOWNLOAD_RETRIES \in Nat \ {0}
ASSUME BoundsAssumption == MaxSize \in Nat /\ MaxArchives \in Nat /\ MaxPods \in Nat

VARIABLES
    download,   \* the download under way
    local,      \* the file on the operator's machine
    content,    \* the two files in the pod
    chunks,     \* what is in the pod of each file's chunks
    archives,   \* the size of each archive made, a history
    pod,        \* the number of the pod, by the pods before it
    litter      \* files whose chunks a lost call may have left, a history

podVars == <<content, chunks, archives, pod, litter>>
logsVars == <<download, local, podVars>>

Files == {"log", "archive"}
Piece == (0..MaxArchives) \X (0..MaxSize)
Pieces == {s \in Seq(Piece) : Len(s) <= MaxSize}
Cut(version) == <<version, 0>>
DownloadPlaces == {"none", "find", "tar", "size", "split", "resolve", "try", "clean",
                   "giveup", "join", "verify", "extract", "remove", "done", "failed"}

NoDownload == [file |-> "none", at |-> "none", size |-> 0, listed |-> 0, parts |-> <<>>,
               pod |-> 0, tries |-> 0, warned |-> FALSE]

LogsTypeOK ==
    /\ download \in [file : Files \union {"none"}, at : DownloadPlaces, size : 0..MaxSize,
                     listed : 0..MaxSize, parts : Pieces, pod : 0..MaxPods,
                     tries : 0..MAX_DOWNLOAD_RETRIES - 1, warned : BOOLEAN]
    /\ Len(download.parts) <= download.listed
    /\ local \in Pieces
    /\ content \in [Files -> Pieces] /\ chunks \in [Files -> Pieces]
    /\ archives \in Seq(1..MaxSize) /\ Len(archives) <= MaxArchives
    /\ pod \in 0..MaxPods
    /\ litter \subseteq Files

LogsInit ==
    /\ download = NoDownload
    /\ local = <<>>
    /\ content = [f \in Files |-> <<>>]
    /\ chunks = [f \in Files |-> <<>>]
    /\ archives = <<>>
    /\ pod = 0
    /\ litter = {}

Proceed(place) == download' = [download EXCEPT !.at = place]
Fail == Proceed("failed")
KeepRemote == UNCHANGED podVars
KeepFiles == UNCHANGED local /\ KeepRemote

Bytes(s) == Cardinality({i \in DOMAIN s : s[i][2] # 0})
Whole(version) == [i \in 1..archives[version] |-> <<version, i>>]

-----------------------------------------------------------------------------
(* The pod.                                                                *)

(* External: the runner goes on writing its log.                           *)
LogGrows ==
    /\ pod = 0 /\ Len(content["log"]) < MaxSize
    /\ content' = [content EXCEPT !["log"] = Append(@, <<0, Len(@) + 1>>)]
    /\ UNCHANGED <<download, local, chunks, archives, pod, litter>>

(* External: another pod takes the old one's place, with an empty /tmp.    *)
PodReplaced ==
    /\ pod < MaxPods
    /\ pod' = pod + 1
    /\ content' = [f \in Files |-> <<>>]
    /\ chunks' = [f \in Files |-> <<>>]
    /\ UNCHANGED <<download, local, archives, litter>>

-----------------------------------------------------------------------------
(* What the operator asks for.                                             *)

Ask(file, at) ==
    /\ download = NoDownload
    /\ download' = [NoDownload EXCEPT !.file = file, !.at = at]
    /\ local' = <<>>
    /\ KeepRemote

DownloadRunnerLogs == Ask("log", "size")
DownloadAllLogs == Ask("archive", "tar")
DownloadLastLogs == Ask("archive", "find")

Finish ==
    /\ download.at \in {"done", "failed"}
    /\ download' = NoDownload
    /\ local' = <<>>
    /\ KeepRemote

(* The operator interrupts; only the fetching of chunks has a "finally".   *)
Interrupt ==
    /\ download.at \notin {"none", "done", "failed", "clean", "giveup"}
    /\ Proceed(IF download.at \in {"resolve", "try"} /\ download.listed > 0 THEN "giveup" ELSE "failed")
    /\ KeepFiles

-----------------------------------------------------------------------------
(* The archive: the run directories are looked for, and packed.            *)

FindDirectories ==
    /\ download.at = "find"
    /\ (Proceed("tar") \/ Fail)
    /\ KeepFiles

(* Only the existence of the archive is tested: tar may have stopped       *)
(* anywhere, and what it wrote is taken.                                   *)
Tar ==
    /\ download.at = "tar" /\ Len(archives) < MaxArchives
    /\ \E n \in 1..MaxSize :
         /\ archives' = Append(archives, n)
         /\ \E written \in 0..n :
              content' = [content EXCEPT !["archive"] =
                            [i \in 1..written |-> <<Len(archives) + 1, i>>]]
    /\ (Proceed("size") \/ Fail)
    /\ UNCHANGED <<local, chunks, pod, litter>>

-----------------------------------------------------------------------------
(* _download_large_file: the size chooses the way.                         *)

GetRemoteFileSize ==
    /\ download.at = "size"
    /\ LET size == Len(content[download.file])
           place == IF size > LARGE_FILE_THRESHOLD THEN "split" ELSE "resolve"
       IN \/ size > 0 /\ download' = [download EXCEPT !.size = size, !.at = place]
          \/ Fail
    /\ KeepFiles

(* split writes over the chunks of the same names; those beyond stay.      *)
WriteOver(new, old) == new \o SubSeq(old, Len(new) + 1, Len(old))

(* The script goes on when split fails, in a chunk it has emptied, and     *)
(* lists the chunks that are there.                                        *)
SplitTo(new) ==
    LET f == download.file
        all == WriteOver(new, chunks[f])
    IN /\ chunks' = [chunks EXCEPT ![f] = all]
       /\ IF all = <<>> THEN Fail
          ELSE download' = [download EXCEPT !.listed = Len(all), !.at = "resolve"]
       /\ UNCHANGED litter

Stopped(whole) == {Append(SubSeq(whole, 1, k), Cut(whole[1][1])) : k \in 0..Len(whole) - 1}

SplitRemoteFile ==
    /\ download.at = "split"
    /\ \/ SplitTo(content[download.file])
       \/ /\ content[download.file] # <<>>
          /\ \E part \in Stopped(content[download.file]) : SplitTo(part)
    /\ UNCHANGED <<local, content, archives, pod>>

(* The call is lost, whatever split still does: the chunks stay.           *)
SplitIsLost ==
    /\ download.at = "split"
    /\ LET f == download.file
           whole == content[f]
       IN \E k \in 0..Len(whole) :
            chunks' = [chunks EXCEPT ![f] = WriteOver(SubSeq(whole, 1, k), @)]
    /\ litter' = litter \union {download.file}
    /\ Fail
    /\ UNCHANGED <<local, content, archives, pod>>

-----------------------------------------------------------------------------
(* _download_file_with_retry: one pod name for all the tries.              *)

Direct == download.listed = 0

(* Wrong variant: a failed chunk returns at once.                          *)
LeaveChunks == Fail

GiveUp == IF Direct THEN Fail ELSE Proceed("giveup")

ResolvePodName ==
    /\ download.at = "resolve"
    /\ \/ download' = [download EXCEPT !.pod = pod, !.tries = 0, !.at = "try"]
       \/ GiveUp
    /\ KeepFiles

CopyFile ==
    /\ download.at = "try" /\ Direct
    /\ download.pod = pod /\ content[download.file] # <<>>
    /\ local' = content[download.file]
    /\ Proceed("verify")
    /\ KeepRemote

(* The chunks come in the order of their names.                            *)
CopyChunk ==
    /\ download.at = "try" /\ ~Direct /\ download.pod = pod
    /\ LET next == Len(download.parts) + 1
           from == chunks[download.file]
       IN /\ next <= Len(from)
          /\ download' = [download EXCEPT !.parts = Append(@, from[next]), !.tries = 0,
                           !.at = IF next = download.listed THEN "clean" ELSE "resolve"]
    /\ KeepFiles

CopyFails ==
    /\ download.at = "try"
    /\ IF download.tries < MAX_DOWNLOAD_RETRIES - 1
       THEN download' = [download EXCEPT !.tries = @ + 1]
       ELSE GiveUp
    /\ KeepFiles

(* _cleanup_remote_files, whether the chunks came or not; it may be lost.  *)
CleanupRemoteFiles ==
    /\ download.at \in {"clean", "giveup"}
    /\ LET f == download.file
       IN \/ chunks' = [chunks EXCEPT ![f] = <<>>] /\ litter' = litter \ {f}
          \/ litter' = litter \union {f} /\ UNCHANGED chunks
    /\ Proceed(IF download.at = "clean" THEN "join" ELSE "failed")
    /\ UNCHANGED <<local, content, archives, pod>>

(* Wrong variant: the first chunk may come last.                           *)
ReassembleUnordered ==
    /\ download.at = "join"
    /\ \/ \E order \in {download.parts, Append(Tail(download.parts), Head(download.parts))} :
             local' = order /\ Proceed("verify")
       \/ Fail /\ UNCHANGED local
    /\ KeepRemote

ReassembleChunks ==
    /\ download.at = "join"
    /\ \/ local' = download.parts /\ Proceed("verify")
       \/ Fail /\ UNCHANGED local
    /\ KeepRemote

-----------------------------------------------------------------------------
(* A difference in size is a warning and no more.                          *)
Verify ==
    /\ download.at = "verify"
    /\ download' = [download EXCEPT !.warned = Bytes(local) # download.size,
                                  !.at = IF download.file = "log" THEN "done" ELSE "extract"]
    /\ KeepFiles

(* External: tar and gzip take a whole archive and nothing else.           *)
Extract ==
    /\ download.at = "extract"
    /\ \/ \E v \in DOMAIN archives : local = Whole(v) /\ Proceed("remove")
       \/ Fail
    /\ KeepFiles

(* The remote archive is removed, unless that call is lost.                *)
RemoveArchive ==
    /\ download.at = "remove"
    /\ content' \in {content, [content EXCEPT !["archive"] = <<>>]}
    /\ Proceed("done")
    /\ UNCHANGED <<local, chunks, archives, pod, litter>>

LogsNext ==
    \/ LogGrows \/ PodReplaced
    \/ DownloadRunnerLogs \/ DownloadAllLogs \/ DownloadLastLogs
    \/ Finish \/ Interrupt
    \/ FindDirectories \/ Tar
    \/ GetRemoteFileSize \/ SplitRemoteFile \/ SplitIsLost
    \/ ResolvePodName \/ CopyFile \/ CopyChunk \/ CopyFails
    \/ CleanupRemoteFiles \/ ReassembleChunks
    \/ Verify \/ Extract \/ RemoveArchive

LogsSpec == LogsInit /\ [][LogsNext]_logsVars

-----------------------------------------------------------------------------
(* A download that is reported done and without a warning brought what was *)
(* asked for, whatever chunks earlier commands left and whatever the pod   *)
(* did meanwhile: of a log its first pieces, as many as it had when its    *)
(* size was taken; of the run directories the archive this download made,  *)
(* _download_large_file and download_logs.                                 *)
DownloadIsTrue ==
    download.at = "done" =>
        /\ (download.file = "log" /\ ~download.warned) =>
              \A i \in 1..download.size : i <= Len(local) /\ local[i] = <<0, i>>
        /\ download.file = "archive" => local = Whole(Len(archives))

(* Between two downloads no chunks of a file are left in the pod, where    *)
(* the next one would take them for its own, unless the very call that     *)
(* removes them or the one that makes them was lost: the "finally" of      *)
(* _download_large_file_chunked covers every other end.                    *)
ChunksAreCleaned ==
    download.at \in {"none", "done", "failed"} =>
        \A f \in Files : chunks[f] # <<>> => f \in litter

===============================================================================
