---------------------------- MODULE PullCurated ----------------------------
(***************************************************************************)
(* pull_curated (src/scripts/pull_curated.py): an operator brings a local  *)
(* copy of the marts' tables level with the bucket, while the merger and   *)
(* the loader go on writing there.  A pull lists both sides once, and then *)
(* fetches and deletes file by file; it may stop anywhere, and be run      *)
(* again.                                                                  *)
(*                                                                         *)
(* Every object and file has the same size here, the case a comparison of  *)
(* sizes does not see.  The clock moves on with every put, so no two       *)
(* versions of an object bear the same second, and a version is named by   *)
(* its time.                                                               *)
(***************************************************************************)
EXTENDS Integers

CONSTANTS
  PulledKeys,  \* keys under the pulled tables
  MaxPuts      \* bound: puts to the bucket

NoKey == "no key"

ASSUME PullAssumption == MaxPuts \in Nat /\ NoKey \notin PulledKeys

VARIABLES
  clock,     \* the current second
  bucket,    \* key -> the version stored, which is its LastModified
  local,     \* key -> the file: [version, mtime]
  listed,    \* the running pull's listing of the bucket
  download,  \* keys still to fetch
  delete,    \* keys still to delete
  fetched,   \* the key fetched whose time is not yet set
  quiet,     \* the bucket has not changed since it was listed
  pulling    \* a pull is running

pullVars == <<clock, bucket, local, listed, download, delete, fetched, quiet, pulling>>

NoObject == 0
NoFile   == [version |-> 0, mtime |-> 0]

Versions == 0..MaxPuts
Files    == [version : Versions, mtime : Versions]

PullTypeOK ==
  /\ clock \in Versions
  /\ bucket \in [PulledKeys -> Versions]
  /\ local \in [PulledKeys -> Files]
  /\ listed \in [PulledKeys -> Versions]
  /\ download \in SUBSET PulledKeys
  /\ delete \in SUBSET PulledKeys
  /\ fetched \in PulledKeys \union {NoKey}
  /\ quiet \in BOOLEAN
  /\ pulling \in BOOLEAN

Nothing == [k \in PulledKeys |-> NoObject]

PullInit ==
  /\ clock = 0
  /\ bucket = Nothing
  /\ local = [k \in PulledKeys |-> NoFile]
  /\ listed = Nothing
  /\ download = {}
  /\ delete = {}
  /\ fetched = NoKey
  /\ quiet = TRUE
  /\ pulling = FALSE

-----------------------------------------------------------------------------
(* The writers of the bucket.                                              *)

PutObject(k) ==
  /\ clock < MaxPuts
  /\ clock' = clock + 1
  /\ bucket' = [bucket EXCEPT ![k] = clock']
  /\ quiet' = FALSE
  /\ UNCHANGED <<local, listed, download, delete, fetched, pulling>>

(* A snapshot is renamed: its old key goes.                                *)
RemoveObject(k) ==
  /\ bucket[k] # NoObject
  /\ bucket' = [bucket EXCEPT ![k] = NoObject]
  /\ quiet' = FALSE
  /\ UNCHANGED <<clock, local, listed, download, delete, fetched, pulling>>

-----------------------------------------------------------------------------
(* The pull.                                                               *)

\* Mutant: a file is current when its size is the object's.
CurrentBySize(k) == local[k] # NoFile

Current(k) == local[k].mtime = bucket[k]

ListRemote == {k \in PulledKeys : bucket[k] # NoObject}
ListLocal  == {k \in PulledKeys : local[k] # NoFile}

PlanPull ==
  /\ ~pulling
  /\ pulling' = TRUE
  /\ quiet' = TRUE
  /\ listed' = bucket
  /\ download' = {k \in ListRemote : ~Current(k)}
  /\ delete' = ListLocal \ ListRemote
  /\ UNCHANGED <<clock, bucket, local, fetched>>

(* The bytes are those the object has by now; a file just written has the  *)
(* time of its writing.                                                    *)
Download(k) ==
  /\ pulling
  /\ k \in download
  /\ fetched = NoKey
  /\ bucket[k] # NoObject
  /\ local' = [local EXCEPT ![k] = [version |-> bucket[k], mtime |-> clock]]
  /\ fetched' = k
  /\ UNCHANGED <<clock, bucket, listed, download, delete, quiet, pulling>>

\* Mutant: the file takes the time the object has after the download.
SetTimeAfterwards(k) ==
  /\ pulling
  /\ fetched = k
  /\ local' = [local EXCEPT ![k].mtime = bucket[k]]
  /\ fetched' = NoKey
  /\ download' = download \ {k}
  /\ UNCHANGED <<clock, bucket, listed, delete, quiet, pulling>>

SetTime(k) ==
  /\ pulling
  /\ fetched = k
  /\ local' = [local EXCEPT ![k].mtime = listed[k]]
  /\ fetched' = NoKey
  /\ download' = download \ {k}
  /\ UNCHANGED <<clock, bucket, listed, delete, quiet, pulling>>

Delete(k) ==
  /\ pulling
  /\ download = {}
  /\ k \in delete
  /\ local' = [local EXCEPT ![k] = NoFile]
  /\ delete' = delete \ {k}
  /\ UNCHANGED <<clock, bucket, listed, download, fetched, quiet, pulling>>

Forget ==
  /\ pulling' = FALSE
  /\ listed' = Nothing
  /\ download' = {}
  /\ delete' = {}
  /\ fetched' = NoKey
  /\ UNCHANGED <<clock, bucket, local, quiet>>

PullDone == pulling /\ download = {} /\ delete = {}

PullEnds == PullDone /\ Forget

(* The pull is stopped, or an object it is to fetch is gone.               *)
PullStops == pulling /\ ~PullDone /\ Forget

-----------------------------------------------------------------------------
PullNext ==
  \/ PlanPull \/ PullEnds \/ PullStops
  \/ \E k \in PulledKeys :
       \/ PutObject(k) \/ RemoveObject(k)
       \/ Download(k) \/ SetTime(k) \/ Delete(k)

PullSpec == PullInit /\ [][PullNext]_pullVars

-----------------------------------------------------------------------------
(* Properties.                                                             *)

(* A file that passes for current has the bytes of the object, though the  *)
(* object was put again while it was fetched, or the pull died between     *)
(* fetching it and setting its time (pull, plan_pull).                     *)
CurrentIsSame ==
  ~pulling =>
    \A k \in ListRemote \intersect ListLocal :
      Current(k) => local[k].version = bucket[k]

(* A pull that ran to its end while the bucket did not change leaves the   *)
(* local copy level with it, file for file and byte for byte, whatever the *)
(* pulls before it left (pull).                                            *)
QuietPullIsLevel ==
  PullDone /\ quiet =>
    \A k \in PulledKeys : local[k].version = bucket[k]

=============================================================================
