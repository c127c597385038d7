----------------------------- MODULE Artifacts ------------------------------
(***************************************************************************)
(* The artifact store: processes on several nodes publish one file or      *)
(* folder out of some directory and fetch it into some directory, while    *)
(* agents go on writing it, keys are published again, and fetches meet in  *)
(* one destination.                                                        *)
(*                                                                         *)
(* The content of a file is a set of pieces, and its own checksum: half a  *)
(* copy lacks pieces, a copy of a file being written mixes two versions.   *)
(* A folder is the set of the files in it.  Everything published has the   *)
(* same name, so that a destination directory gives one target: the file   *)
(* or folder itself at <<d, FALSE>>, a folder's archive at <<d, TRUE>>.    *)
(*                                                                         *)
(* Abstracted: http and git references; descriptions and media types but   *)
(* for the one of a folder.  Code between two awaits takes no time.        *)
(***************************************************************************)
EXTENDS Naturals, FiniteSets

CONSTANTS
  Procs,      \* daemons, sessions and command lines
  Nodes,      \* machines, each with a disk of its own
  Dirs,       \* absolute paths of directories; the same ones on every node
  Pieces,     \* what files are made of
  Keys,       \* keys of the object store
  NoFile, NoObject, NoSha,
  MaxSize,    \* artifact_max_mb
  MaxEvents   \* bound: edits, publications, fetches and failures

ASSUME PiecesAssumption == IsFiniteSet(Pieces) /\ \A c \in SUBSET Pieces : c \notin {NoFile, NoSha}
ASSUME StoreBoundsAssumption == MaxSize \in Nat /\ MaxEvents \in Nat

Contents == SUBSET Pieces
Places   == Dirs \X BOOLEAN

VARIABLES
  home,     \* the node of each process
  folder,   \* whether what is published is a folder
  disk,     \* node -> place -> what is there
  store,    \* key -> the object: its data, and the checksum in its header
  refs,     \* references that publish returned
  job,      \* process -> the upload or download it awaits, or the fetch that returned
  digests,  \* <<key, checksum>> pairs that were published
  events

storeVars == <<home, folder, disk, store, refs, job, digests, events>>

Idle == [op |-> "idle"]
Ready(p) == job[p].op \in {"idle", "returned"}
Returns(p, r, d) == job' = [job EXCEPT ![p] = [op |-> "returned", ref |-> r, dir |-> d]]
Raises(p) == job' = [job EXCEPT ![p] = Idle]

Event == events < MaxEvents /\ events' = events + 1

At(p, place) == disk[home[p]][place]
Leave(p, place, c) == disk' = [disk EXCEPT ![home[p]][place] = c]

StoreInit ==
  /\ home \in [Procs -> Nodes] /\ folder \in BOOLEAN
  /\ disk = [n \in Nodes |-> [place \in Places |-> NoFile]]
  /\ store = [k \in Keys |-> NoObject]
  /\ refs = {} /\ job = [p \in Procs |-> Idle] /\ digests = {} /\ events = 0

(* An agent writes or rewrites the file.                                   *)
Edit(n, d) ==
  /\ Event /\ \E c \in Contents \ {{}} : disk' = [disk EXCEPT ![n][<<d, FALSE>>] = c]
  /\ UNCHANGED <<home, folder, store, refs, job, digests>>

-----------------------------------------------------------------------------
(* publish *)

(* backend="file": no checksum of a folder.                                *)
PublishFile(p, d) ==
  /\ Event /\ At(p, <<d, FALSE>>) # NoFile
  /\ refs' = refs \cup {[at |-> <<home[p], d>>,
                         sha |-> IF folder THEN NoSha ELSE At(p, <<d, FALSE>>)]}
  /\ UNCHANGED <<home, folder, disk, store, job, digests>>

(* Mutant of Publish: no cap. *)
PublishUncapped(p, d, k) ==
  /\ Ready(p) /\ Event
  /\ At(p, <<d, FALSE>>) # NoFile
  /\ job' = [job EXCEPT ![p] = [op |-> "put", key |-> k, dir |-> d, sha |-> At(p, <<d, FALSE>>)]]
  /\ digests' = digests \cup {<<k, At(p, <<d, FALSE>>)>>}
  /\ UNCHANGED <<home, folder, disk, store, refs>>

(* Size and checksum are those of the file as it is now, or of the archive *)
(* made of the folder; a file too large is refused.                        *)
Publish(p, d, k) ==
  /\ Ready(p) /\ Event
  /\ At(p, <<d, FALSE>>) # NoFile /\ Cardinality(At(p, <<d, FALSE>>)) <= MaxSize
  /\ job' = [job EXCEPT ![p] = [op |-> "put", key |-> k, dir |-> d, sha |-> At(p, <<d, FALSE>>)]]
  /\ digests' = digests \cup {<<k, At(p, <<d, FALSE>>)>>}
  /\ UNCHANGED <<home, folder, disk, store, refs>>

(* What put reads of a file that may have changed since; archives do not.  *)
Uploaded(p) ==
  LET now == At(p, <<job[p].dir, FALSE>>) IN
  IF folder \/ now = NoFile THEN {job[p].sha}
  ELSE {c \in SUBSET (job[p].sha \cup now) : job[p].sha \cap now \subseteq c}

Object(p, c) == [store EXCEPT ![job[p].key] = [data |-> c, sha |-> job[p].sha]]

PutOk(p) ==
  /\ job[p].op = "put"
  /\ \E c \in Uploaded(p) : store' = Object(p, c)
  /\ refs' = refs \cup {[at |-> job[p].key, sha |-> job[p].sha]}
  /\ Raises(p)
  /\ UNCHANGED <<home, folder, disk, digests, events>>

(* The put raises; the object may be there all the same.                   *)
PutFails(p) ==
  /\ job[p].op = "put" /\ Event
  /\ \/ UNCHANGED store
     \/ \E c \in Uploaded(p) : store' = Object(p, c)
  /\ Raises(p)
  /\ UNCHANGED <<home, folder, disk, refs, digests>>

-----------------------------------------------------------------------------
(* fetch *)

(* A caller may pass the reference, or its URI alone.                      *)
Asked(r) == {r, [r EXCEPT !.sha = NoSha]}

Target(d) == <<d, folder>>

(* get_info, and the target is opened for writing.                         *)
FetchObject(p, r, d) ==
  /\ Ready(p) /\ Event
  /\ r.at \in Keys /\ store[r.at] # NoObject
  /\ \E q \in Asked(r) :
       job' = [job EXCEPT ![p] = [op |-> "get", ref |-> q, dir |-> d, sha |-> store[r.at].sha]]
  /\ Leave(p, Target(d), {})
  /\ UNCHANGED <<home, folder, store, refs, digests>>

(* What the target holds when the object as it is now has been written     *)
(* over what others put there since it was opened.                         *)
Written(p) ==
  LET data == store[job[p].ref.at].data
      there == At(p, Target(job[p].dir))
  IN {c \in Contents : data \subseteq c /\ c \subseteq data \cup (IF there = NoFile THEN {} ELSE there)}

(* Mutant of Verified: the checksum in the header is not looked at. *)
VerifiedByRefOnly(p, c) == job[p].ref.sha \in {NoSha, c}

(* The header's checksum, then the reference's.                            *)
Verified(p, c) == c = job[p].sha /\ job[p].ref.sha \in {NoSha, c}

(* A folder is unpacked over what is there, its archive goes.              *)
Unpacked(p, c) ==
  LET there == At(p, <<job[p].dir, FALSE>>) IN
  IF ~folder THEN [disk EXCEPT ![home[p]][<<job[p].dir, FALSE>>] = c]
  ELSE [disk EXCEPT ![home[p]][<<job[p].dir, TRUE>>] = NoFile,
                    ![home[p]][<<job[p].dir, FALSE>>] = IF there = NoFile THEN c ELSE there \cup c]

GetOk(p) ==
  /\ job[p].op = "get"
  /\ \E c \in Written(p) : Verified(p, c) /\ disk' = Unpacked(p, c)
  /\ Returns(p, job[p].ref, job[p].dir)
  /\ UNCHANGED <<home, folder, store, refs, digests, events>>

GetMismatch(p) ==
  /\ job[p].op = "get"
  /\ \E c \in Written(p) : ~Verified(p, c)
  /\ Leave(p, Target(job[p].dir), NoFile)
  /\ Raises(p)
  /\ UNCHANGED <<home, folder, store, refs, digests, events>>

(* The get raises, and leaves what it has written.                         *)
GetFails(p) ==
  /\ job[p].op = "get" /\ Event
  /\ \E c \in Written(p) : \E part \in SUBSET c : Leave(p, Target(job[p].dir), part)
  /\ Raises(p)
  /\ UNCHANGED <<home, folder, store, refs, digests>>

(* _fetch_file takes what is at that path on this node, whatever node the  *)
(* reference names; a target whose checksum differs is removed, also when  *)
(* it is the original itself.                                              *)
FetchFile(p, r, d) ==
  /\ Ready(p) /\ Event /\ r.at \notin Keys
  /\ LET src == At(p, <<r.at[2], FALSE>>)
         there == At(p, <<d, FALSE>>)
         copy == IF folder /\ there # NoFile THEN there \cup src ELSE src
     IN /\ src # NoFile
        /\ \E q \in Asked(r) :
             \/ q.sha \in {NoSha, copy} /\ Leave(p, <<d, FALSE>>, copy) /\ Returns(p, q, d)
             \/ q.sha \notin {NoSha, copy} /\ Leave(p, <<d, FALSE>>, NoFile) /\ Raises(p)
  /\ UNCHANGED <<home, folder, store, refs, digests>>

-----------------------------------------------------------------------------
StoreNext ==
  \/ \E n \in Nodes, d \in Dirs : Edit(n, d)
  \/ \E p \in Procs, d \in Dirs :
       \/ PublishFile(p, d)
       \/ \E k \in Keys : Publish(p, d, k)
       \/ \E r \in refs : FetchObject(p, r, d) \/ FetchFile(p, r, d)
  \/ \E p \in Procs : PutOk(p) \/ PutFails(p) \/ GetOk(p) \/ GetMismatch(p) \/ GetFails(p)

StoreSpec == StoreInit /\ [][StoreNext]_storeVars

-----------------------------------------------------------------------------
Disks == [Nodes -> [Places -> {NoFile} \cup Contents]]

Objects == [data : Contents, sha : Contents]

Ref == [at : Keys \cup (Nodes \X Dirs), sha : {NoSha} \cup Contents]

Job ==
  {Idle} \cup [op : {"put"}, key : Keys, dir : Dirs, sha : Contents]
         \cup [op : {"get"}, ref : Ref, dir : Dirs, sha : Contents]
         \cup [op : {"returned"}, ref : Ref, dir : Dirs]

(* Every variable has its type; what is uploaded is within the cap by its  *)
(* size when it was published, objects have a header that was published.   *)
StoreTypeOK ==
  /\ home \in [Procs -> Nodes] /\ folder \in BOOLEAN
  /\ disk \in Disks
  /\ store \in [Keys -> {NoObject} \cup Objects]
  /\ refs \subseteq Ref /\ job \in [Procs -> Job]
  /\ digests \subseteq Keys \X {c \in Contents : Cardinality(c) <= MaxSize}
  /\ \A k \in Keys : store[k] # NoObject => <<k, store[k].sha>> \in digests
  /\ events \in 0..MaxEvents

(* The inductive invariant behind FetchedIsPublished: the checksum a put   *)
(* will write into the header, and the one a get has read there, were      *)
(* published under that key; and objects are replaced, never removed, so   *)
(* that there is one to read when the download comes to it.                *)
PublishedInv ==
  \A p \in Procs :
    /\ job[p].op = "put" => <<job[p].key, job[p].sha>> \in digests
    /\ job[p].op = "get" =>
         job[p].ref.at \in Keys /\ store[job[p].ref.at] \in Objects /\ <<job[p].ref.at, job[p].sha>> \in digests

(* What is at the place p fetched into, for what was published as c: the   *)
(* same, or a folder that has everything it had.                           *)
Has(p, d, c) ==
  LET there == disk'[home[p]][<<d, FALSE>>] IN
  IF folder THEN there # NoFile /\ c \subseteq there ELSE there = c

(* MESSAGE_PROTOCOL.md:102 "verified on fetch when present": a fetch that  *)
(* returns has what the reference stood for; of an object, asked for by    *)
(* its URI alone, it has one version of the key as it was published, never *)
(* a mix of two and never half of one - whoever edits the file while it is *)
(* uploaded, publishes the key again while it is downloaded, or fetches    *)
(* into the same place.                                                    *)
ReturnsPublished(p) ==
  job'[p].op = "returned" /\ job'[p] # job[p] =>
    LET r == job'[p].ref
        versions == IF r.sha # NoSha THEN {r.sha}
                    ELSE {c \in Contents : <<r.at, c>> \in digests}
    IN r.at \in Keys \/ r.sha # NoSha => \E c \in versions : Has(p, job'[p].dir, c)

FetchedIsPublished == [][\A p \in Procs : ReturnsPublished(p)]_storeVars
=============================================================================
