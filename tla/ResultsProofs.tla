--------------------------- MODULE ResultsProofs ----------------------------
(***************************************************************************)
(* Proofs about what a result refers to: the artifact store (module        *)
(* Artifacts), for any pieces, keys, directories and processes; and the    *)
(* clone, branch and patch of a code task (module CodeTask), for any sets  *)
(* of commits and any number of kills.  The two specifications share no    *)
(* variable: the patch reaches the store as any file does.                 *)
(***************************************************************************)
EXTENDS Artifacts, CodeTask, TLAPS

(***************************************************************************)
(* The artifact store                                                      *)
(***************************************************************************)

(* What an upload and a download carry.                                    *)
LEMMA JobFields ==
  ASSUME StoreTypeOK, NEW p \in Procs
  PROVE  /\ job[p].op = "put" => job[p].key \in Keys /\ job[p].dir \in Dirs /\ job[p].sha \in Contents
         /\ job[p].op = "get" => job[p].ref \in Ref /\ job[p].dir \in Dirs /\ job[p].sha \in Contents
<1>1. job[p] \in Job BY DEF StoreTypeOK
<1> QED BY <1>1 DEF Job, Idle

(* What is at a place a process can name.                                  *)
LEMMA PlaceType ==
  ASSUME StoreTypeOK, NEW p \in Procs, NEW d \in Dirs, NEW b \in BOOLEAN
  PROVE  home[p] \in Nodes /\ <<d, b>> \in Places /\ At(p, <<d, b>>) \in {NoFile} \cup Contents
BY DEF StoreTypeOK, Places, At, Disks

(* Leaving something at a place leaves a disk.                             *)
LEMMA LeaveType ==
  ASSUME NEW f \in Disks, NEW n \in Nodes, NEW place \in Places, NEW c \in {NoFile} \cup Contents
  PROVE  LET g == [f EXCEPT ![n][place] = c] IN g \in Disks /\ g[n][place] = c
BY DEF Disks

(* The types of the records the steps make.                                *)
LEMMA RecordTypes ==
  /\ Idle \in Job
  /\ \A k \in Keys, d \in Dirs, c \in Contents : [op |-> "put", key |-> k, dir |-> d, sha |-> c] \in Job
  /\ \A r \in Ref, d \in Dirs, c \in Contents : [op |-> "get", ref |-> r, dir |-> d, sha |-> c] \in Job
  /\ \A r \in Ref, d \in Dirs : [op |-> "returned", ref |-> r, dir |-> d] \in Job
  /\ \A r \in Ref : Asked(r) \subseteq Ref /\ \A q \in Asked(r) : q.at = r.at
  /\ \A d, c \in Contents : [data |-> d, sha |-> c] \in Objects
<1>1. \A r \in Ref : Asked(r) \subseteq Ref /\ \A q \in Asked(r) : q.at = r.at BY DEF Asked, Ref
<1> QED BY <1>1 DEF Job, Objects

(* What is uploaded is made of pieces.                                     *)
LEMMA UploadedType == ASSUME StoreTypeOK, NEW p \in Procs, job[p].op = "put" PROVE Uploaded(p) \subseteq Contents
<1>1. At(p, <<job[p].dir, FALSE>>) \in {NoFile} \cup Contents /\ job[p].sha \in Contents BY JobFields, PlaceType
<1> QED BY <1>1 DEF Uploaded, Contents

(* Unpacking leaves a disk, on which the target has what was unpacked.     *)
LEMMA UnpackedType ==
  ASSUME StoreTypeOK, NEW p \in Procs, job[p].op = "get", NEW c \in Contents
  PROVE  /\ Unpacked(p, c) \in Disks
         /\ LET there == Unpacked(p, c)[home[p]][<<job[p].dir, FALSE>>]
            IN  IF folder THEN there # NoFile /\ c \subseteq there ELSE there = c
<1> DEFINE file == <<job[p].dir, FALSE>>
           archive == <<job[p].dir, TRUE>>
           there == At(p, file)
           new == IF there = NoFile THEN c ELSE there \cup c
           disk1 == [disk EXCEPT ![home[p]][archive] = NoFile]
<1>1. home[p] \in Nodes /\ file \in Places /\ archive \in Places /\ there \in {NoFile} \cup Contents
  BY JobFields, PlaceType
<1>2. disk \in Disks /\ c \in {NoFile} \cup Contents BY DEF StoreTypeOK
<1>3. new \in Contents /\ c \subseteq new /\ new # NoFile BY <1>1, PiecesAssumption DEF Contents
<1> DEFINE loose == [disk EXCEPT ![home[p]][file] = c]
           both == [disk1 EXCEPT ![home[p]][file] = new]
<1>4. Unpacked(p, c) = IF ~folder THEN loose ELSE both
  BY DEF Unpacked
<1> HIDE DEF file, archive, there, new
<1>5. loose \in Disks /\ loose[home[p]][file] = c BY <1>1, <1>2, LeaveType
<1>6. disk1 \in Disks BY <1>1, <1>2, LeaveType
<1> HIDE DEF disk1
<1>7. both \in Disks /\ both[home[p]][file] = new BY <1>1, <1>3, <1>6, LeaveType
<1> HIDE DEF loose, both
<1>8. CASE ~folder BY <1>4, <1>5, <1>8 DEF file
<1>9. CASE folder BY <1>3, <1>4, <1>7, <1>9 DEF file
<1> QED BY <1>8, <1>9

(* Nothing was published and nobody awaits anything in the beginning.      *)
LEMMA ArtifactsInitType == StoreInit => StoreTypeOK /\ PublishedInv
<1> SUFFICES ASSUME StoreInit PROVE StoreTypeOK /\ PublishedInv OBVIOUS
<1>1. disk \in Disks BY DEF StoreInit, Disks
<1>2. job \in [Procs -> Job] BY RecordTypes DEF StoreInit
<1> QED BY <1>1, <1>2, StoreBoundsAssumption DEF StoreInit, StoreTypeOK, PublishedInv, Idle

(* Every step keeps the types and PublishedInv: a put and a get are begun  *)
(* with a checksum that was published, digests only grow, and what PutOk   *)
(* and PutFails store is replaced by an object, never by nothing.          *)
LEMMA ArtifactsStep == StoreTypeOK /\ PublishedInv /\ [StoreNext]_storeVars => StoreTypeOK' /\ PublishedInv'
<1> SUFFICES ASSUME StoreTypeOK, PublishedInv, [StoreNext]_storeVars PROVE StoreTypeOK' /\ PublishedInv'
  OBVIOUS
<1> DEFINE Small == {c \in Contents : Cardinality(c) <= MaxSize}
<1>0. disk \in Disks /\ (Event => events' \in 0 .. MaxEvents)
  BY StoreBoundsAssumption DEF StoreTypeOK, Event
<1>1. ASSUME UNCHANGED <<home, folder, store, refs, job, digests>>, events' \in 0 .. MaxEvents, disk' \in Disks
      PROVE  StoreTypeOK' /\ PublishedInv'
  BY <1>1 DEF StoreTypeOK, PublishedInv
<1>2. ASSUME NEW p \in Procs, NEW j \in Job, job' = [job EXCEPT ![p] = j], j.op \in {"idle", "returned"},
             UNCHANGED <<home, folder, store, digests>>, events' \in 0 .. MaxEvents,
             disk' \in Disks, refs' \subseteq Ref
      PROVE  StoreTypeOK' /\ PublishedInv'
  BY <1>2 DEF StoreTypeOK, PublishedInv
<1>3. ASSUME NEW n \in Nodes, NEW d \in Dirs, Edit(n, d) PROVE StoreTypeOK' /\ PublishedInv'
  <2>1. PICK c \in Contents : disk' = [disk EXCEPT ![n][<<d, FALSE>>] = c] BY <1>3 DEF Edit
  <2>2. <<d, FALSE>> \in Places BY DEF Places
  <2>3. disk' \in Disks BY <1>0, <2>1, <2>2, LeaveType
  <2>4. Event /\ UNCHANGED <<home, folder, store, refs, job, digests>> BY <1>3 DEF Edit
  <2> QED BY <1>0, <1>1, <2>3, <2>4
<1>4. ASSUME NEW p \in Procs, NEW d \in Dirs, PublishFile(p, d) PROVE StoreTypeOK' /\ PublishedInv'
  <2>1. home[p] \in Nodes /\ (~folder => At(p, <<d, FALSE>>) \in Contents) BY <1>4, PlaceType DEF PublishFile
  <2>2. refs' \subseteq Ref BY <1>4, <2>1 DEF PublishFile, Ref, StoreTypeOK
  <2> QED BY <1>0, <1>4, <2>2 DEF PublishFile, StoreTypeOK, PublishedInv
<1>5. ASSUME NEW p \in Procs, NEW d \in Dirs, NEW k \in Keys, Publish(p, d, k) PROVE StoreTypeOK' /\ PublishedInv'
  <2> DEFINE c == At(p, <<d, FALSE>>)
             j == [op |-> "put", key |-> k, dir |-> d, sha |-> c]
  <2>1. c \in Small BY <1>5, PlaceType DEF Publish
  <2>2. j \in Job BY <2>1, RecordTypes
  <2>3. job' = [job EXCEPT ![p] = j] /\ digests' = digests \cup {<<k, c>>} BY <1>5 DEF Publish
  <2>4. j.op = "put" /\ j.key = k /\ j.sha = c OBVIOUS
  <2> HIDE DEF c, j
  <2>5. job' \in [Procs -> Job] /\ digests' \subseteq Keys \X Small BY <2>1, <2>2, <2>3 DEF StoreTypeOK
  <2>6. PublishedInv' BY <1>5, <2>3, <2>4 DEF Publish, PublishedInv, StoreTypeOK
  <2> QED BY <1>0, <1>5, <2>3, <2>5, <2>6 DEF Publish, StoreTypeOK
<1>6. ASSUME NEW p \in Procs, job[p].op = "put", NEW c \in Contents,
             store' = Object(p, c), job' = [job EXCEPT ![p] = Idle],
             UNCHANGED <<home, folder, disk, digests>>, events' \in 0 .. MaxEvents, refs' \subseteq Ref
      PROVE  StoreTypeOK' /\ PublishedInv'
  <2> DEFINE k == job[p].key
             o == [data |-> c, sha |-> job[p].sha]
  <2>1. k \in Keys /\ o \in Objects /\ <<k, job[p].sha>> \in digests /\ o.sha = job[p].sha
    BY <1>6, JobFields, RecordTypes DEF PublishedInv
  <2>2. store' = [store EXCEPT ![k] = o] BY <1>6 DEF Object
  <2> HIDE DEF k, o
  <2>3. store \in [Keys -> {NoObject} \cup Objects] BY DEF StoreTypeOK
  <2>4. /\ store' \in [Keys -> {NoObject} \cup Objects]
        /\ \A x \in Keys : store'[x] = store[x] \/ (x = k /\ store'[x] = o)
    BY <2>1, <2>2, <2>3
  <2>5. \A x \in Keys : store'[x] # NoObject => <<x, store'[x].sha>> \in digests' BY <1>6, <2>1, <2>4 DEF StoreTypeOK
  <2>6. job' \in [Procs -> Job] /\ \A q \in Procs : job'[q] = job[q] \/ job'[q] = Idle
    BY <1>6, RecordTypes DEF StoreTypeOK
  <2>7. PublishedInv' BY <1>6, <2>1, <2>4, <2>6 DEF PublishedInv, Idle
  <2> QED BY <1>6, <2>4, <2>5, <2>6, <2>7 DEF StoreTypeOK
<1>7. ASSUME NEW p \in Procs, PutOk(p) PROVE StoreTypeOK' /\ PublishedInv'
  <2>1. PICK c \in Contents : store' = Object(p, c) BY <1>7, UploadedType DEF PutOk
  <2>2. refs' \subseteq Ref BY <1>7, JobFields DEF PutOk, Ref, StoreTypeOK
  <2>3. events' \in 0 .. MaxEvents BY <1>7 DEF PutOk, StoreTypeOK
  <2> QED BY <1>6, <1>7, <2>1, <2>2, <2>3 DEF PutOk, Raises
<1>8. ASSUME NEW p \in Procs, PutFails(p) PROVE StoreTypeOK' /\ PublishedInv'
  <2>1. refs' \subseteq Ref BY <1>8 DEF PutFails, StoreTypeOK
  <2>2. /\ job[p].op = "put" /\ Event /\ job' = [job EXCEPT ![p] = Idle]
        /\ UNCHANGED <<home, folder, disk, digests>>
    BY <1>8 DEF PutFails, Raises
  <2>3. CASE UNCHANGED store
    BY <1>0, <1>2, <2>1, <2>2, <2>3, RecordTypes DEF Idle
  <2>4. ASSUME NEW c \in Uploaded(p), store' = Object(p, c) PROVE StoreTypeOK' /\ PublishedInv'
    <3>1. c \in Contents BY <2>2, UploadedType
    <3> QED BY <1>0, <1>6, <2>1, <2>2, <2>4, <3>1
  <2> QED BY <1>8, <2>3, <2>4 DEF PutFails
<1>9. ASSUME NEW p \in Procs, NEW d \in Dirs, NEW r \in refs, FetchObject(p, r, d) PROVE StoreTypeOK' /\ PublishedInv'
  <2> DEFINE o == store[r.at]
  <2>1. r \in Ref /\ r.at \in Keys /\ o \in Objects /\ <<r.at, o.sha>> \in digests /\ o.sha \in Contents
    BY <1>9 DEF FetchObject, StoreTypeOK, Objects
  <2>2. PICK q \in Asked(r) : job' = [job EXCEPT ![p] = [op |-> "get", ref |-> q, dir |-> d, sha |-> o.sha]]
    BY <1>9 DEF FetchObject
  <2>3. q \in Ref /\ q.at = r.at BY <2>1, <2>2, RecordTypes
  <2> DEFINE j == [op |-> "get", ref |-> q, dir |-> d, sha |-> o.sha]
  <2>4. j \in Job /\ j.op = "get" /\ j.ref = q /\ j.sha = o.sha BY <2>1, <2>3, RecordTypes
  <2>5. disk' \in Disks 
    <3>1. home[p] \in Nodes /\ Target(d) \in Places /\ {} \in Contents BY DEF StoreTypeOK, Target, Places, Contents
    <3>2. Leave(p, Target(d), {}) BY <1>9 DEF FetchObject
    <3> QED BY <1>0, <3>1, <3>2, LeaveType DEF Leave
  <2>6. UNCHANGED <<home, folder, store, refs, digests>> /\ events' \in 0 .. MaxEvents BY <1>0, <1>9 DEF FetchObject
  <2> HIDE DEF j
  <2>7. job' \in [Procs -> Job] /\ \A x \in Procs : job'[x] = job[x] \/ job'[x] = j BY <2>2, <2>4 DEF StoreTypeOK, j
  <2>8. PublishedInv' BY <2>1, <2>3, <2>4, <2>6, <2>7 DEF PublishedInv
  <2> QED BY <2>5, <2>6, <2>7, <2>8 DEF StoreTypeOK
<1>10. ASSUME NEW p \in Procs, GetOk(p) PROVE StoreTypeOK' /\ PublishedInv'
  <2>1. disk' \in Disks BY <1>10, UnpackedType DEF GetOk, Written
  <2>2. [op |-> "returned", ref |-> job[p].ref, dir |-> job[p].dir] \in Job BY <1>10, JobFields, RecordTypes DEF GetOk
  <2>3. refs' \subseteq Ref /\ events' \in 0 .. MaxEvents BY <1>10 DEF GetOk, StoreTypeOK
  <2> QED BY <1>2, <1>10, <2>1, <2>2, <2>3 DEF GetOk, Returns
<1>11. ASSUME NEW p \in Procs, GetMismatch(p) \/ GetFails(p) PROVE StoreTypeOK' /\ PublishedInv'
  <2>1. job[p].dir \in Dirs /\ home[p] \in Nodes /\ Target(job[p].dir) \in Places
    BY <1>11, JobFields DEF GetMismatch, GetFails, Target, Places, StoreTypeOK
  <2>2. PICK c \in {NoFile} \cup Contents : Leave(p, Target(job[p].dir), c)
    <3>1. Written(p) \subseteq Contents BY DEF Written
    <3> QED BY <1>11, <3>1 DEF GetMismatch, GetFails, Contents
  <2>3. disk' \in Disks BY <1>0, <2>1, <2>2, LeaveType DEF Leave
  <2>4. refs' \subseteq Ref /\ events' \in 0 .. MaxEvents BY <1>0, <1>11 DEF GetMismatch, GetFails, StoreTypeOK
  <2> QED BY <1>2, <1>11, <2>3, <2>4, RecordTypes DEF GetMismatch, GetFails, Raises, Idle
<1>12. ASSUME NEW p \in Procs, NEW d \in Dirs, NEW r \in refs, FetchFile(p, r, d) PROVE StoreTypeOK' /\ PublishedInv'
  <2>1. r \in Ref /\ r.at \in Nodes \X Dirs BY <1>12 DEF FetchFile, StoreTypeOK, Ref
  <2> DEFINE src == At(p, <<r.at[2], FALSE>>)
             there == At(p, <<d, FALSE>>)
             copy == IF folder /\ there # NoFile THEN there \cup src ELSE src
  <2>2. copy \in Contents
    <3>1. src \in Contents /\ there \in {NoFile} \cup Contents BY <1>12, <2>1, PlaceType DEF FetchFile
    <3> HIDE DEF src, there
    <3> QED BY <3>1 DEF Contents
  <2>3. PICK q \in Asked(r) :
          \/ Leave(p, <<d, FALSE>>, copy) /\ Returns(p, q, d)
          \/ Leave(p, <<d, FALSE>>, NoFile) /\ Raises(p)
    BY <1>12 DEF FetchFile
  <2> HIDE DEF copy
  <2>4. disk' \in Disks
    <3>1. home[p] \in Nodes /\ <<d, FALSE>> \in Places BY PlaceType
    <3>2. PICK c \in {NoFile} \cup Contents : Leave(p, <<d, FALSE>>, c) BY <2>2, <2>3
    <3> QED BY <1>0, <3>1, <3>2, LeaveType DEF Leave
  <2>5. q \in Ref BY <2>1, <2>3, RecordTypes
  <2>6. \E j \in Job : job' = [job EXCEPT ![p] = j] /\ j.op \in {"idle", "returned"}
    BY <2>3, <2>5, RecordTypes DEF Returns, Raises, Idle
  <2>7. refs' \subseteq Ref /\ events' \in 0 .. MaxEvents /\ UNCHANGED <<home, folder, store, digests>>
    BY <1>0, <1>12 DEF FetchFile, StoreTypeOK
  <2> QED BY <1>2, <2>4, <2>6, <2>7
<1>13. CASE UNCHANGED storeVars BY <1>1, <1>0, <1>13 DEF storeVars, StoreTypeOK
<1> QED BY <1>3, <1>4, <1>5, <1>7, <1>8, <1>9, <1>10, <1>11, <1>12, <1>13 DEF StoreNext

(* Every put and get in progress carries a checksum published under its    *)
(* key, and the object a get reads is still there when it reads it.        *)
THEOREM ArtifactsCorrect == StoreSpec => [](StoreTypeOK /\ PublishedInv)
BY ArtifactsInitType, ArtifactsStep, PTL DEF StoreSpec

(* Every variable of Artifacts keeps its type; an object's header was      *)
(* published under its key, and what is published is within the cap.       *)
THEOREM ArtifactsTypeCorrect == StoreSpec => []StoreTypeOK
BY ArtifactsCorrect, PTL

(* A step that leaves no fetch returned, but in one process something      *)
(* else, returns nothing.                                                  *)
LEMMA OthersReturnNothing ==
  ASSUME StoreTypeOK, NEW p \in Procs, NEW j, j.op # "returned", job' = [job EXCEPT ![p] = j]
  PROVE  \A q \in Procs : ReturnsPublished(q)
<1> SUFFICES ASSUME NEW q \in Procs, job'[q].op = "returned", job'[q] # job[q] PROVE FALSE
  BY DEF ReturnsPublished
<1>1. job'[q] = IF q = p THEN j ELSE job[q] BY DEF StoreTypeOK
<1> QED BY <1>1

(* A download returns what the header's checksum and the reference's say.  *)
LEMMA GetReturnsPublished ==
  ASSUME StoreTypeOK, PublishedInv, NEW p \in Procs, GetOk(p)
  PROVE  \A q \in Procs : ReturnsPublished(q)
<1> DEFINE r == job[p].ref
           d == job[p].dir
           j == [op |-> "returned", ref |-> r, dir |-> d]
<1>1. PICK c \in Written(p) : Verified(p, c) /\ disk' = Unpacked(p, c) BY DEF GetOk
<1>2. job[p].op = "get" /\ c \in Contents BY DEF GetOk, Written
<1>3. home' = home /\ folder' = folder /\ job' = [job EXCEPT ![p] = j] BY DEF GetOk, Returns
<1>4. j.ref = r /\ j.dir = d OBVIOUS
<1>5. c = job[p].sha /\ r.sha \in {NoSha, c} /\ <<r.at, c>> \in digests BY <1>1, <1>2 DEF Verified, PublishedInv
<1>6. Has(p, d, c) BY <1>1, <1>2, UnpackedType DEF Has
<1> HIDE DEF j
<1>7. \A q \in Procs : job'[q] = IF q = p THEN j ELSE job[q] BY <1>3 DEF StoreTypeOK
<1> HIDE DEF r, d
<1> QED BY <1>2, <1>4, <1>5, <1>6, <1>7 DEF ReturnsPublished

(* A copy is compared with the reference's checksum after it was made.     *)
LEMMA CopyReturnsPublished ==
  ASSUME StoreTypeOK, NEW p \in Procs, NEW d \in Dirs, NEW r \in refs, FetchFile(p, r, d)
  PROVE  \A q \in Procs : ReturnsPublished(q)
<1> DEFINE src == At(p, <<r.at[2], FALSE>>)
           there == At(p, <<d, FALSE>>)
           copy == IF folder /\ there # NoFile THEN there \cup src ELSE src
<1>1. r \in Ref /\ r.at \notin Keys /\ r.at \in Nodes \X Dirs BY DEF FetchFile, StoreTypeOK, Ref
<1>2. home[p] \in Nodes /\ <<d, FALSE>> \in Places /\ disk \in Disks BY PlaceType DEF StoreTypeOK
<1>3. src \in Contents /\ there \in {NoFile} \cup Contents BY <1>1, PlaceType DEF FetchFile
<1>4. copy \in Contents /\ copy # NoFile
  <2> HIDE DEF src, there
  <2> QED BY <1>3, PiecesAssumption DEF Contents
<1>5. PICK q \in Asked(r) :
        \/ q.sha \in {NoSha, copy} /\ Leave(p, <<d, FALSE>>, copy) /\ Returns(p, q, d)
        \/ q.sha \notin {NoSha, copy} /\ Leave(p, <<d, FALSE>>, NoFile) /\ Raises(p)
  BY DEF FetchFile
<1>6. CASE Raises(p) BY <1>6, OthersReturnNothing DEF Raises, Idle
<1>7. CASE q.sha \in {NoSha, copy} /\ Leave(p, <<d, FALSE>>, copy) /\ Returns(p, q, d)
  <2> DEFINE j == [op |-> "returned", ref |-> q, dir |-> d]
  <2> HIDE DEF copy
  <2>1. q.at \notin Keys BY <1>1, <1>5, RecordTypes
  <2>2. home' = home /\ folder' = folder /\ job' = [job EXCEPT ![p] = j] BY <1>7 DEF Returns, FetchFile
  <2>3. j.ref = q /\ j.dir = d OBVIOUS
  <2>4. disk' = [disk EXCEPT ![home[p]][<<d, FALSE>>] = copy] BY <1>7 DEF Leave
  <2>5. disk'[home[p]][<<d, FALSE>>] = copy BY <1>2, <2>4 DEF Disks
  <2>6. Has(p, d, copy) BY <1>4, <2>5 DEF Has
  <2> HIDE DEF j
  <2>7. \A x \in Procs : job'[x] = IF x = p THEN j ELSE job[x] BY <2>2 DEF StoreTypeOK
  <2> QED BY <1>7, <2>1, <2>3, <2>6, <2>7 DEF ReturnsPublished
<1> QED BY <1>5, <1>6, <1>7

(* A fetch that returns has what its reference stood for, whoever edits,   *)
(* publishes and fetches meanwhile, for any pieces, keys and processes.    *)
THEOREM FetchesArePublished == StoreSpec => FetchedIsPublished
<1>1. StoreTypeOK /\ PublishedInv /\ [StoreNext]_storeVars => [\A p \in Procs : ReturnsPublished(p)]_storeVars
  <2> SUFFICES ASSUME StoreTypeOK, PublishedInv, StoreNext PROVE \A p \in Procs : ReturnsPublished(p)
    OBVIOUS
  <2>1. ASSUME job' = job PROVE \A p \in Procs : ReturnsPublished(p) BY <2>1 DEF ReturnsPublished
  <2>2. ASSUME NEW n \in Nodes, NEW d \in Dirs, Edit(n, d) PROVE job' = job BY <2>2 DEF Edit
  <2>3. ASSUME NEW p \in Procs, NEW d \in Dirs, PublishFile(p, d) PROVE job' = job BY <2>3 DEF PublishFile
  <2>4. ASSUME NEW p \in Procs, NEW d \in Dirs, NEW k \in Keys, Publish(p, d, k)
        PROVE  \A q \in Procs : ReturnsPublished(q)
    <3>1. job' = [job EXCEPT ![p] = [op |-> "put", key |-> k, dir |-> d, sha |-> At(p, <<d, FALSE>>)]]
      BY <2>4 DEF Publish
    <3> QED BY <3>1, OthersReturnNothing
  <2>5. ASSUME NEW p \in Procs, NEW d \in Dirs, NEW r \in refs, FetchObject(p, r, d)
        PROVE  \A q \in Procs : ReturnsPublished(q)
    <3>1. PICK q \in Asked(r) : job' = [job EXCEPT ![p] = [op |-> "get", ref |-> q, dir |-> d, sha |-> store[r.at].sha]]
      BY <2>5 DEF FetchObject
    <3> QED BY <3>1, OthersReturnNothing
  <2>6. ASSUME NEW p \in Procs, PutOk(p) \/ PutFails(p) \/ GetMismatch(p) \/ GetFails(p)
        PROVE  \A q \in Procs : ReturnsPublished(q)
    <3>1. job' = [job EXCEPT ![p] = Idle] BY <2>6 DEF PutOk, PutFails, GetMismatch, GetFails, Raises
    <3> QED BY <3>1, OthersReturnNothing DEF Idle
  <2> QED BY <2>1, <2>2, <2>3, <2>4, <2>5, <2>6, GetReturnsPublished, CopyReturnsPublished DEF StoreNext
<1> QED BY <1>1, ArtifactsCorrect, PTL DEF StoreSpec, FetchedIsPublished

(***************************************************************************)
(* Code tasks                                                              *)
(***************************************************************************)

(***************************************************************************)
(* Types                                                                   *)
(***************************************************************************)

(* The types hold in the beginning.                                        *)
LEMMA CodeInitType == Init => TypeOK
<1> SUFFICES ASSUME Init PROVE TypeOK OBVIOUS
<1>1. result \in ResultType BY DEF Init, ResultType, Histories, Statuses
<1>2. {} \in Histories BY DEF Histories
<1> QED BY <1>1, <1>2 DEF Init, TypeOK, Statuses, Steps

(* Each action gives the variables it changes values of their types.       *)
LEMMA CodeStepType == TypeOK /\ [Next]_vars => TypeOK'
<1> SUFFICES ASSUME TypeOK, [Next]_vars PROVE TypeOK' OBVIOUS
<1> USE DEF TypeOK, Histories, Commits, Steps, Statuses, repoVars, cloneVars, attemptVars
<1>1. CASE Create BY <1>1 DEF Create
<1>2. CASE CloneDone BY <1>2 DEF CloneDone
<1>3. CASE Checkout BY <1>3 DEF Checkout
<1>4. CASE CreateFails BY <1>4 DEF CreateFails, Finish, ResultType
<1>5. ASSUME NEW c \in AgentCommits, CommitInClone(c) PROVE TypeOK'
  BY <1>5 DEF CommitInClone, MoveHead, Grows, InClone, Exporting
<1>6. CASE MergeOrigin BY <1>6 DEF MergeOrigin, MoveHead, Grows, InClone, Exporting
<1>7. CASE Reset BY <1>7 DEF Reset, MoveHead, Rewrites, InClone, Exporting
<1>8. CASE LeaveBranch
  <2>1. onBranch' \in BOOLEAN /\ orphan' \in BOOLEAN /\ exitOk' \in BOOLEAN BY <1>8, Zenon DEF LeaveBranch
  <2> QED BY <1>8, <2>1 DEF LeaveBranch, Rewrites, InClone, Exporting
<1>9. CASE TakeBranch BY <1>9 DEF TakeBranch, Rewrites, InClone, Exporting
<1>10. CASE OrphanExits
  <2>1. onBranch' \in BOOLEAN /\ orphan' \in BOOLEAN /\ exitOk' \in BOOLEAN BY <1>10, Zenon DEF OrphanExits
  <2> QED BY <1>10, <2>1 DEF OrphanExits
<1>11. CASE RunFails BY <1>11 DEF RunFails, Finish, ResultType
<1>12. CASE AgentExits
  <2>1. onBranch' \in BOOLEAN /\ orphan' \in BOOLEAN /\ exitOk' \in BOOLEAN BY <1>12, Zenon DEF AgentExits
  <2>2. PICK c \in Claims, ok \in BOOLEAN : claim' = c /\ body' = ResultFrom(c, ok) BY <1>12, Zenon DEF AgentExits
  <2>3. claim' \in Statuses \cup {"none"} /\ body' \in Statuses BY <2>2, BoundsAssumption DEF ResultFrom
  <2> QED BY <1>12, <2>1, <2>3 DEF AgentExits
<1>13. CASE Summarise BY <1>13 DEF Summarise, NewCommits
<1>14. CASE WritePatch BY <1>14 DEF WritePatch, NewCommits
<1>15. CASE ImportBranch BY <1>15 DEF ImportBranch
<1>16. CASE ExportFails BY <1>16 DEF ExportFails, Finish, ResultType
<1>17. CASE Deliver BY <1>17 DEF Deliver, Finish, ResultType
<1>18. CASE Killed
  <2>1. onBranch' \in BOOLEAN /\ orphan' \in BOOLEAN /\ exitOk' \in BOOLEAN BY <1>18, Zenon DEF Killed, Forget
  <2> QED BY <1>18, <2>1 DEF Killed, Forget
<1>19. ASSUME NEW c \in OtherCommits, Commit(c) PROVE TypeOK' BY <1>19 DEF Commit
<1>20. CASE Merge BY <1>20 DEF Merge
<1>21. CASE Switch BY <1>21 DEF Switch
<1>22. CASE UNCHANGED vars BY <1>22 DEF vars
<1> QED
  BY <1>1, <1>2, <1>3, <1>4, <1>5, <1>6, <1>7, <1>8, <1>9, <1>10, <1>11, <1>12,
     <1>13, <1>14, <1>15, <1>16, <1>17, <1>18, <1>19, <1>20, <1>21, <1>22 DEF Next, Agents

(* Every variable of CodeTask keeps its type.                              *)
THEOREM TypeCorrect == Spec => []TypeOK
BY CodeInitType, CodeStepType, PTL DEF Spec

(***************************************************************************)
(* The export commands read a clone that may still change.                 *)
(***************************************************************************)

(* What each command may count on. While HEAD was on the task's branch     *)
(* since summary() and only grew: what summary() listed is in the patch,   *)
(* and what the patch has is fetched, if anything is. A commit after an    *)
(* empty summary() is the exception.                                       *)
ExportInv ==
  /\ onBranch => clone = "ready" /\ head = branch
  /\ Exporting /\ export # "other" => onBranch
  /\ step = "summarised" /\ export # "other" => found \subseteq NewCommits
  /\ step = "summarised" /\ export = "clean" => found = NewCommits
  /\ step = "importing" /\ export # "other" => found \subseteq patch /\ patch \subseteq head
  /\ step = "importing" /\ export = "clean" => found = patch
  /\ step = "exported" /\ export # "other" =>
       found \subseteq patch /\ (patch \subseteq imported \/ (found = {} /\ export = "grown"))
  /\ step = "exported" /\ export = "clean" => found = patch
  /\ PatchIsOnBranch

(* Nothing is being exported in the beginning.                             *)
LEMMA InitExportInv == Init => ExportInv
BY DEF Init, ExportInv, Exporting, PatchIsOnBranch, Sent

(* Commits and merges made meanwhile only add to what a command has read.  *)
LEMMA StepExportInv == TypeOK /\ ExportInv /\ [Next]_vars => ExportInv'
<1> SUFFICES ASSUME TypeOK, ExportInv, [Next]_vars PROVE ExportInv' OBVIOUS
<1> USE DEF ExportInv, Exporting, PatchIsOnBranch, Sent, NewCommits, repoVars, cloneVars, attemptVars
<1>1. CASE Create BY <1>1 DEF Create
<1>2. CASE CloneDone BY <1>2 DEF CloneDone
<1>3. CASE Checkout BY <1>3 DEF Checkout
<1>4. CASE CreateFails BY <1>4 DEF CreateFails, Finish
<1>5. ASSUME NEW c \in AgentCommits, CommitInClone(c) PROVE ExportInv'
  BY <1>5 DEF CommitInClone, MoveHead, Grows, InClone
<1>6. CASE MergeOrigin BY <1>6 DEF MergeOrigin, MoveHead, Grows, InClone
<1>7. CASE Reset BY <1>7 DEF Reset, MoveHead, Rewrites, InClone
<1>8. CASE LeaveBranch BY <1>8 DEF LeaveBranch, Rewrites, InClone
<1>9. CASE TakeBranch BY <1>9 DEF TakeBranch, Rewrites, InClone
<1>10. CASE OrphanExits BY <1>10 DEF OrphanExits
<1>11. CASE RunFails BY <1>11 DEF RunFails, Finish
<1>12. CASE AgentExits BY <1>12 DEF AgentExits
<1>13. CASE Summarise BY <1>13 DEF Summarise
<1>14. CASE WritePatch BY <1>14 DEF WritePatch, TypeOK
<1>15. CASE ImportBranch BY <1>15 DEF ImportBranch
<1>16. CASE ExportFails BY <1>16 DEF ExportFails, Finish
<1>17. CASE Deliver BY <1>17 DEF Deliver, Finish
<1>18. CASE Killed BY <1>18 DEF Killed, Forget
<1>19. ASSUME NEW c \in OtherCommits, Commit(c) PROVE ExportInv' BY <1>19 DEF Commit
<1>20. CASE Merge BY <1>20 DEF Merge
<1>21. CASE Switch BY <1>21 DEF Switch
<1>22. CASE UNCHANGED vars BY <1>22 DEF vars
<1> QED
  BY <1>1, <1>2, <1>3, <1>4, <1>5, <1>6, <1>7, <1>8, <1>9, <1>10, <1>11, <1>12,
     <1>13, <1>14, <1>15, <1>16, <1>17, <1>18, <1>19, <1>20, <1>21, <1>22 DEF Next, Agents

(* For any commits, kills, resets and checkouts: result, patch and branch  *)
(* agree as PatchIsOnBranch says, the race it excepts being the only one   *)
(* with an agent that keeps to its branch.                                 *)
THEOREM PatchReachesBranch == Spec => []PatchIsOnBranch
<1>1. Spec => [](TypeOK /\ ExportInv)
  BY CodeInitType, CodeStepType, InitExportInv, StepExportInv, PTL DEF Spec
<1>2. ExportInv => PatchIsOnBranch BY DEF ExportInv
<1> QED BY <1>1, <1>2, PTL

(***************************************************************************)
(* Work survives.                                                          *)
(***************************************************************************)

(* What agents made is on HEAD until they drop it, because the clone is    *)
(* made and checked out before there is any agent; and what is on HEAD as  *)
(* the patch is written is in the patch or in its base.                    *)
WorkInv ==
  /\ made \subseteq head
  /\ clone \in {"absent", "cloning"} \/ step = "cloning" => made = {}
  /\ clone = "absent" \/ step = "cloning" => ~orphan
  /\ clone = "absent" => step \in {"idle", "done"}
  /\ step \in {"importing", "exported"} => made \subseteq patch \cup base
  /\ WorkIsDelivered

LEMMA StepWorkInv == TypeOK /\ WorkInv /\ [Next]_vars => WorkInv'
<1> SUFFICES ASSUME TypeOK, WorkInv, [Next]_vars PROVE WorkInv' OBVIOUS
<1> USE DEF WorkInv, WorkIsDelivered, Sent, NewCommits, repoVars, cloneVars, attemptVars
<1>1. CASE Create BY <1>1 DEF Create
<1>2. CASE CloneDone BY <1>2 DEF CloneDone
<1>3. CASE Checkout BY <1>3 DEF Checkout
<1>4. CASE CreateFails BY <1>4 DEF CreateFails, Finish
<1>5. ASSUME NEW c \in AgentCommits, CommitInClone(c) PROVE WorkInv'
  BY <1>5 DEF CommitInClone, MoveHead, Grows, InClone, Exporting
<1>6. CASE MergeOrigin BY <1>6 DEF MergeOrigin, MoveHead, Grows, InClone, Exporting
<1>7. CASE Reset BY <1>7 DEF Reset, MoveHead, Rewrites, InClone, Exporting
<1>8. CASE LeaveBranch BY <1>8 DEF LeaveBranch, Rewrites, InClone, Exporting
<1>9. CASE TakeBranch BY <1>9 DEF TakeBranch, Rewrites, InClone, Exporting
<1>10. CASE OrphanExits BY <1>10 DEF OrphanExits
<1>11. CASE RunFails BY <1>11 DEF RunFails, Finish
<1>12. CASE AgentExits BY <1>12 DEF AgentExits
<1>13. CASE Summarise BY <1>13 DEF Summarise
<1>14. CASE WritePatch BY <1>14 DEF WritePatch
<1>15. CASE ImportBranch BY <1>15 DEF ImportBranch
<1>16. CASE ExportFails BY <1>16 DEF ExportFails, Finish
<1>17. CASE Deliver BY <1>17 DEF Deliver, Finish
<1>18. CASE Killed BY <1>18 DEF Killed, Forget
<1>19. ASSUME NEW c \in OtherCommits, Commit(c) PROVE WorkInv' BY <1>19 DEF Commit
<1>20. CASE Merge BY <1>20 DEF Merge
<1>21. CASE Switch BY <1>21 DEF Switch
<1>22. CASE UNCHANGED vars BY <1>22 DEF vars
<1> QED
  BY <1>1, <1>2, <1>3, <1>4, <1>5, <1>6, <1>7, <1>8, <1>9, <1>10, <1>11, <1>12,
     <1>13, <1>14, <1>15, <1>16, <1>17, <1>18, <1>19, <1>20, <1>21, <1>22 DEF Next, Agents

(* What the agents of all attempts committed and did not drop themselves   *)
(* is in the patch of the result or in the commit the patch starts from,   *)
(* for any commits and any number of kills.                                *)
THEOREM WorkSurvives == Spec => []WorkIsDelivered
<1>1. Init => WorkInv BY DEF Init, WorkInv, WorkIsDelivered, Sent
<1>2. Spec => [](TypeOK /\ WorkInv)
  BY <1>1, CodeInitType, CodeStepType, StepWorkInv, PTL DEF Spec
<1>3. WorkInv => WorkIsDelivered BY DEF WorkInv
<1> QED BY <1>2, <1>3, PTL

(***************************************************************************)
(* Honesty                                                                 *)
(***************************************************************************)

Attaching == {"exited", "summarised", "importing", "exported"}

HonestInv ==
  /\ step \in Attaching => body = ResultFrom(claim, exitOk)
  /\ HonestResult

(* _attach_git only lowers a status, never raises it.                      *)
LEMMA StepHonestInv == TypeOK /\ ExportInv /\ HonestInv /\ [Next]_vars => HonestInv'
<1> SUFFICES ASSUME TypeOK, ExportInv, HonestInv, [Next]_vars PROVE HonestInv' OBVIOUS
<1> USE DEF HonestInv, HonestResult, Attaching, Sent, repoVars, cloneVars, attemptVars
<1>1. CASE Create BY <1>1 DEF Create
<1>2. CASE CloneDone BY <1>2 DEF CloneDone
<1>3. CASE Checkout BY <1>3 DEF Checkout
<1>4. CASE CreateFails BY <1>4 DEF CreateFails, Finish
<1>5. ASSUME NEW c \in AgentCommits, CommitInClone(c) PROVE HonestInv'
  BY <1>5 DEF CommitInClone, MoveHead, Grows, InClone, Exporting
<1>6. CASE MergeOrigin BY <1>6 DEF MergeOrigin, MoveHead, Grows, InClone, Exporting
<1>7. CASE Reset BY <1>7 DEF Reset, MoveHead, Rewrites, InClone, Exporting
<1>8. CASE LeaveBranch BY <1>8 DEF LeaveBranch, Rewrites, InClone, Exporting
<1>9. CASE TakeBranch BY <1>9 DEF TakeBranch, Rewrites, InClone, Exporting
<1>10. CASE OrphanExits BY <1>10 DEF OrphanExits
<1>11. CASE RunFails BY <1>11 DEF RunFails, Finish
<1>12. CASE AgentExits BY <1>12 DEF AgentExits
<1>13. CASE Summarise BY <1>13 DEF Summarise
<1>14. CASE WritePatch BY <1>14 DEF WritePatch
<1>15. CASE ImportBranch BY <1>15 DEF ImportBranch
<1>16. CASE ExportFails BY <1>16 DEF ExportFails, Finish, ResultFrom, TypeOK, Statuses
<1>17. CASE Deliver BY <1>17 DEF Deliver, Finish, ExportInv, ResultFrom, TypeOK, Statuses
<1>18. CASE Killed BY <1>18 DEF Killed, Forget
<1>19. ASSUME NEW c \in OtherCommits, Commit(c) PROVE HonestInv' BY <1>19 DEF Commit
<1>20. CASE Merge BY <1>20 DEF Merge
<1>21. CASE Switch BY <1>21 DEF Switch
<1>22. CASE UNCHANGED vars BY <1>22 DEF vars
<1> QED
  BY <1>1, <1>2, <1>3, <1>4, <1>5, <1>6, <1>7, <1>8, <1>9, <1>10, <1>11, <1>12,
     <1>13, <1>14, <1>15, <1>16, <1>17, <1>18, <1>19, <1>20, <1>21, <1>22 DEF Next, Agents

(* A task that ends "complete" was claimed complete by an agent that       *)
(* exited cleanly, and the patch of a branch read in peace has a commit.   *)
THEOREM ResultIsHonest == Spec => []HonestResult
<1>1. Init => HonestInv BY DEF Init, HonestInv, HonestResult, Attaching, Sent
<1>2. Spec => [](TypeOK /\ ExportInv /\ HonestInv)
  BY <1>1, CodeInitType, CodeStepType, InitExportInv, StepExportInv, StepHonestInv, PTL DEF Spec
<1>3. HonestInv => HonestResult BY DEF HonestInv
<1> QED BY <1>2, <1>3, PTL

(***************************************************************************)
(* New commits only, where nobody takes the repository back to an older    *)
(* commit.                                                                 *)
(***************************************************************************)

Working == {"running", "exited", "summarised", "importing", "exported"}

(* Without switches the repository only grows, so the base of each attempt *)
(* covers whatever the task's branch was made from.                        *)
NewInv ==
  switches = 0 =>
    /\ base \subseteq main
    /\ clone = "ready" => head \cup branch \subseteq main \cup AgentCommits \cup taken
    /\ clone = "ready" /\ step \in Working => head \cup branch \subseteq base \cup AgentCommits \cup taken
    /\ step \in {"importing", "exported"} /\ export # "other" => patch \subseteq AgentCommits \cup taken
    /\ OnlyNewCommits

(* What comes onto the branch is an agent's, was taken by an agent, or was *)
(* in the repository, and then in every base.                              *)
LEMMA StepNewInv == TypeOK /\ ExportInv /\ NewInv /\ [Next]_vars => NewInv'
<1> SUFFICES ASSUME TypeOK, ExportInv, NewInv, [Next]_vars PROVE NewInv' OBVIOUS
<1> USE DEF NewInv, OnlyNewCommits, Working, Sent, NewCommits, repoVars, cloneVars, attemptVars
<1>1. CASE Create BY <1>1 DEF Create
<1>2. CASE CloneDone BY <1>2 DEF CloneDone, ExportInv
<1>3. CASE Checkout BY <1>3 DEF Checkout
<1>4. CASE CreateFails BY <1>4 DEF CreateFails, Finish
<1>5. ASSUME NEW c \in AgentCommits, CommitInClone(c) PROVE NewInv'
  BY <1>5 DEF CommitInClone, MoveHead, Grows, InClone, Exporting
<1>6. CASE MergeOrigin BY <1>6 DEF MergeOrigin, MoveHead, Grows, InClone, Exporting
<1>7. CASE Reset BY <1>7 DEF Reset, MoveHead, Rewrites, InClone, Exporting
<1>8. CASE LeaveBranch BY <1>8 DEF LeaveBranch, Rewrites, InClone, Exporting
<1>9. CASE TakeBranch BY <1>9 DEF TakeBranch, Rewrites, InClone, Exporting
<1>10. CASE OrphanExits BY <1>10 DEF OrphanExits
<1>11. CASE RunFails BY <1>11 DEF RunFails, Finish
<1>12. CASE AgentExits BY <1>12 DEF AgentExits
<1>13. CASE Summarise BY <1>13 DEF Summarise
<1>14. CASE WritePatch BY <1>14 DEF WritePatch, ExportInv, Exporting
<1>15. CASE ImportBranch BY <1>15 DEF ImportBranch
<1>16. CASE ExportFails BY <1>16 DEF ExportFails, Finish
<1>17. CASE Deliver BY <1>17 DEF Deliver, Finish
<1>18. CASE Killed BY <1>18 DEF Killed, Forget
<1>19. ASSUME NEW c \in OtherCommits, Commit(c) PROVE NewInv' BY <1>19 DEF Commit
<1>20. CASE Merge BY <1>20 DEF Merge
<1>21. CASE Switch BY <1>21 DEF Switch, TypeOK
<1>22. CASE UNCHANGED vars BY <1>22 DEF vars
<1> QED
  BY <1>1, <1>2, <1>3, <1>4, <1>5, <1>6, <1>7, <1>8, <1>9, <1>10, <1>11, <1>12,
     <1>13, <1>14, <1>15, <1>16, <1>17, <1>18, <1>19, <1>20, <1>21, <1>22 DEF Next, Agents

(* As long as nobody has taken the repository back to an older commit, the *)
(* patch of a branch holds commits of the task's agents and what they took *)
(* from the repository only.                                               *)
THEOREM PatchIsNew == Spec => []OnlyNewCommits
<1>1. Init => NewInv BY DEF Init, NewInv, OnlyNewCommits, Working, Sent
<1>2. Spec => [](TypeOK /\ ExportInv /\ NewInv)
  BY <1>1, CodeInitType, CodeStepType, InitExportInv, StepExportInv, StepNewInv, PTL DEF Spec
<1>3. NewInv => OnlyNewCommits BY DEF NewInv, OnlyNewCommits
<1> QED BY <1>2, <1>3, PTL
=============================================================================
