-------------------------- MODULE ImageStoreProofs --------------------------
(***************************************************************************)
(* Proofs about ImageStore, for any number of references, spellings,       *)
(* versions, layers, sessions and kills.                                   *)
(***************************************************************************)
EXTENDS ImageStore, TLAPS

-----------------------------------------------------------------------------
(***************************************************************************)
(* The inductive invariant, in three parts.                                *)
(***************************************************************************)
Busy(s) == pc[s] # "idle"

\* The program points at which a session knows a reference, as it was spelled, and
\* a version.
OfRef == {"create"} \cup RemovePCs \cup PublishPCs
OfVersion == {"fetch_manifest"} \cup PublishPCs

Named(s) ==
  /\ pc[s] \in OfRef => job[s].w \in Spellings /\ Target(s) \in Refs
  /\ pc[s] \in OfVersion => job[s].v \in Versions

\* A staging directory exists, and has been verified when it is about to be
\* renamed.
Staging == {"verify", "rename", "fetch_layers", "get_blobs"}

Staged(s) ==
  /\ pc[s] \in Staging => job[s].dir.there
  /\ pc[s] = "rename" => Verifies(job[s].dir)

\* An image directory holds nothing but what belongs to a version of its
\* reference, whatever it may have lost.
Sound(r) ==
  LET dir == images[r] IN
  /\ dir.bad = {}
  /\ ~dir.there => IsEmpty(dir)
  /\ dir.manifest # NoVersion => RefOf[dir.manifest] = r /\ dir.files \subseteq LayersOf[dir.manifest]

StoreInv == (\A r \in Refs : Sound(r)) /\ (\A s \in Sessions : Named(s) /\ Staged(s))

\* One command at a time: what is removed is spelled as in no container, and what
\* is being created finds its image whole.
Keeps(s) ==
  /\ pc[s] \in RemovePCs => job[s].w \notin used
  /\ pc[s] = "create" => Visible(images[Target(s)], Target(s))

SerialInv ==
  serial =>
    /\ \A s, t \in Sessions : Busy(s) /\ Busy(t) => s = t
    /\ \A s \in Sessions : Keeps(s)

\* ... and what the index names is in the registry, but for the file that is
\* being written.
Writing(v) == \E s \in Sessions : pc[s] = "write_manifest" /\ job[s].v = v
Copying(l) == \E s \in Sessions : pc[s] = "write_layer" /\ l \in job[s].copying

Indexed(w) ==
  index[w] # NoVersion =>
    /\ RefOf[index[w]] = Parse[w]
    /\ manifests[index[w]] = index[w] \/ Writing(index[w])
    /\ \A l \in LayersOf[index[w]] : blobs[l] = "whole" \/ Copying(l)

Publishing(s) ==
  LET r == Target(s)  v == job[s].v IN
  /\ pc[s] \in PublishPCs =>
       Visible(images[r], r) /\ images[r].manifest = v /\ job[s].todo \subseteq LayersOf[v]
  /\ pc[s] \in {"open_manifest", "write_manifest"} => job[s].todo = LayersOf[v]
  /\ pc[s] = "write_manifest" => job[s].read = v
  /\ pc[s] \in PublishPCs \ {"open_manifest", "write_manifest"} =>
       /\ manifests[v] = v
       /\ \A l \in LayersOf[v] \ job[s].todo : blobs[l] = "whole" \/ Copying(l)
  /\ pc[s] \in {"load_index", "save_index"} => job[s].todo = {}
  /\ pc[s] = "save_index" => job[s].index = index

PublishInv ==
  serial /\ kills = 0 => (\A w \in Spellings : Indexed(w)) /\ (\A s \in Sessions : Publishing(s))

WholeInv == TypeOK /\ StoreInv /\ SerialInv /\ PublishInv

-----------------------------------------------------------------------------
(***************************************************************************)
(* What a step takes to keep each part.                                    *)
(***************************************************************************)
LEMMA Moved ==
  ASSUME TypeOK, NEW s \in Sessions, NEW label \in PCs, NEW j \in Job, Goto(s, label), Hold(s, j)
  PROVE  /\ pc' \in [Sessions -> PCs] /\ job' \in [Sessions -> Job]
         /\ pc'[s] = label /\ job'[s] = j
         /\ \A t \in Sessions \ {s} : pc'[t] = pc[t] /\ job'[t] = job[t]
BY DEF TypeOK, Goto, Hold

LEMMA Stayed ==
  ASSUME TypeOK, NEW s \in Sessions
  PROVE  /\ pc[s] \in PCs /\ job[s] \in Job
         /\ UNCHANGED pc => Goto(s, pc[s])
         /\ UNCHANGED job => Hold(s, job[s])
BY DEF TypeOK, Goto, Hold

LEMMA EmptyJob == NoJob \in Job
BY DEF NoJob, Job, NoDir, Dir, NoIndex, Manifest

\* A step that leaves the images alone.
LEMMA StoreStep ==
  ASSUME TypeOK, StoreInv, NEW s \in Sessions, NEW label \in PCs, NEW j \in Job, Goto(s, label), Hold(s, j),
         label \in OfRef => j.w \in Spellings,
         label \in OfVersion => j.v \in Versions,
         label \in Staging => j.dir.there,
         label = "rename" => Verifies(j.dir),
         UNCHANGED <<images, serial>>, used' \subseteq Spellings, kills' \in Nat,
         manifests' \in [Versions -> Manifest], blobs' \in [Layers -> {"none", "torn", "whole"}],
         index' \in [Spellings -> Manifest]
  PROVE  TypeOK' /\ StoreInv'
<1>1. /\ pc' \in [Sessions -> PCs] /\ job' \in [Sessions -> Job]
      /\ pc'[s] = label /\ job'[s] = j
      /\ \A t \in Sessions \ {s} : pc'[t] = pc[t] /\ job'[t] = job[t]
  BY Moved
<1>2. \A t \in Sessions : Named(t)' /\ Staged(t)'
  BY <1>1, ConstantsAssumption DEF StoreInv, Named, Staged, Target
<1>3. \A t \in Sessions : pc'[t] = "rename" => Verifies(job'[t].dir)
  BY <1>2 DEF Staged
<1>4. \A r \in Refs : Sound(r)'
  BY DEF StoreInv, Sound
<1> QED
  BY <1>1, <1>2, <1>3, <1>4 DEF TypeOK, StoreInv

\* A step of the only command, or of one that begins when there is none.
LEMMA SerialStep ==
  ASSUME TypeOK, SerialInv, NEW s \in Sessions, MayBegin(s) \/ Busy(s), UNCHANGED serial,
         \A t \in Sessions \ {s} : pc[t] = "idle" => pc'[t] = "idle",
         serial => Keeps(s)'
  PROVE  SerialInv'
<1> SUFFICES ASSUME serial PROVE SerialInv'
  BY DEF SerialInv
<1>1. \A t \in Sessions \ {s} : pc'[t] = "idle"
  BY DEF SerialInv, MayBegin, Quiet, Busy
<1>2. \A t \in Sessions \ {s} : Keeps(t)'
  BY <1>1 DEF Keeps, RemovePCs
<1> QED
  BY <1>1, <1>2 DEF SerialInv, Busy

LEMMA PublishStep ==
  ASSUME TypeOK, SerialInv, NEW s \in Sessions, MayBegin(s) \/ Busy(s), UNCHANGED serial,
         \A t \in Sessions \ {s} : pc[t] = "idle" => pc'[t] = "idle",
         serial /\ kills' = 0 => (\A w \in Spellings : Indexed(w)') /\ Publishing(s)'
  PROVE  PublishInv'
<1> SUFFICES ASSUME serial, kills' = 0 PROVE PublishInv'
  BY DEF PublishInv
<1>1. \A t \in Sessions \ {s} : pc'[t] = "idle"
  BY DEF SerialInv, MayBegin, Quiet, Busy
<1>2. \A t \in Sessions \ {s} : Publishing(t)'
  BY <1>1 DEF Publishing, PublishPCs
<1> QED
  BY <1>2 DEF PublishInv

\* A step that is not a publish's.
LEMMA PublishQuiet ==
  ASSUME TypeOK, SerialInv, PublishInv, NEW s \in Sessions, MayBegin(s) \/ Busy(s),
         UNCHANGED <<registry, serial>>, kills' # 0 \/ kills' = kills,
         \A t \in Sessions \ {s} : pc[t] = "idle" => pc'[t] = "idle",
         pc[s] \notin PublishPCs, pc'[s] \notin PublishPCs
  PROVE  PublishInv'
<1> SUFFICES ASSUME serial, kills' = 0, kills = 0 PROVE (\A w \in Spellings : Indexed(w)') /\ Publishing(s)'
  BY PublishStep
<1>1. \A t \in Sessions : pc[t] \notin PublishPCs
  BY DEF SerialInv, MayBegin, Quiet, Busy, PublishPCs
<1>2. \A v : ~Writing(v)
  BY <1>1 DEF Writing, PublishPCs
<1>3. \A l : ~Copying(l)
  BY <1>1 DEF Copying, PublishPCs
<1>4. \A w \in Spellings : Indexed(w)'
  BY <1>2, <1>3 DEF PublishInv, Indexed, registry
<1>5. Publishing(s)'
  BY DEF Publishing, PublishPCs
<1> QED
  BY <1>4, <1>5

\* A command that ends, or is killed.
LEMMA Ended ==
  ASSUME TypeOK, NEW s \in Sessions, End(s)
  PROVE  /\ pc'[s] = "idle" /\ \A t \in Sessions \ {s} : pc'[t] = pc[t]
         /\ Keeps(s)' /\ Publishing(s)'
<1>1. pc'[s] = "idle" /\ \A t \in Sessions \ {s} : pc'[t] = pc[t]
  BY EmptyJob, Moved DEF End, PCs
<1> QED
  BY <1>1 DEF Keeps, Publishing, RemovePCs, PublishPCs

\* A step that changes nothing but its own session, and is not a publish's.
LEMMA OwnStep ==
  ASSUME WholeInv, NEW s \in Sessions, MayBegin(s) \/ Busy(s), pc[s] \notin PublishPCs,
         NEW label \in PCs \ PublishPCs, NEW j \in Job, Goto(s, label), Hold(s, j),
         label \in OfRef => j.w \in Spellings,
         label = "fetch_manifest" => j.v \in Versions,
         label \in Staging => j.dir.there,
         label = "rename" => Verifies(j.dir),
         serial => /\ label \in RemovePCs => j.w \notin used
                   /\ label = "create" => Visible(images[Parse[j.w]], Parse[j.w]),
         UNCHANGED <<store, registry, serial, kills>>
  PROVE  WholeInv'
<1> USE DEF store, registry
<1>1. /\ pc'[s] = label /\ job'[s] = j
      /\ \A t \in Sessions \ {s} : pc'[t] = pc[t]
  BY Moved DEF WholeInv
<1>2. TypeOK' /\ StoreInv'
  <2>1. /\ used' \subseteq Spellings /\ kills' \in Nat /\ index' \in [Spellings -> Manifest]
        /\ manifests' \in [Versions -> Manifest] /\ blobs' \in [Layers -> {"none", "torn", "whole"}]
    BY DEF WholeInv, TypeOK
  <2> QED
    BY <2>1, StoreStep DEF WholeInv, OfVersion
<1>3. SerialInv'
  <2>1. serial => Keeps(s)'
    BY <1>1 DEF Keeps, Target
  <2> QED
    BY <1>1, <2>1, SerialStep DEF WholeInv
<1>4. PublishInv'
  BY <1>1, PublishQuiet DEF WholeInv
<1> QED
  BY <1>2, <1>3, <1>4 DEF WholeInv

\* A command that is not a publish returns.
LEMMA OwnEnd ==
  ASSUME WholeInv, NEW s \in Sessions, Busy(s), pc[s] \notin PublishPCs, End(s),
         UNCHANGED <<store, registry, serial, kills>>
  PROVE  WholeInv'
BY EmptyJob, OwnStep DEF End, PCs, OfRef, Staging, RemovePCs, PublishPCs

-----------------------------------------------------------------------------
(***************************************************************************)
(* import, pull.                                                           *)
(***************************************************************************)
LEMMA BundleTypes == \A bundle \in Bundles : bundle \in Dir /\ bundle.there
<1> DEFINE Missing(v) == {[Whole(v) EXCEPT !.files = @ \ {l}] : l \in LayersOf[v]}
           Damaged(v) == {[Whole(v) EXCEPT !.bad = {l}] : l \in LayersOf[v]}
           Of(v) == {Whole(v)} \cup Missing(v) \cup Damaged(v)
<1> SUFFICES ASSUME NEW v \in Versions PROVE \A bundle \in Of(v) : bundle \in Dir /\ bundle.there
  <2>1. Bundles = UNION {Of(v) : v \in Versions}
    BY DEF Bundles
  <2> HIDE DEF Of
  <2> QED
    BY <2>1
<1>1. LayersOf[v] \subseteq Layers
  BY ConstantsAssumption
<1>2. Whole(v) \in Dir /\ Whole(v).there
  BY <1>1 DEF Whole, Dir, Manifest
<1>3. \A bundle \in Missing(v) : bundle \in Dir /\ bundle.there
  BY <1>2 DEF Dir
<1>4. \A bundle \in Damaged(v) : bundle \in Dir /\ bundle.there
  BY <1>1, <1>2 DEF Dir
<1> HIDE DEF Missing, Damaged
<1> QED
  BY <1>2, <1>3, <1>4

LEMMA VerifiedManifest ==
  ASSUME NEW dir \in Dir, Verifies(dir)
  PROVE  dir.manifest \in Versions /\ RefOf[dir.manifest] \in Refs
BY ConstantsAssumption DEF Verifies, Dir, Manifest

LEMMA ImportKeeps ==
  ASSUME WholeInv, NEW s \in Sessions, Verify(s) \/ \E bundle \in Bundles : Import(s, bundle)
  PROVE  WholeInv'
<1> USE DEF PCs, OfRef, Staging, ImportPCs, PullPCs, RemovePCs, PublishPCs, Busy
<1>1. ASSUME NEW bundle \in Bundles, Import(s, bundle) PROVE WholeInv'
  <2> DEFINE j == [NoJob EXCEPT !.dir = bundle]
  <2>1. j \in Job /\ j.dir.there
    BY EmptyJob, BundleTypes DEF Job, NoJob
  <2> QED
    BY <1>1, <2>1, OwnStep DEF Import, MayBegin
<1>2. CASE Verify(s)
  <2>1. pc[s] = "verify" /\ job[s] \in Job /\ job[s].dir.there
    BY <1>2, Stayed DEF Verify, WholeInv, StoreInv, Staged
  <2>2. CASE End(s)
    BY <1>2, <2>1, <2>2, OwnEnd DEF Verify
  <2>3. CASE Verifies(job[s].dir) /\ Goto(s, "rename") /\ UNCHANGED job
    <3>1. Hold(s, job[s])
      BY <2>3, Stayed DEF WholeInv
    <3> QED
      BY <1>2, <2>1, <2>3, <3>1, OwnStep DEF Verify
  <2> QED
    BY <1>2, <2>2, <2>3 DEF Verify
<1> QED
  BY <1>1, <1>2

LEMMA PullKeeps ==
  ASSUME WholeInv, NEW s \in Sessions, pull(s)
  PROVE  WholeInv'
<1> USE DEF PCs, OfRef, Staging, ImportPCs, PullPCs, RemovePCs, PublishPCs, Busy
<1>1. TypeOK /\ job[s] \in Job /\ job[s].dir \in Dir /\ job[s].todo \subseteq Layers
  BY Stayed DEF WholeInv, Job
<1>2. pc[s] \in {"fetch_layers", "get_blobs"} => job[s].dir.there
  BY DEF WholeInv, StoreInv, Staged
<1>3. \A v \in Versions : LayersOf[v] \subseteq Layers /\ Whole(v) \in Dir /\ Whole(v).there
  BY ConstantsAssumption DEF Whole, Dir, Manifest
<1>4. ASSUME NEW w \in Spellings, Pull(s, w) PROVE WholeInv'
  <2> DEFINE j == [NoJob EXCEPT !.v = index[w]]
  <2>1. index[w] \in Versions
    BY <1>1, <1>4 DEF Pull, TypeOK, Manifest
  <2>2. j \in Job /\ j.v \in Versions
    BY <2>1, EmptyJob DEF Job, NoJob, Manifest
  <2> QED
    BY <1>4, <2>2, OwnStep DEF Pull, MayBegin
<1>5. CASE FetchManifest(s)
  <2> DEFINE v == job[s].v
             dir == [Whole(v) EXCEPT !.manifest = manifests[v], !.files = {}]
             j == [job[s] EXCEPT !.dir = dir, !.todo = LayersOf[v]]
  <2>1. v \in Versions
    BY <1>5 DEF FetchManifest, WholeInv, StoreInv, Named, OfVersion
  <2>2. dir \in Dir /\ dir.there
    BY <1>1, <1>3, <2>1 DEF Dir, TypeOK
  <2>3. j \in Job /\ j.dir = dir
    BY <1>1, <1>3, <2>1, <2>2 DEF Job
  <2> QED
    BY <1>5, <2>2, <2>3, OwnStep DEF FetchManifest
<1>6. ASSUME NEW l \in Layers, FetchLayer(s, l) PROVE WholeInv'
  <2> DEFINE j == [job[s] EXCEPT !.todo = @ \ {l}, !.dir.files = @ \cup {l},
                                 !.dir.bad = IF blobs[l] = "torn" THEN @ \cup {l} ELSE @]
  <2>1. CASE End(s)
    BY <1>6, <2>1, OwnEnd DEF FetchLayer
  <2>2. CASE Hold(s, j) /\ UNCHANGED pc
    <3>1. j \in Job /\ j.dir.there = job[s].dir.there
      BY <1>1 DEF Job, Dir
    <3>2. Goto(s, "fetch_layers")
      BY <1>1, <1>6, <2>2, Stayed DEF FetchLayer
    <3> QED
      BY <1>2, <1>6, <2>2, <3>1, <3>2, OwnStep DEF FetchLayer
  <2> QED
    BY <1>6, <2>1, <2>2 DEF FetchLayer
<1>7. ASSUME NEW v \in Versions, PullRemote(s, v) PROVE WholeInv'
  <2> DEFINE j == [NoJob EXCEPT !.dir = [Whole(v) EXCEPT !.files = {}], !.todo = LayersOf[v]]
  <2>1. [Whole(v) EXCEPT !.files = {}] \in Dir /\ [Whole(v) EXCEPT !.files = {}].there
    BY <1>3 DEF Dir
  <2>2. j \in Job /\ j.dir.there
    BY <1>3, <2>1, EmptyJob DEF Job, NoJob
  <2> QED
    BY <1>7, <2>2, OwnStep DEF PullRemote, MayBegin
<1>8. ASSUME NEW l \in Layers, GetBlob(s, l) PROVE WholeInv'
  <2> DEFINE j == [job[s] EXCEPT !.todo = @ \ {l}, !.dir.files = @ \cup {l}]
  <2>1. CASE End(s)
    BY <1>8, <2>1, OwnEnd DEF GetBlob
  <2>2. CASE Hold(s, j) /\ UNCHANGED pc
    <3>1. j \in Job /\ j.dir.there = job[s].dir.there
      BY <1>1 DEF Job, Dir
    <3>2. Goto(s, "get_blobs")
      BY <1>1, <1>8, <2>2, Stayed DEF GetBlob
    <3> QED
      BY <1>2, <1>8, <2>2, <3>1, <3>2, OwnStep DEF GetBlob
  <2> QED
    BY <1>8, <2>1, <2>2 DEF GetBlob
<1>9. CASE Fetched(s)
  BY <1>1, <1>2, <1>9, Stayed, OwnStep DEF Fetched
<1> QED
  BY <1>4, <1>5, <1>6, <1>7, <1>8, <1>9 DEF pull

-----------------------------------------------------------------------------
(***************************************************************************)
(* The steps that change an image's directory.                             *)
(***************************************************************************)
\* A step that changes the directory of one image, and lets another session
\* find nothing more in it.
LEMMA ImageStep ==
  ASSUME WholeInv, NEW s \in Sessions, pc[s] \in {"rename"} \cup RemovePCs,
         NEW r \in Refs, NEW dir \in Dir, images' \in {images, [images EXCEPT ![r] = dir]},
         dir.bad = {}, ~dir.there => IsEmpty(dir),
         dir.manifest # NoVersion => RefOf[dir.manifest] = r /\ dir.files \subseteq LayersOf[dir.manifest],
         pc'[s] \in {"idle", pc[s]}, job' \in [Sessions -> Job], pc' \in [Sessions -> PCs],
         pc'[s] # "idle" => job'[s] = job[s],
         \A t \in Sessions \ {s} :
           job'[t] = job[t] /\ (pc'[t] = pc[t] \/ (pc[t] = "rm" /\ pc'[t] = "rmdir")),
         UNCHANGED <<used, registry, serial, kills>>
  PROVE  WholeInv'
<1> USE DEF OfRef, OfVersion, Staging, RemovePCs, PublishPCs, registry
<1>1. \A t \in Sessions : Named(t)' /\ Staged(t)'
  <2> SUFFICES ASSUME NEW t \in Sessions PROVE Named(t)' /\ Staged(t)'
    OBVIOUS
  <2>1. Named(t) /\ Staged(t)
    BY DEF WholeInv, StoreInv
  <2>2. CASE t = s
    BY <2>1, <2>2 DEF Named, Staged, Target
  <2>3. CASE t # s
    BY <2>1, <2>3 DEF Named, Staged, Target
  <2> QED
    BY <2>2, <2>3
<1>2. \A q \in Refs : Sound(q)'
  BY DEF WholeInv, StoreInv, Sound, TypeOK
<1>3. TypeOK'
  BY <1>1 DEF WholeInv, TypeOK, Staged, Visible
<1>4. SerialInv'
  <2>1. serial => Keeps(s)'
    <3>1. serial => Keeps(s)
      BY DEF WholeInv, SerialInv
    <3>2. CASE pc'[s] = "idle"
      BY <3>2 DEF Keeps
    <3>3. CASE pc'[s] = pc[s] /\ job'[s] = job[s]
      BY <3>1, <3>3 DEF Keeps, RemovePCs
    <3> QED
      BY <3>2, <3>3
  <2> QED
    BY <2>1, SerialStep DEF WholeInv, Busy
<1>5. PublishInv'
  BY PublishQuiet DEF WholeInv, Busy
<1> QED
  BY <1>1, <1>2, <1>3, <1>4, <1>5 DEF WholeInv, StoreInv

\* What Orphaned does to the program counters.
LEMMA Orphans ==
  ASSUME TypeOK, NEW s \in Sessions, NEW r, Orphaned(s, r, "idle"), Hold(s, NoJob)
  PROVE  /\ pc' \in [Sessions -> PCs] /\ job' \in [Sessions -> Job] /\ pc'[s] = "idle"
         /\ \A t \in Sessions \ {s} :
              job'[t] = job[t] /\ (pc'[t] = pc[t] \/ (pc[t] = "rm" /\ pc'[t] = "rmdir"))
BY EmptyJob DEF TypeOK, Orphaned, Hold, PCs, RemovePCs

LEMMA RenameKeeps ==
  ASSUME WholeInv, NEW s \in Sessions, Rename(s)
  PROVE  WholeInv'
<1> DEFINE dir == job[s].dir
           r == RefOf[dir.manifest]
<1>1. pc[s] = "rename" /\ TypeOK
  BY DEF Rename, WholeInv
<1>2. r \in Refs /\ dir \in Dir /\ Visible(dir, r)
  <2>1. dir \in Dir /\ dir.there /\ Verifies(dir)
    BY <1>1, Stayed DEF WholeInv, StoreInv, Staged, Staging, Job
  <2> QED
    BY <2>1, VerifiedManifest DEF Visible
<1>3. CASE IsEmpty(images[r])
  <2>1. images' = [images EXCEPT ![r] = dir] /\ Orphaned(s, r, "idle") /\ Hold(s, NoJob)
    BY <1>3 DEF Rename
  <2>2. /\ dir.bad = {} /\ dir.there /\ RefOf[dir.manifest] = r
        /\ dir.files \subseteq LayersOf[dir.manifest]
    BY <1>2 DEF Visible, Verifies
  <2> QED
    BY <1>1, <1>2, <2>1, <2>2, Orphans, ImageStep DEF Rename
<1>4. CASE ~IsEmpty(images[r])
  BY <1>1, <1>4, OwnEnd DEF Rename, End, Busy, PublishPCs, store
<1> QED
  BY <1>3, <1>4

LEMMA RemoveKeeps ==
  ASSUME WholeInv, NEW s \in Sessions, remove_image(s)
  PROVE  WholeInv'
<1> USE DEF PCs, OfRef, Staging, RemovePCs, PublishPCs, Busy
<1>1. TypeOK /\ job[s] \in Job /\ (pc[s] \in RemovePCs => job[s].w \in Spellings /\ Target(s) \in Refs)
  BY Stayed DEF WholeInv, StoreInv, Named
<1>2. \A r \in Refs : /\ images[r] \in Dir /\ images[r].bad = {}
                      /\ ~images[r].there => IsEmpty(images[r])
                      /\ images[r].manifest # NoVersion =>
                           /\ RefOf[images[r].manifest] = r
                           /\ images[r].files \subseteq LayersOf[images[r].manifest]
  BY <1>1 DEF TypeOK, WholeInv, StoreInv, Sound
<1>3. pc[s] \in RemovePCs /\ serial => job[s].w \notin used
  BY DEF WholeInv, SerialInv, Keeps
<1>4. ASSUME NEW w \in Spellings, RemoveImage(s, w) PROVE WholeInv'
  <2> DEFINE j == [NoJob EXCEPT !.w = w]
  <2>1. j \in Job /\ j.w = w
    BY EmptyJob DEF Job, NoJob
  <2> QED
    BY <1>4, <2>1, OwnStep DEF RemoveImage, MayBegin
<1>5. CASE IsDir(s) \/ OpenDir(s)
  <2>1. pc[s] \in {"is_dir", "open_dir"} /\ UNCHANGED <<store, registry, serial, kills>>
    BY <1>5 DEF IsDir, OpenDir
  <2>2. CASE End(s)
    BY <2>1, <2>2, OwnEnd
  <2>3. ASSUME NEW label \in {"open_dir", "rm"}, Goto(s, label), UNCHANGED job PROVE WholeInv'
    <3>1. Hold(s, job[s])
      BY <1>1, <2>3, Stayed
    <3> QED
      BY <1>1, <1>3, <2>1, <2>3, <3>1, OwnStep
  <2> QED
    BY <1>5, <2>2, <2>3 DEF IsDir, OpenDir
<1>6. CASE RemoveFile(s)
  <2> DEFINE r == Target(s)
  <2>1. pc[s] = "rm" /\ r \in Refs /\ pc \in [Sessions -> PCs] /\ job \in [Sessions -> Job]
    BY <1>1, <1>6 DEF RemoveFile, TypeOK
  <2>2. PICK dir \in Dir :
          /\ images' = [images EXCEPT ![r] = dir]
          /\ dir.bad = {} /\ (~dir.there => IsEmpty(dir))
          /\ dir.manifest # NoVersion => RefOf[dir.manifest] = r /\ dir.files \subseteq LayersOf[dir.manifest]
    <3>1. CASE /\ images[r].manifest # NoVersion
               /\ images' = [images EXCEPT ![r].manifest = NoVersion]
      <4> DEFINE dir == [images[r] EXCEPT !.manifest = NoVersion]
      <4>1. dir \in Dir /\ dir.bad = {} /\ dir.there /\ dir.manifest = NoVersion
        BY <1>2, <2>1, <3>1 DEF Dir, Manifest, IsEmpty
      <4> QED
        BY <3>1, <4>1
    <3>2. ASSUME NEW l \in images[r].files, images' = [images EXCEPT ![r].files = @ \ {l}]
          PROVE  \E dir \in Dir :
                   /\ images' = [images EXCEPT ![r] = dir]
                   /\ dir.bad = {} /\ (~dir.there => IsEmpty(dir))
                   /\ dir.manifest # NoVersion => RefOf[dir.manifest] = r /\ dir.files \subseteq LayersOf[dir.manifest]
      <4> DEFINE dir == [images[r] EXCEPT !.files = @ \ {l}]
      <4>1. /\ dir \in Dir /\ dir.bad = {} /\ dir.there /\ dir.manifest = images[r].manifest
            /\ dir.files = images[r].files \ {l}
        BY <1>2, <2>1 DEF Dir, IsEmpty
      <4>2. dir.manifest # NoVersion => RefOf[dir.manifest] = r /\ dir.files \subseteq LayersOf[dir.manifest]
        BY <1>2, <2>1, <4>1
      <4>3. images' = [images EXCEPT ![r] = dir]
        BY <3>2
      <4> HIDE DEF dir
      <4> QED
        BY <4>1, <4>2, <4>3
    <3> QED
      BY <1>6, <3>1, <3>2 DEF RemoveFile
  <2>3. pc' = pc /\ job' = job /\ UNCHANGED <<used, registry, serial, kills>>
    BY <1>6 DEF RemoveFile
  <2> QED
    BY <1>3, <2>1, <2>2, <2>3, ImageStep
<1>7. CASE FilesRemoved(s)
  BY <1>1, <1>3, <1>7, Stayed, OwnStep DEF FilesRemoved
<1>8. CASE RemoveDir(s)
  <2> DEFINE r == Target(s)
  <2>1. CASE IsEmpty(images[r])
    <3>1. /\ images' = [images EXCEPT ![r] = NoDir] /\ Orphaned(s, r, "idle") /\ Hold(s, NoJob)
          /\ pc[s] = "rmdir" /\ UNCHANGED <<used, registry, serial, kills>>
      BY <1>8, <2>1 DEF RemoveDir
    <3>2. NoDir \in Dir /\ NoDir.bad = {} /\ IsEmpty(NoDir) /\ NoDir.manifest = NoVersion
      BY DEF NoDir, Dir, Manifest, IsEmpty
    <3> QED
      BY <1>1, <1>3, <3>1, <3>2, Orphans, ImageStep
  <2>2. CASE ~IsEmpty(images[r])
    BY <1>1, <1>8, <2>2, OwnEnd DEF RemoveDir, End, store
  <2> QED
    BY <2>1, <2>2
<1> QED
  BY <1>4, <1>5, <1>6, <1>7, <1>8 DEF remove_image

-----------------------------------------------------------------------------
(***************************************************************************)
(* create, destroy.                                                        *)
(***************************************************************************)
\* A step of create or destroy that changes the containers.
LEMMA UsedStep ==
  ASSUME WholeInv, NEW s \in Sessions, MayBegin(s) \/ Busy(s), pc[s] \notin PublishPCs,
         NEW label \in {"idle", "create"}, NEW j \in Job, Goto(s, label), Hold(s, j),
         label = "create" => pc[s] = "create" /\ j = job[s],
         used' \subseteq Spellings,
         UNCHANGED <<images, registry, serial, kills>>
  PROVE  WholeInv'
<1> USE DEF registry
<1>1. /\ pc'[s] = label /\ job'[s] = j /\ label \in PCs
      /\ \A t \in Sessions \ {s} : pc'[t] = pc[t]
  BY Moved DEF WholeInv, PCs
<1>2. TypeOK' /\ StoreInv'
  <2>1. /\ kills' \in Nat /\ index' \in [Spellings -> Manifest]
        /\ manifests' \in [Versions -> Manifest] /\ blobs' \in [Layers -> {"none", "torn", "whole"}]
    BY DEF WholeInv, TypeOK
  <2>2. label = "create" => j.w \in Spellings
    BY DEF WholeInv, StoreInv, Named, OfRef
  <2> QED
    BY <1>1, <2>1, <2>2, StoreStep DEF WholeInv, OfVersion, OfRef, Staging, RemovePCs, PublishPCs
<1>3. SerialInv'
  <2>1. serial => Keeps(s)'
    BY <1>1 DEF Keeps, Target, RemovePCs, WholeInv, SerialInv
  <2> QED
    BY <1>1, <2>1, SerialStep DEF WholeInv
<1>4. PublishInv'
  BY <1>1, PublishQuiet DEF WholeInv, PublishPCs
<1> QED
  BY <1>2, <1>3, <1>4 DEF WholeInv

LEMMA ContainersKeep ==
  ASSUME WholeInv, NEW s \in Sessions, containers(s)
  PROVE  WholeInv'
<1> USE DEF PCs, OfRef, Staging, RemovePCs, PublishPCs, Busy
<1>1. TypeOK /\ job[s] \in Job
  BY Stayed DEF WholeInv
<1>2. ASSUME NEW w \in Spellings, CreateGet(s, w) PROVE WholeInv'
  <2> DEFINE j == [NoJob EXCEPT !.w = w]
  <2>1. j \in Job /\ j.w = w
    BY EmptyJob DEF Job, NoJob
  <2>2. Visible(images[Parse[w]], Parse[w])
    BY <1>2, ConstantsAssumption DEF CreateGet, Loads, Visible, Verifies, WholeInv, StoreInv, Sound
  <2> QED
    BY <1>2, <2>1, <2>2, OwnStep DEF CreateGet, MayBegin
<1>3. ASSUME NEW w \in Spellings, Destroy(s, w) PROVE WholeInv'
  <2>1. Goto(s, "idle") /\ Hold(s, job[s])
    BY <1>1, <1>3, Stayed DEF Destroy, MayBegin
  <2>2. used' \subseteq Spellings
    BY <1>3 DEF Destroy, WholeInv, TypeOK
  <2> QED
    BY <1>1, <1>3, <2>1, <2>2, UsedStep DEF Destroy, MayBegin
<1>4. CASE CreateSave(s)
  <2>1. pc[s] = "create" /\ job[s].w \in Spellings
    BY <1>4 DEF CreateSave, WholeInv, StoreInv, Named
  <2>2. used' \subseteq Spellings
    BY <1>4, <2>1 DEF CreateSave, WholeInv, TypeOK
  <2> QED
    BY <1>4, <2>1, <2>2, EmptyJob, UsedStep DEF CreateSave, End
<1> QED
  BY <1>2, <1>3, <1>4 DEF containers

-----------------------------------------------------------------------------
(***************************************************************************)
(* publish.                                                                *)
(***************************************************************************)
\* A step of publish: what is left to show is what it does to the registry.
LEMMA RegistryStep ==
  ASSUME WholeInv, NEW s \in Sessions, MayBegin(s) \/ Busy(s),
         NEW label \in {"idle"} \cup PublishPCs, NEW j \in Job, Goto(s, label), Hold(s, j),
         label # "idle" => j.w \in Spellings /\ j.v \in Versions,
         manifests' \in [Versions -> Manifest], blobs' \in [Layers -> {"none", "torn", "whole"}],
         index' \in [Spellings -> Manifest],
         UNCHANGED <<store, serial, kills>>,
         serial /\ kills = 0 => (\A w \in Spellings : Indexed(w)') /\ Publishing(s)'
  PROVE  WholeInv'
<1> USE DEF store
<1>1. /\ pc'[s] = label /\ job'[s] = j /\ label \in PCs
      /\ \A t \in Sessions \ {s} : pc'[t] = pc[t]
  BY Moved DEF WholeInv, PCs
<1>2. TypeOK' /\ StoreInv'
  <2>1. used' \subseteq Spellings /\ kills' \in Nat
    BY DEF WholeInv, TypeOK
  <2>2. label \notin Staging /\ label # "rename" /\ (label \in OfRef \cup OfVersion => label # "idle")
    BY DEF Staging, PublishPCs, OfRef, OfVersion, RemovePCs
  <2> QED
    BY <1>1, <2>1, <2>2, StoreStep DEF WholeInv
<1>3. SerialInv'
  <2>1. Keeps(s)'
    BY <1>1 DEF Keeps, RemovePCs, PublishPCs
  <2> QED
    BY <1>1, <2>1, SerialStep DEF WholeInv, SerialInv
<1>4. PublishInv'
  BY <1>1, PublishStep DEF WholeInv
<1> QED
  BY <1>2, <1>3, <1>4 DEF WholeInv

\* One command at a time, and none killed: what is being written belongs to this one.
LEMMA OnlyWriter ==
  ASSUME WholeInv, serial, NEW s \in Sessions, MayBegin(s) \/ Busy(s)
  PROVE  /\ \A v : Writing(v) <=> pc[s] = "write_manifest" /\ job[s].v = v
         /\ \A l : Copying(l) <=> pc[s] = "write_layer" /\ l \in job[s].copying
<1>1. \A t \in Sessions \ {s} : pc[t] = "idle"
  BY DEF WholeInv, SerialInv, MayBegin, Quiet, Busy
<1> QED
  BY <1>1 DEF Writing, Copying

\* ... and after its step, if it changes no other session.
LEMMA OnlyWriterNext ==
  ASSUME WholeInv, serial, NEW s \in Sessions, MayBegin(s) \/ Busy(s),
         NEW label \in PCs, NEW j \in Job, Goto(s, label), Hold(s, j)
  PROVE  /\ \A v : Writing(v)' <=> label = "write_manifest" /\ j.v = v
         /\ \A l : Copying(l)' <=> label = "write_layer" /\ l \in j.copying
<1>1. \A t \in Sessions \ {s} : pc[t] = "idle"
  BY DEF WholeInv, SerialInv, MayBegin, Quiet, Busy
<1>2. pc'[s] = label /\ job'[s] = j /\ \A t \in Sessions \ {s} : pc'[t] = "idle"
  BY <1>1, Moved DEF WholeInv
<1> QED
  BY <1>2 DEF Writing, Copying

LEMMA PublishKeeps ==
  ASSUME WholeInv, NEW s \in Sessions, publish(s)
  PROVE  WholeInv'
<1> USE DEF PublishPCs, Busy, registry
<1>1. TypeOK /\ job[s] \in Job /\ (pc[s] \in PublishPCs => job[s].w \in Spellings /\ Target(s) \in Refs /\ job[s].v \in Versions)
  BY Stayed DEF WholeInv, StoreInv, Named, OfRef, OfVersion
<1>2. /\ manifests \in [Versions -> Manifest] /\ blobs \in [Layers -> {"none", "torn", "whole"}]
      /\ index \in [Spellings -> Manifest] /\ job[s].todo \subseteq Layers /\ job[s].read \in Manifest
      /\ job[s].index \in [Spellings -> Manifest]
  BY <1>1 DEF TypeOK, Job
<1>3. serial /\ kills = 0 => Publishing(s) /\ \A w \in Spellings : Indexed(w)
  BY DEF WholeInv, PublishInv
<1>4. \A w \in Spellings : index[w] # NoVersion => index[w] \in Versions /\ LayersOf[index[w]] \subseteq Layers
  BY <1>2, ConstantsAssumption DEF Manifest
<1>5. \A v \in Versions : v # NoVersion /\ LayersOf[v] \subseteq Layers
  BY ConstantsAssumption
<1>6. ASSUME NEW w \in Spellings, Publish(s, w) PROVE WholeInv'
  <2> DEFINE r == Parse[w]
             v == images[r].manifest
             j == [NoJob EXCEPT !.w = w, !.v = v, !.todo = LayersOf[v]]
  <2>1. v \in Versions /\ Visible(images[r], r)
    BY <1>1, <1>6, ConstantsAssumption DEF Publish, Loads, Visible, Verifies, WholeInv, StoreInv, Sound, TypeOK, Dir, Manifest
  <2>2. j \in Job /\ j.w = w /\ j.v = v /\ j.todo = LayersOf[v]
    BY <1>5, <2>1, EmptyJob DEF Job, NoJob, Manifest
  <2>3. /\ Goto(s, "open_manifest") /\ Hold(s, j) /\ MayBegin(s)
        /\ UNCHANGED <<images, used, manifests, blobs, index, serial, kills>>
    BY <1>6 DEF Publish, store
  <2> HIDE DEF j
  <2>4. serial /\ kills = 0 => \A q \in Spellings : Indexed(q)'
    BY <1>3, <2>3, OnlyWriter DEF Indexed, MayBegin
  <2>5. Publishing(s)'
    BY <1>1, <2>1, <2>2, <2>3, Moved DEF Publishing, Target, PCs
  <2> QED
    BY <1>2, <2>1, <2>2, <2>3, <2>4, <2>5, RegistryStep DEF store
<1>7. CASE OpenManifest(s)
  <2> DEFINE r == Target(s)
             v == job[s].v
             j == [job[s] EXCEPT !.read = images[r].manifest]
  <2>1. /\ pc[s] = "open_manifest" /\ job[s].w \in Spellings /\ r \in Refs /\ v \in Versions /\ images[r].manifest \in Manifest
        /\ UNCHANGED <<images, used, blobs, index, serial, kills>>
    BY <1>1, <1>7 DEF OpenManifest, TypeOK, Dir, store
  <2>2. serial /\ kills = 0 => Visible(images[r], r) /\ images[r].manifest = v /\ job[s].todo = LayersOf[v]
    BY <1>3, <2>1 DEF Publishing, Target
  <2>3. CASE images[r].manifest = NoVersion
    <3>1. End(s) /\ UNCHANGED manifests
      BY <1>7, <2>3 DEF OpenManifest
    <3>2. ~(serial /\ kills = 0)
      BY <2>2, <2>3 DEF Visible, Verifies
    <3> QED
      BY <1>2, <2>1, <3>1, <3>2, EmptyJob, RegistryStep DEF End, store
  <2>4. CASE images[r].manifest # NoVersion
    <3>1. Goto(s, "write_manifest") /\ Hold(s, j) /\ manifests' = [manifests EXCEPT ![v] = NoVersion]
      BY <1>7, <2>4 DEF OpenManifest
    <3>2. /\ j \in Job /\ j.w = job[s].w /\ j.v = v /\ j.todo = job[s].todo /\ j.read = images[r].manifest
      BY <1>1, <2>1 DEF Job
    <3> HIDE DEF j
    <3>3. manifests' \in [Versions -> Manifest]
      BY <1>2, <3>1 DEF Manifest
    <3>4. serial /\ kills = 0 => \A q \in Spellings : Indexed(q)'
      <4> SUFFICES ASSUME serial, kills = 0, NEW q \in Spellings, index[q] # NoVersion PROVE Indexed(q)'
        BY <2>1 DEF Indexed
      <4>1. /\ RefOf[index[q]] = Parse[q] /\ manifests[index[q]] = index[q]
            /\ \A l \in LayersOf[index[q]] : blobs[l] = "whole"
        BY <1>3, <2>1, OnlyWriter DEF Indexed
      <4>2. \A u : u = v => Writing(u)'
        BY <2>1, <3>1, <3>2, OnlyWriterNext DEF PCs
      <4>3. manifests'[index[q]] = index[q] \/ index[q] = v
        BY <1>2, <1>4, <3>1, <4>1
      <4>4. index' = index /\ blobs' = blobs
        BY <2>1
      <4>5. manifests'[index[q]] = index[q] \/ Writing(index[q])'
        BY <4>2, <4>3, <4>4
      <4> QED
        BY <4>1, <4>4, <4>5 DEF Indexed
    <3>5. serial /\ kills = 0 => Publishing(s)'
      BY <1>1, <2>1, <2>2, <3>1, <3>2, Moved DEF Publishing, Target, PCs
    <3> QED
      BY <1>2, <2>1, <3>1, <3>2, <3>3, <3>4, <3>5, RegistryStep DEF store
  <2> QED
    BY <2>3, <2>4
<1>8. CASE WriteManifest(s)
  <2> DEFINE v == job[s].v
  <2>1. /\ pc[s] = "write_manifest" /\ v \in Versions /\ job[s].w \in Spellings
        /\ Goto(s, "open_layer") /\ Hold(s, job[s])
        /\ UNCHANGED <<images, used, blobs, index, serial, kills>>
        /\ manifests' = [manifests EXCEPT ![v] = job[s].read]
    BY <1>1, <1>8, Stayed DEF WriteManifest, store
  <2>2. manifests' \in [Versions -> Manifest]
    BY <1>2, <2>1
  <2>3. serial /\ kills = 0 => manifests'[v] = v /\ job[s].todo = LayersOf[v]
    BY <1>2, <1>3, <2>1 DEF Publishing, Target
  <2>4. serial /\ kills = 0 => \A q \in Spellings : Indexed(q)'
    <3> SUFFICES ASSUME serial, kills = 0, NEW q \in Spellings, index[q] # NoVersion PROVE Indexed(q)'
      BY <2>1 DEF Indexed
    <3>1. /\ RefOf[index[q]] = Parse[q] /\ (manifests[index[q]] = index[q] \/ index[q] = v)
          /\ \A l \in LayersOf[index[q]] : blobs[l] = "whole"
      BY <1>3, <2>1, OnlyWriter DEF Indexed
    <3>2. manifests'[index[q]] = index[q]
      BY <1>2, <1>4, <2>1, <2>3, <3>1
    <3> QED
      BY <2>1, <3>1, <3>2 DEF Indexed
  <2>5. serial /\ kills = 0 => Publishing(s)'
    <3>1. pc'[s] = "open_layer" /\ job'[s] = job[s]
      BY <1>1, <2>1, Moved DEF PCs
    <3> QED
      BY <1>3, <2>1, <2>3, <3>1 DEF Publishing, Target
  <2> QED
    BY <1>1, <1>2, <2>1, <2>2, <2>4, <2>5, RegistryStep DEF store
<1>9. ASSUME NEW l \in Layers, OpenLayer(s, l) PROVE WholeInv'
  <2> DEFINE r == Target(s)
             v == job[s].v
             j == [job[s] EXCEPT !.todo = @ \ {l}, !.copying = {l}]
  <2>1. /\ pc[s] = "open_layer" /\ l \in job[s].todo /\ job[s].w \in Spellings /\ r \in Refs /\ v \in Versions
        /\ UNCHANGED <<images, used, manifests, index, serial, kills>>
    BY <1>1, <1>9 DEF OpenLayer, store
  <2>2. serial /\ kills = 0 =>
          /\ Visible(images[r], r) /\ images[r].manifest = v /\ job[s].todo \subseteq LayersOf[v]
          /\ manifests[v] = v /\ \A k \in LayersOf[v] \ job[s].todo : blobs[k] = "whole"
    BY <1>3, <2>1, OnlyWriter DEF Publishing, Target
  <2>3. CASE l \notin images[r].files
    <3>1. End(s) /\ UNCHANGED blobs
      BY <1>9, <2>3 DEF OpenLayer
    <3>2. ~(serial /\ kills = 0)
      BY <2>1, <2>2, <2>3 DEF Visible, Verifies
    <3> QED
      BY <1>2, <2>1, <3>1, <3>2, EmptyJob, RegistryStep DEF End, store
  <2>4. CASE l \in images[r].files
    <3>1. Goto(s, "write_layer") /\ Hold(s, j) /\ blobs' = [blobs EXCEPT ![l] = "torn"]
      BY <1>9, <2>4 DEF OpenLayer
    <3>2. j \in Job /\ j.w = job[s].w /\ j.v = v /\ j.todo = job[s].todo \ {l} /\ j.copying = {l}
      BY <1>1, <2>1 DEF Job
    <3> HIDE DEF j
    <3>3. blobs' \in [Layers -> {"none", "torn", "whole"}]
      BY <1>2, <3>1
    <3>4. Copying(l)'
      BY <1>1, <3>1, <3>2, Moved DEF PCs, Copying
    <3>5. \A k \in Layers : blobs[k] = "whole" => blobs'[k] = "whole" \/ Copying(k)'
      BY <1>2, <3>1, <3>4
    <3>6. serial /\ kills = 0 => \A q \in Spellings : Indexed(q)'
      <4> SUFFICES ASSUME serial, kills = 0, NEW q \in Spellings, index[q] # NoVersion PROVE Indexed(q)'
        BY <2>1 DEF Indexed
      <4>1. /\ RefOf[index[q]] = Parse[q] /\ manifests[index[q]] = index[q]
            /\ \A k \in LayersOf[index[q]] : blobs[k] = "whole"
        BY <1>3, <2>1, OnlyWriter DEF Indexed
      <4>2. \A k \in LayersOf[index[q]] : blobs'[k] = "whole" \/ Copying(k)'
        BY <1>4, <3>5, <4>1
      <4> QED
        BY <2>1, <4>1, <4>2 DEF Indexed
    <3>7. serial /\ kills = 0 => Publishing(s)'
      <4> SUFFICES ASSUME serial, kills = 0 PROVE Publishing(s)'
        OBVIOUS
      <4>1. pc'[s] = "write_layer" /\ job'[s] = j
        BY <1>1, <3>1, <3>2, Moved DEF PCs
      <4>2. \A k \in LayersOf[v] \ j.todo : blobs'[k] = "whole" \/ Copying(k)'
        BY <1>5, <2>1, <2>2, <3>2, <3>4, <3>5
      <4> QED
        BY <2>1, <2>2, <3>2, <4>1, <4>2 DEF Publishing, Target
    <3> QED
      BY <1>2, <2>1, <3>1, <3>2, <3>3, <3>6, <3>7, RegistryStep DEF store
  <2> QED
    BY <2>3, <2>4
<1>10. CASE WriteLayer(s)
  <2> DEFINE r == Target(s)
             v == job[s].v
             j == [job[s] EXCEPT !.copying = {}]
  <2>1. /\ pc[s] = "write_layer" /\ job[s].w \in Spellings /\ r \in Refs /\ v \in Versions
        /\ Goto(s, "open_layer") /\ Hold(s, j)
        /\ UNCHANGED <<images, used, manifests, index, serial, kills>>
        /\ blobs' = [l \in Layers |-> IF l \in job[s].copying THEN "whole" ELSE blobs[l]]
    BY <1>1, <1>10 DEF WriteLayer, store
  <2>2. j \in Job /\ j.w = job[s].w /\ j.v = v /\ j.todo = job[s].todo
    BY <1>1 DEF Job
  <2> HIDE DEF j
  <2>3. blobs' \in [Layers -> {"none", "torn", "whole"}]
    BY <1>2, <2>1
  <2>4. serial => \A l \in Layers : blobs[l] = "whole" \/ Copying(l) => blobs'[l] = "whole"
    BY <2>1, OnlyWriter
  <2>5. serial /\ kills = 0 => \A q \in Spellings : Indexed(q)'
    <3> SUFFICES ASSUME serial, kills = 0, NEW q \in Spellings, index[q] # NoVersion PROVE Indexed(q)'
      BY <2>1 DEF Indexed
    <3>1. /\ RefOf[index[q]] = Parse[q] /\ manifests[index[q]] = index[q]
          /\ \A l \in LayersOf[index[q]] : blobs[l] = "whole" \/ Copying(l)
      BY <1>3, <2>1, OnlyWriter DEF Indexed
    <3>2. \A l \in LayersOf[index[q]] : blobs'[l] = "whole"
      BY <1>4, <2>4, <3>1
    <3> QED
      BY <2>1, <3>1, <3>2 DEF Indexed
  <2>6. serial /\ kills = 0 => Publishing(s)'
    <3> SUFFICES ASSUME serial, kills = 0 PROVE Publishing(s)'
      OBVIOUS
    <3>1. pc'[s] = "open_layer" /\ job'[s] = j
      BY <1>1, <2>1, <2>2, Moved DEF PCs
    <3>2. \A l \in LayersOf[v] \ j.todo : blobs'[l] = "whole"
      BY <1>3, <1>5, <2>1, <2>2, <2>4 DEF Publishing, Target
    <3> QED
      BY <1>3, <2>1, <2>2, <3>1, <3>2 DEF Publishing, Target
  <2> QED
    BY <1>2, <2>1, <2>2, <2>3, <2>5, <2>6, RegistryStep DEF store
<1>11. CASE LayersCopied(s)
  <2>1. /\ pc[s] = "open_layer" /\ job[s].todo = {} /\ Goto(s, "load_index") /\ Hold(s, job[s])
        /\ UNCHANGED <<images, used, manifests, blobs, index, serial, kills>>
    BY <1>1, <1>11, Stayed DEF LayersCopied, store
  <2>2. serial /\ kills = 0 => \A q \in Spellings : Indexed(q)'
    BY <1>3, <2>1, OnlyWriter DEF Indexed
  <2>3. serial /\ kills = 0 => Publishing(s)'
    <3>1. pc'[s] = "load_index" /\ job'[s] = job[s]
      BY <1>1, <2>1, Moved DEF PCs
    <3> QED
      BY <1>3, <2>1, <3>1, OnlyWriter DEF Publishing, Target
  <2> QED
    BY <1>1, <1>2, <2>1, <2>2, <2>3, RegistryStep DEF store
<1>12. CASE LoadIndex(s)
  <2> DEFINE j == [job[s] EXCEPT !.index = index]
  <2>1. /\ pc[s] = "load_index" /\ Goto(s, "save_index") /\ Hold(s, j)
        /\ UNCHANGED <<images, used, manifests, blobs, index, serial, kills>>
    BY <1>12 DEF LoadIndex, store
  <2>2. j \in Job /\ j.w = job[s].w /\ j.v = job[s].v /\ j.todo = job[s].todo /\ j.index = index
    BY <1>1, <1>2 DEF Job
  <2> HIDE DEF j
  <2>3. serial /\ kills = 0 => \A q \in Spellings : Indexed(q)'
    BY <1>3, <2>1, OnlyWriter DEF Indexed
  <2>4. serial /\ kills = 0 => Publishing(s)'
    <3>1. pc'[s] = "save_index" /\ job'[s] = j
      BY <1>1, <2>1, <2>2, Moved DEF PCs
    <3> QED
      BY <1>3, <2>1, <2>2, <3>1, OnlyWriter DEF Publishing, Target
  <2> QED
    BY <1>1, <1>2, <2>1, <2>2, <2>3, <2>4, RegistryStep DEF store
<1>13. CASE SaveIndex(s)
  <2> DEFINE r == Target(s)
             v == job[s].v
  <2>1. /\ pc[s] = "save_index" /\ job[s].w \in Spellings /\ r \in Refs /\ v \in Versions /\ End(s)
        /\ UNCHANGED <<images, used, manifests, blobs, serial, kills>>
        /\ index' = [job[s].index EXCEPT ![job[s].w] = v]
    BY <1>1, <1>13 DEF SaveIndex, store
  <2>2. index' \in [Spellings -> Manifest]
    BY <1>2, <2>1 DEF Manifest
  <2>3. serial /\ kills = 0 => \A q \in Spellings : Indexed(q)'
    <3> SUFFICES ASSUME serial, kills = 0, NEW q \in Spellings PROVE Indexed(q)'
      OBVIOUS
    <3>1. CASE q = job[s].w
      <4>1. /\ RefOf[v] = Parse[q] /\ manifests[v] = v
            /\ \A l \in LayersOf[v] : blobs[l] = "whole"
        BY <1>3, <2>1, <3>1, OnlyWriter DEF Publishing, Target, Visible
      <4>2. index'[q] = v
        BY <1>2, <2>1, <3>1
      <4> QED
        BY <2>1, <3>1, <4>1, <4>2 DEF Indexed
    <3>2. CASE q # job[s].w
      <4>1. index'[q] = index[q]
        BY <1>2, <1>3, <2>1, <3>2 DEF Publishing, Target
      <4> QED
        BY <1>3, <2>1, <4>1, OnlyWriter DEF Indexed
    <3> QED
      BY <3>1, <3>2
  <2>4. Publishing(s)'
    BY <1>1, <2>1, Ended
  <2> QED
    BY <1>2, <2>1, <2>2, <2>3, <2>4, EmptyJob, RegistryStep DEF End, store
<1> QED
  BY <1>6, <1>7, <1>8, <1>9, <1>10, <1>11, <1>12, <1>13 DEF publish

-----------------------------------------------------------------------------
(***************************************************************************)
(* The theorems.                                                           *)
(***************************************************************************)
LEMMA CrashKeeps ==
  ASSUME WholeInv, NEW s \in Sessions, Crash(s)
  PROVE  WholeInv'
<1>1. /\ Busy(s) /\ End(s) /\ kills' = kills + 1
      /\ UNCHANGED <<images, used, manifests, blobs, index, serial>>
  BY DEF Crash, Busy, store, registry
<1>2. kills' \in Nat /\ kills' # 0
  BY <1>1 DEF WholeInv, TypeOK
<1>3. TypeOK' /\ StoreInv'
  <2>1. /\ used' \subseteq Spellings /\ index' \in [Spellings -> Manifest]
        /\ manifests' \in [Versions -> Manifest] /\ blobs' \in [Layers -> {"none", "torn", "whole"}]
    BY <1>1 DEF WholeInv, TypeOK
  <2> QED
    BY <1>1, <1>2, <2>1, EmptyJob, StoreStep
    DEF WholeInv, End, PCs, OfRef, OfVersion, Staging, RemovePCs, PublishPCs
<1>4. SerialInv'
  BY <1>1, Ended, SerialStep DEF WholeInv
<1>5. PublishInv'
  BY <1>2 DEF PublishInv
<1> QED
  BY <1>3, <1>4, <1>5 DEF WholeInv

LEMMA WholeInit == Init => WholeInv
<1> SUFFICES ASSUME Init PROVE WholeInv
  OBVIOUS
<1>1. NoDir \in Dir /\ NoDir.bad = {} /\ IsEmpty(NoDir) /\ NoDir.manifest = NoVersion
  BY DEF NoDir, Dir, Manifest, IsEmpty
<1>2. TypeOK
  BY <1>1, EmptyJob, ConstantsAssumption DEF Init, TypeOK, NoIndex, Manifest, PCs
<1>3. StoreInv
  BY <1>1
  DEF Init, StoreInv, Sound, Named, Staged, OfRef, OfVersion, Staging, RemovePCs, PublishPCs
<1>4. SerialInv
  BY DEF Init, SerialInv, Keeps, RemovePCs, Busy
<1>5. PublishInv
  BY DEF Init, PublishInv, Indexed, Publishing, PublishPCs, NoIndex
<1> QED
  BY <1>2, <1>3, <1>4, <1>5 DEF WholeInv

LEMMA WholeNext == WholeInv /\ [Next]_vars => WholeInv'
<1> SUFFICES ASSUME WholeInv, [Next]_vars PROVE WholeInv'
  OBVIOUS
<1>1. CASE UNCHANGED vars
  BY <1>1
  DEF vars, store, registry, WholeInv, TypeOK, StoreInv, Sound, Named, Staged, SerialInv, Busy, Keeps,
      PublishInv, Indexed, Publishing, Writing, Copying, Target
<1>2. ASSUME NEW s \in Sessions,
             import(s) \/ pull(s) \/ remove_image(s) \/ containers(s) \/ publish(s) \/ Crash(s)
      PROVE  WholeInv'
  <2>1. CASE import(s)
    BY <2>1, ImportKeeps, RenameKeeps DEF import
  <2> QED
    BY <1>2, <2>1, PullKeeps, RemoveKeeps, ContainersKeep, PublishKeeps, CrashKeeps
<1> QED
  BY <1>1, <1>2 DEF Next

LEMMA WholeAlways == Spec => []WholeInv
BY WholeInit, WholeNext, PTL DEF Spec

\* Commands that wait for each other (serial) and are not killed leave a registry
\* whose index names only what is there: the manifest under its digest, of its
\* reference, and every layer with the right content (LocalRegistry::publish).
THEOREM IndexStaysFetchable == Spec => []ImageInv
<1>1. WholeInv => ImageInv
  <2> SUFFICES ASSUME WholeInv, serial, Quiet, kills = 0 PROVE IndexedIsFetchable
    BY DEF WholeInv, ImageInv, IndexedIsFetchable
  <2>1. \A w \in Spellings : Indexed(w)
    BY DEF WholeInv, PublishInv
  <2>2. \A v : ~Writing(v)
    BY DEF Quiet, Writing
  <2>3. \A l : ~Copying(l)
    BY DEF Quiet, Copying
  <2> QED
    BY <2>1, <2>2, <2>3 DEF IndexedIsFetchable, Indexed
<1> QED
  BY <1>1, WholeAlways, PTL

\* Commands that wait for each other never take a whole image from the container
\* created from it, whoever is killed: create reads it (ImageStore::get), a rename
\* puts nothing but whole images in its place, and remove_image refuses the spelling
\* a container was created with.  Only another spelling of the reference gets past.
THEOREM ContainersKeepTheirImage == Spec => OnlyAnotherSpellingTakesIt
<1> DEFINE Keeping(w) ==
             \/ Visible(images'[Parse[w]], Parse[w])
             \/ w \in used /\ ~Visible(images[Parse[w]], Parse[w])
             \/ \E s \in Sessions :
                  pc[s] \in RemovePCs /\ job[s].w # w /\ Target(s) = Parse[w]
<1>1. ASSUME WholeInv, [Next]_vars, serial, NEW w \in used' PROVE Keeping(w)
  <2>1. CASE UNCHANGED images /\ used' \subseteq used
    BY <2>1
  <2>2. ASSUME NEW s \in Sessions, Rename(s) PROVE Keeping(w)
    <3>1. /\ Verifies(job[s].dir) /\ job[s].dir.there /\ UNCHANGED used
          /\ images \in [Refs -> Dir]
          /\ images' \in {images, [images EXCEPT ![RefOf[job[s].dir.manifest]] = job[s].dir]}
      BY <1>1, <2>2 DEF Rename, WholeInv, TypeOK, StoreInv, Staged, Staging
    <3>2. used \subseteq Spellings
      BY <1>1 DEF WholeInv, TypeOK
    <3>3. Parse[w] \in Refs
      BY <3>1, <3>2, ConstantsAssumption
    <3>4. images'[Parse[w]] = images[Parse[w]] \/ Visible(images'[Parse[w]], Parse[w])
      BY <3>1, <3>3 DEF Visible
    <3> QED
      BY <3>1, <3>4
  <2>3. ASSUME NEW s \in Sessions, RemoveFile(s) \/ RemoveDir(s) PROVE Keeping(w)
    <3>1. /\ pc[s] \in RemovePCs /\ UNCHANGED used
          /\ \A r \in Refs \ {Target(s)} : images'[r] = images[r]
      BY <1>1, <2>3 DEF RemoveFile, RemoveDir, RemovePCs, WholeInv, TypeOK
    <3>2. job[s].w # w
      BY <1>1, <3>1 DEF WholeInv, SerialInv, Keeps
    <3>3. Parse[w] \in Refs
      BY <1>1, <3>1, ConstantsAssumption DEF WholeInv, TypeOK
    <3> QED
      BY <3>1, <3>2, <3>3
  <2>4. ASSUME NEW s \in Sessions, CreateSave(s) PROVE Keeping(w)
    <3>1. pc[s] = "create" /\ UNCHANGED images /\ used' \subseteq used \cup {job[s].w}
      BY <2>4 DEF CreateSave
    <3>2. Visible(images[Target(s)], Target(s))
      BY <1>1, <3>1 DEF WholeInv, SerialInv, Keeps
    <3> QED
      BY <3>1, <3>2 DEF Target
  <2> HIDE DEF Keeping
  <2>5. CASE UNCHANGED vars
    BY <2>1, <2>5 DEF vars, store
  <2>6. ASSUME NEW s \in Sessions,
               import(s) \/ pull(s) \/ remove_image(s) \/ containers(s) \/ publish(s) \/ Crash(s)
        PROVE  Keeping(w)
    BY <2>1, <2>2, <2>3, <2>4, <2>6
    DEF store, import, pull, remove_image, containers, publish, Crash,
        Import, Verify, Pull, FetchManifest, FetchLayer, PullRemote, GetBlob, Fetched,
        RemoveImage, IsDir, OpenDir, FilesRemoved, CreateGet, Destroy,
        Publish, OpenManifest, WriteManifest, OpenLayer, WriteLayer, LayersCopied, LoadIndex, SaveIndex
  <2> QED
    BY <1>1, <2>5, <2>6 DEF Next
<1>2. WholeInv /\ [Next]_vars =>
        [serial =>
           \A w \in used' :
             \/ Visible(images'[Parse[w]], Parse[w])
             \/ w \in used /\ ~Visible(images[Parse[w]], Parse[w])
             \/ \E s \in Sessions :
                  pc[s] \in RemovePCs /\ job[s].w # w /\ Target(s) = Parse[w]]_vars
  BY <1>1
<1> QED
  BY <1>2, WholeAlways, PTL DEF Spec, OnlyAnotherSpellingTakesIt

\* However commands interleave and whoever is killed, a directory under images/
\* that changes is the verified image of its reference, put there by one rename
\* (import_staged), or has only lost files (ImageStore::remove).
THEOREM ImagesAppearWhole == Spec => AppearsWhole
<1> DEFINE Losing(r) ==
             /\ images'[r].manifest \in {images[r].manifest, NoVersion}
             /\ images'[r].files \subseteq images[r].files
           Appears(r) == Losing(r) \/ Visible(images'[r], r)
<1>1. ASSUME WholeInv, [Next]_vars, NEW r \in Refs PROVE Appears(r)
  <2>1. CASE UNCHANGED images
    BY <2>1
  <2>2. ASSUME NEW s \in Sessions, Rename(s) PROVE Appears(r)
    <3>1. /\ Verifies(job[s].dir) /\ job[s].dir.there
          /\ images \in [Refs -> Dir]
          /\ images' \in {images, [images EXCEPT ![RefOf[job[s].dir.manifest]] = job[s].dir]}
      BY <1>1, <2>2 DEF Rename, WholeInv, TypeOK, StoreInv, Staged, Staging
    <3> QED
      BY <3>1 DEF Visible
  <2>3. ASSUME NEW s \in Sessions, RemoveFile(s) PROVE Appears(r)
    <3>1. images \in [Refs -> Dir] /\ images[r] \in Dir
      BY <1>1 DEF WholeInv, TypeOK
    <3>2. CASE images' = [images EXCEPT ![Target(s)].manifest = NoVersion]
      BY <3>1, <3>2 DEF Dir
    <3>3. ASSUME NEW l, images' = [images EXCEPT ![Target(s)].files = @ \ {l}] PROVE Losing(r)
      BY <3>1, <3>3 DEF Dir
    <3> QED
      BY <2>3, <3>2, <3>3 DEF RemoveFile
  <2>4. ASSUME NEW s \in Sessions, RemoveDir(s) PROVE Appears(r)
    <3>1. images \in [Refs -> Dir] /\ images' \in {images, [images EXCEPT ![Target(s)] = NoDir]}
      BY <1>1, <2>4 DEF RemoveDir, WholeInv, TypeOK
    <3> QED
      BY <3>1 DEF NoDir
  <2> HIDE DEF Appears
  <2>5. CASE UNCHANGED vars
    BY <2>1, <2>5 DEF vars, store
  <2>6. ASSUME NEW s \in Sessions,
               import(s) \/ pull(s) \/ remove_image(s) \/ containers(s) \/ publish(s) \/ Crash(s)
        PROVE  Appears(r)
    BY <2>1, <2>2, <2>3, <2>4, <2>6
    DEF store, import, pull, remove_image, containers, publish, Crash,
        Import, Verify, Pull, FetchManifest, FetchLayer, PullRemote, GetBlob, Fetched,
        RemoveImage, IsDir, OpenDir, FilesRemoved, CreateGet, CreateSave, Destroy,
        Publish, OpenManifest, WriteManifest, OpenLayer, WriteLayer, LayersCopied, LoadIndex, SaveIndex
  <2> QED
    BY <1>1, <2>5, <2>6 DEF Next
<1>2. WholeInv /\ [Next]_vars =>
        [\A r \in Refs :
           \/ images'[r].manifest \in {images[r].manifest, NoVersion}
                /\ images'[r].files \subseteq images[r].files
           \/ Visible(images'[r], r)]_vars
  BY <1>1
<1> QED
  BY <1>2, WholeAlways, PTL DEF Spec, AppearsWhole
=============================================================================
