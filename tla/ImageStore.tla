----------------------------- MODULE ImageStore -----------------------------
(***************************************************************************)
(* Images and the local registry: import, pull, remove_image, publish, and *)
(* the containers that are made from images.                               *)
(*                                                                         *)
(* images/<name>/<tag>/ is an image: manifest.json and layers/.  Bundles   *)
(* and pulls are staged next to it in directories of their own, verified   *)
(* and renamed.  A registry keeps manifests and layers as files named by   *)
(* their digests, which publish overwrites in place, and an index.         *)
(*                                                                         *)
(* Users spell references with or without the tag.  The directory is that  *)
(* of the parsed reference; containers, remove_image and the registry's    *)
(* index keep and compare the spelling.                                    *)
(***************************************************************************)
EXTENDS Naturals, FiniteSets

CONSTANTS
  Refs,       \* image references, <name>:<tag>
  Spellings,  \* what users write for a reference: <name> is <name>:latest
  NoSpelling,
  Parse,      \* parse_reference
  Versions,   \* manifests, each known by its digest
  NoVersion,  \* no manifest, or one that does not parse
  RefOf,      \* the reference a manifest declares
  Layers,     \* layer digests
  LayersOf,   \* the layers a manifest declares
  Sessions,   \* commands in flight
  Serially,   \* whether commands wait for each other: a set of cases
  MaxKills    \* bound on killed commands, by serial

ASSUME ConstantsAssumption ==
  /\ NoSpelling \notin Spellings
  /\ Parse \in [Spellings -> Refs]
  /\ NoVersion \notin Versions
  /\ RefOf \in [Versions -> Refs]
  /\ LayersOf \in [Versions -> (SUBSET Layers) \ {{}}]
  /\ Serially \subseteq BOOLEAN
  /\ MaxKills \in [BOOLEAN -> Nat]

VARIABLES
  images,    \* the directory of each reference
  used,      \* Container.image of the containers on disk, as spelled
  manifests, \* content of the registry's manifest files, by digest
  blobs,     \* the registry's layer files, by digest
  index,     \* index.json of the registry
  serial,    \* commands wait for each other
  pc, job, kills

registry == <<manifests, blobs, index>>
store == <<images, used>>
vars == <<store, registry, serial, pc, job, kills>>

\* What validates (it has layers, and each but once), or nothing that does.
Manifest == Versions \cup {NoVersion}

\* A directory with its manifest, its layer files, and those of them whose
\* content is not what their name says.
Dir == [there: BOOLEAN, manifest: Manifest, files: SUBSET Layers, bad: SUBSET Layers]

NoDir == [there |-> FALSE, manifest |-> NoVersion, files |-> {}, bad |-> {}]

Whole(v) == [there |-> TRUE, manifest |-> v, files |-> LayersOf[v], bad |-> {}]

IsEmpty(dir) == dir.manifest = NoVersion /\ dir.files = {}

\* ImageStore::load_from, and with it get.
Loads(dir) ==
  /\ dir.there
  /\ dir.manifest # NoVersion
  /\ LayersOf[dir.manifest] \subseteq dir.files

\* verify_digest and verify_layers_in_dir: every declared layer, no other, and
\* all of them with the right content.
Verifies(dir) ==
  /\ dir.manifest # NoVersion
  /\ dir.files = LayersOf[dir.manifest]
  /\ dir.bad = {}

\* What a bundle may hold: an image, or one with a layer missing or damaged.
Bundles ==
  UNION { {Whole(v)}
            \cup {[Whole(v) EXCEPT !.files = @ \ {l}] : l \in LayersOf[v]}
            \cup {[Whole(v) EXCEPT !.bad = {l}] : l \in LayersOf[v]} : v \in Versions }

ImportPCs == {"verify", "rename"}
PullPCs == {"fetch_manifest", "fetch_layers", "get_blobs"}
RemovePCs == {"is_dir", "open_dir", "rm", "rmdir"}
PublishPCs == {"open_manifest", "write_manifest", "open_layer", "write_layer",
               "load_index", "save_index"}
PCs == {"idle", "create"} \cup ImportPCs \cup PullPCs \cup RemovePCs \cup PublishPCs

\* What a session holds: the reference it was given, the manifest it read, the
\* layers left to copy and the one being copied, its staging directory, and the
\* index it has read.
Job == [w: Spellings \cup {NoSpelling}, v: Manifest, read: Manifest, todo: SUBSET Layers,
        copying: SUBSET Layers, dir: Dir, index: [Spellings -> Manifest]]

NoIndex == [w \in Spellings |-> NoVersion]

NoJob == [w |-> NoSpelling, v |-> NoVersion, read |-> NoVersion, todo |-> {},
          copying |-> {}, dir |-> NoDir, index |-> NoIndex]

\* A session that is about to rename its staging directory has verified it.
TypeOK ==
  /\ images \in [Refs -> Dir]
  /\ used \subseteq Spellings
  /\ manifests \in [Versions -> Manifest]
  /\ blobs \in [Layers -> {"none", "torn", "whole"}]
  /\ index \in [Spellings -> Manifest]
  /\ serial \in BOOLEAN
  /\ pc \in [Sessions -> PCs]
  /\ job \in [Sessions -> Job]
  /\ kills \in Nat
  /\ \A s \in Sessions : pc[s] = "rename" => Verifies(job[s].dir)

\* The reference a session works on.
Target(s) == Parse[job[s].w]

Quiet == \A s \in Sessions : pc[s] = "idle"

Goto(s, label) == pc' = [pc EXCEPT ![s] = label]
Hold(s, j) == job' = [job EXCEPT ![s] = j]
End(s) == Goto(s, "idle") /\ Hold(s, NoJob)

MayBegin(s) == pc[s] = "idle" /\ (serial => Quiet)

Init ==
  /\ images = [r \in Refs |-> NoDir]
  /\ used = {}
  /\ manifests = [v \in Versions |-> NoVersion]
  /\ blobs = [l \in Layers |-> "none"]
  /\ index = NoIndex
  /\ serial \in Serially
  /\ pc = [s \in Sessions |-> "idle"]
  /\ job = [s \in Sessions |-> NoJob]
  /\ kills = 0

-----------------------------------------------------------------------------
(***************************************************************************)
(* import_bundle, and import_staged, which pull ends with as well.         *)
(***************************************************************************)
\* A bundle is unpacked into a staging directory.
Import(s, bundle) ==
  /\ MayBegin(s)
  /\ Goto(s, "verify")
  /\ Hold(s, [NoJob EXCEPT !.dir = bundle])
  /\ UNCHANGED <<store, registry, serial, kills>>

\* Mutant: a manifest that loads is good enough.
VerifyNothing(s) ==
  LET dir == job[s].dir IN
  /\ pc[s] = "verify"
  /\ IF Loads(dir) /\ ~images[RefOf[dir.manifest]].there
     THEN Goto(s, "rename") /\ UNCHANGED job
     ELSE End(s)
  /\ UNCHANGED <<store, registry, serial, kills>>

\* The manifest names the reference; nothing may be there yet.
Verify(s) ==
  LET dir == job[s].dir IN
  /\ pc[s] = "verify"
  /\ IF Verifies(dir) /\ ~images[RefOf[dir.manifest]].there
     THEN Goto(s, "rename") /\ UNCHANGED job
     ELSE End(s)
  /\ UNCHANGED <<store, registry, serial, kills>>

\* A removal whose directory has been replaced or removed by another session
\* finds nothing more in it.
Orphaned(s, r, label) ==
  pc' = [t \in Sessions |->
           IF t = s THEN label
           ELSE IF pc[t] = "rm" /\ Target(t) = r THEN "rmdir" ELSE pc[t]]

\* rename replaces an empty directory and fails on any other.
Rename(s) ==
  LET r == RefOf[job[s].dir.manifest] IN
  /\ pc[s] = "rename"
  /\ IF IsEmpty(images[r])
     THEN images' = [images EXCEPT ![r] = job[s].dir] /\ Orphaned(s, r, "idle")
     ELSE Goto(s, "idle") /\ UNCHANGED images
  /\ Hold(s, NoJob)
  /\ UNCHANGED <<used, registry, serial, kills>>

(***************************************************************************)
(* pull from a local registry, and from a remote one; both end like the    *)
(* import of a bundle.                                                     *)
(***************************************************************************)
\* The index names the manifest's digest under the spelling it was published
\* by; the manifest must parse and declare the reference that was asked for.
Pull(s, w) ==
  LET v == index[w] IN
  /\ MayBegin(s)
  /\ v # NoVersion /\ manifests[v] # NoVersion /\ RefOf[manifests[v]] = Parse[w]
  /\ Goto(s, "fetch_manifest")
  /\ Hold(s, [NoJob EXCEPT !.v = v])
  /\ UNCHANGED <<store, registry, serial, kills>>

\* The manifest file is read again to copy it; the layers are the index's.
FetchManifest(s) ==
  LET v == job[s].v IN
  /\ pc[s] = "fetch_manifest"
  /\ Goto(s, "fetch_layers")
  /\ Hold(s, [job[s] EXCEPT !.dir = [Whole(v) EXCEPT !.manifest = manifests[v], !.files = {}],
                            !.todo = LayersOf[v]])
  /\ UNCHANGED <<store, registry, serial, kills>>

FetchLayer(s, l) ==
  /\ pc[s] = "fetch_layers"
  /\ l \in job[s].todo
  /\ IF blobs[l] = "none"
     THEN End(s)
     ELSE /\ Hold(s, [job[s] EXCEPT
                        !.todo = @ \ {l},
                        !.dir.files = @ \cup {l},
                        !.dir.bad = IF blobs[l] = "torn" THEN @ \cup {l} ELSE @])
          /\ UNCHANGED pc
  /\ UNCHANGED <<store, registry, serial, kills>>

\* RemoteRegistry::fetch: whatever the server has under the reference by now, if it
\* validates, has the digest it states, and declares the reference that was asked for.
PullRemote(s, v) ==
  /\ MayBegin(s)
  /\ Goto(s, "get_blobs")
  /\ Hold(s, [NoJob EXCEPT !.dir = [Whole(v) EXCEPT !.files = {}], !.todo = LayersOf[v]])
  /\ UNCHANGED <<store, registry, serial, kills>>

\* What the digest or the size does not fit is not kept; it ends the pull, like any
\* status but success.
GetBlob(s, l) ==
  /\ pc[s] = "get_blobs"
  /\ l \in job[s].todo
  /\ \/ Hold(s, [job[s] EXCEPT !.todo = @ \ {l}, !.dir.files = @ \cup {l}]) /\ UNCHANGED pc
     \/ End(s)
  /\ UNCHANGED <<store, registry, serial, kills>>

Fetched(s) ==
  /\ pc[s] \in {"fetch_layers", "get_blobs"}
  /\ job[s].todo = {}
  /\ Goto(s, "verify")
  /\ UNCHANGED <<store, registry, serial, job, kills>>

(***************************************************************************)
(* remove_image and ImageStore::remove.                                    *)
(***************************************************************************)
\* Mutant: the containers are not looked at.
RemoveUnasked(s, w) ==
  /\ MayBegin(s)
  /\ Goto(s, "is_dir")
  /\ Hold(s, [NoJob EXCEPT !.w = w])
  /\ UNCHANGED <<store, registry, serial, kills>>

\* No container may have been created from this spelling of the reference.
RemoveImage(s, w) ==
  /\ MayBegin(s)
  /\ w \notin used
  /\ Goto(s, "is_dir")
  /\ Hold(s, [NoJob EXCEPT !.w = w])
  /\ UNCHANGED <<store, registry, serial, kills>>

IsDir(s) ==
  /\ pc[s] = "is_dir"
  /\ IF images[Target(s)].there THEN Goto(s, "open_dir") /\ UNCHANGED job ELSE End(s)
  /\ UNCHANGED <<store, registry, serial, kills>>

\* remove_dir_all opens what is there by now.
OpenDir(s) ==
  /\ pc[s] = "open_dir"
  /\ IF images[Target(s)].there THEN Goto(s, "rm") /\ UNCHANGED job ELSE End(s)
  /\ UNCHANGED <<store, registry, serial, kills>>

\* Then the files in some order, and the directory.
RemoveFile(s) ==
  LET r == Target(s) IN
  /\ pc[s] = "rm"
  /\ \/ /\ images[r].manifest # NoVersion
        /\ images' = [images EXCEPT ![r].manifest = NoVersion]
     \/ \E l \in images[r].files :
          images' = [images EXCEPT ![r].files = @ \ {l}]
  /\ UNCHANGED <<used, registry, serial, pc, job, kills>>

FilesRemoved(s) ==
  /\ pc[s] = "rm"
  /\ IsEmpty(images[Target(s)])
  /\ Goto(s, "rmdir")
  /\ UNCHANGED <<store, registry, serial, job, kills>>

\* It fails if something else is in its place by now.
RemoveDir(s) ==
  LET r == Target(s) IN
  /\ pc[s] = "rmdir"
  /\ IF IsEmpty(images[r])
     THEN images' = [images EXCEPT ![r] = NoDir] /\ Orphaned(s, r, "idle")
     ELSE Goto(s, "idle") /\ UNCHANGED images
  /\ Hold(s, NoJob)
  /\ UNCHANGED <<used, registry, serial, kills>>

(***************************************************************************)
(* The containers: create reads the image first and saves the container    *)
(* later, or fails (a port, a name in use); destroy takes it away.         *)
(***************************************************************************)
CreateGet(s, w) ==
  /\ MayBegin(s)
  /\ Loads(images[Parse[w]])
  /\ Goto(s, "create")
  /\ Hold(s, [NoJob EXCEPT !.w = w])
  /\ UNCHANGED <<store, registry, serial, kills>>

CreateSave(s) ==
  /\ pc[s] = "create"
  /\ used' \in {used, used \cup {job[s].w}}
  /\ End(s)
  /\ UNCHANGED <<images, registry, serial, kills>>

Destroy(s, w) ==
  /\ MayBegin(s)
  /\ w \in used
  /\ used' = used \ {w}
  /\ UNCHANGED <<images, registry, serial, pc, job, kills>>

(***************************************************************************)
(* registry_publish and LocalRegistry::publish.  A file is copied by       *)
(* opening the source, truncating the destination and writing it.          *)
(***************************************************************************)
Publish(s, w) ==
  LET v == images[Parse[w]].manifest IN
  /\ MayBegin(s)
  /\ Loads(images[Parse[w]])
  /\ Goto(s, "open_manifest")
  /\ Hold(s, [NoJob EXCEPT !.w = w, !.v = v, !.todo = LayersOf[v]])
  /\ UNCHANGED <<store, registry, serial, kills>>

OpenManifest(s) ==
  LET source == images[Target(s)].manifest IN
  /\ pc[s] = "open_manifest"
  /\ IF source = NoVersion
     THEN End(s) /\ UNCHANGED manifests
     ELSE /\ manifests' = [manifests EXCEPT ![job[s].v] = NoVersion]
          /\ Goto(s, "write_manifest")
          /\ Hold(s, [job[s] EXCEPT !.read = source])
  /\ UNCHANGED <<store, blobs, index, serial, kills>>

WriteManifest(s) ==
  /\ pc[s] = "write_manifest"
  /\ manifests' = [manifests EXCEPT ![job[s].v] = job[s].read]
  /\ Goto(s, "open_layer")
  /\ UNCHANGED <<store, blobs, index, serial, job, kills>>

OpenLayer(s, l) ==
  /\ pc[s] = "open_layer"
  /\ l \in job[s].todo
  /\ IF l \in images[Target(s)].files
     THEN /\ blobs' = [blobs EXCEPT ![l] = "torn"]
          /\ Goto(s, "write_layer")
          /\ Hold(s, [job[s] EXCEPT !.todo = @ \ {l}, !.copying = {l}])
     ELSE End(s) /\ UNCHANGED blobs
  /\ UNCHANGED <<store, manifests, index, serial, kills>>

WriteLayer(s) ==
  /\ pc[s] = "write_layer"
  /\ blobs' = [l \in Layers |-> IF l \in job[s].copying THEN "whole" ELSE blobs[l]]
  /\ Goto(s, "open_layer")
  /\ Hold(s, [job[s] EXCEPT !.copying = {}])
  /\ UNCHANGED <<store, manifests, index, serial, kills>>

\* Mutant: the last layer is not copied.
LayersCopiedButOne(s) ==
  /\ pc[s] = "open_layer"
  /\ Cardinality(job[s].todo) <= 1
  /\ Goto(s, "load_index")
  /\ Hold(s, [job[s] EXCEPT !.todo = {}])
  /\ UNCHANGED <<store, registry, serial, kills>>

LayersCopied(s) ==
  /\ pc[s] = "open_layer"
  /\ job[s].todo = {}
  /\ Goto(s, "load_index")
  /\ UNCHANGED <<store, registry, serial, job, kills>>

LoadIndex(s) ==
  /\ pc[s] = "load_index"
  /\ Goto(s, "save_index")
  /\ Hold(s, [job[s] EXCEPT !.index = index])
  /\ UNCHANGED <<store, registry, serial, kills>>

\* The entry of the same spelling is replaced in the index that was read.
SaveIndex(s) ==
  /\ pc[s] = "save_index"
  /\ index' = [job[s].index EXCEPT ![job[s].w] = job[s].v]
  /\ End(s)
  /\ UNCHANGED <<store, manifests, blobs, serial, kills>>

\* A command is killed.
Crash(s) ==
  /\ kills < MaxKills[serial]
  /\ pc[s] # "idle"
  /\ kills' = kills + 1
  /\ End(s)
  /\ UNCHANGED <<store, registry, serial>>

-----------------------------------------------------------------------------
import(s) ==
  (\E bundle \in Bundles : Import(s, bundle)) \/ Verify(s) \/ Rename(s)

pull(s) ==
  \/ \E w \in Spellings : Pull(s, w)
  \/ FetchManifest(s) \/ (\E l \in Layers : FetchLayer(s, l))
  \/ (\E v \in Versions : PullRemote(s, v)) \/ (\E l \in Layers : GetBlob(s, l))
  \/ Fetched(s)

remove_image(s) ==
  \/ \E w \in Spellings : RemoveImage(s, w)
  \/ IsDir(s) \/ OpenDir(s) \/ RemoveFile(s) \/ FilesRemoved(s) \/ RemoveDir(s)

containers(s) ==
  \/ \E w \in Spellings : CreateGet(s, w) \/ Destroy(s, w)
  \/ CreateSave(s)

publish(s) ==
  \/ \E w \in Spellings : Publish(s, w)
  \/ OpenManifest(s) \/ WriteManifest(s)
  \/ (\E l \in Layers : OpenLayer(s, l)) \/ WriteLayer(s) \/ LayersCopied(s)
  \/ LoadIndex(s) \/ SaveIndex(s)

Next ==
  \E s \in Sessions :
    import(s) \/ pull(s) \/ remove_image(s) \/ containers(s) \/ publish(s) \/ Crash(s)

Spec == Init /\ [][Next]_vars

-----------------------------------------------------------------------------
(***************************************************************************)
(* Properties.                                                             *)
(***************************************************************************)
Visible(dir, r) == dir.there /\ Verifies(dir) /\ RefOf[dir.manifest] = r

\* Images appear whole: whatever a bundle holds, whatever a publish is doing to
\* the files a pull is copying, and whoever is killed, a directory under images/
\* that changes either is the verified image of its reference or has lost files.
AppearsWhole ==
  [][\A r \in Refs :
       \/ images'[r].manifest \in {images[r].manifest, NoVersion}
            /\ images'[r].files \subseteq images[r].files
       \/ Visible(images'[r], r)]_vars

\* A container whose image is there and whole keeps it, when commands wait for
\* each other, whoever is killed: start finds it.  Only a removal that spells the
\* reference in another way can take it away.
OnlyAnotherSpellingTakesIt ==
  [][serial =>
       \A w \in used' :
         \/ Visible(images'[Parse[w]], Parse[w])
         \/ w \in used /\ ~Visible(images[Parse[w]], Parse[w])
         \/ \E s \in Sessions :
              pc[s] \in RemovePCs /\ job[s].w # w /\ Target(s) = Parse[w]]_vars

\* Commands that wait for each other, and are not killed, leave a registry from
\* which everything in the index can be pulled.
IndexedIsFetchable ==
  serial /\ Quiet /\ kills = 0 =>
    \A w \in Spellings : index[w] # NoVersion =>
      /\ manifests[index[w]] = index[w] /\ RefOf[index[w]] = Parse[w]
      /\ \A l \in LayersOf[index[w]] : blobs[l] = "whole"

\* The types, and that a pull of what the index names finds it (publish, pull).
ImageInv == TypeOK /\ IndexedIsFetchable
=============================================================================
