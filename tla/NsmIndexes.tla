----------------------------- MODULE NsmIndexes -----------------------------
(***************************************************************************)
(* The bookkeeping the namespace manager (Nsm, nsm_model.ml) keeps next to *)
(* its manifests, and updates by differences in the same sequence of       *)
(* updates: which objects an OSD holds fragments of, how much is stored    *)
(* (per OSD and in total), and which objects are in which bucket, i.e. how *)
(* many fragments they have and how many of them share a node.  The        *)
(* maintenance processes find their work in these indexes.                 *)
(*                                                                         *)
(* Data abstraction: one encoding scheme (k, m), so a bucket is a pair     *)
(* <<fragment_count, max_disks_per_node>>; of a preset only its policies   *)
(* and its version.                                                        *)
(***************************************************************************)
EXTENDS Nsm, FiniteSetsExt

CONSTANTS
  Node,        \* function from osds to the node_id of their OsdInfo
  Policy,      \* pairs <<min_fragment_count, max_disks_per_node>>
  Size,        \* packed sizes of fragments
  MaxPreset    \* bound: the last version of the preset

ASSUME IndexAssumption ==
  /\ DOMAIN Node = Osd
  /\ Size \subseteq Nat
  /\ Policy \subseteq Nat \X Nat
  /\ MaxPreset \in Nat
  /\ IsFiniteSet(ObjectId) /\ IsFiniteSet(Fragment)
  /\ IsFiniteSet(Chunk) /\ Chunk # {}

VARIABLES
  len,             \* Fragment.len of the manifests' fragments
  device_objects,  \* Keys.Device.objects
  osd_size,        \* Keys.Device.size
  storage_size,    \* Keys.namespace_storage_size
  policies,        \* Keys.policies
  policies_cnt,    \* Keys.policies_cnt
  preset,          \* Keys.preset: its policies
  preset_version   \* Keys.preset_version, -1 when there is none

indexVars == <<len, device_objects, osd_size, storage_size, policies,
               policies_cnt, preset, preset_version>>
indexedVars == <<nsmVars, indexVars>>

Bucket == (0 .. Cardinality(Fragment)) \X (0 .. Cardinality(Fragment))

IndexTypeOK ==
  /\ NsmTypeOK
  /\ len \in [ObjectId -> [Slot -> Nat]]
  /\ device_objects \subseteq Osd \X ObjectId
  /\ osd_size \in [Osd -> Nat]
  /\ storage_size \in Nat
  /\ policies \subseteq Bucket \X ObjectId
  /\ policies_cnt \in [Bucket -> Nat]
  /\ preset \subseteq Policy
  /\ preset_version \in Int

IndexInit ==
  /\ NsmInit
  /\ len = [o \in ObjectId |-> [s \in Slot |-> 0]]
  /\ device_objects = {}
  /\ osd_size = [d \in Osd |-> 0]
  /\ storage_size = 0
  /\ policies = {}
  /\ policies_cnt = [b \in Bucket |-> 0]
  /\ preset = {}
  /\ preset_version = -1

-----------------------------------------------------------------------------
(* What one manifest m with fragment sizes l adds to the indexes *)

\* get_min_fragment_count_and_max_disks_per_node
BucketOf(m) ==
  LET stored(c) == {f \in Fragment : m.osd[<<c, f>>] # None}
      onNode(c, n) == {f \in stored(c) : Node[m.osd[<<c, f>>]] = n}
  IN  <<Min({Cardinality(stored(c)) : c \in Chunk}),
        Max({0} \union {Cardinality(onNode(c, Node[d])) : c \in Chunk, d \in Osd})>>

\* the part of it that may fail (Invalid_bucket)
BucketAllowed(b) ==
  preset_version = -1 \/ \E p \in preset : b[1] >= p[1] /\ b[2] <= p[2]

\* the sum of f over the elements of S
Total(f, S) == FoldFunctionOnSet(+, 0, f, S)

\* get_osd_size_updates
SizeOn(d, m, l) == Total(l, {s \in Slot : m.osd[s] = d})

\* get_summed_fragment_sizes: fragments that are stored nowhere count as well
SummedSizes(l) == Total(l, Slot)

\* cleanup_for_object_id for the objects in olds, and what put_object adds for
\* news, a function from object ids to [manifest, len]
Reindex(olds, news) ==
  LET new(o) == news[o].manifest
      added == DOMAIN news
  IN
  /\ \A o \in added : BucketAllowed(BucketOf(new(o)))
  /\ len' = [o \in ObjectId |-> IF o \in added THEN news[o].len
                                ELSE IF o \in olds THEN [s \in Slot |-> 0]
                                ELSE len[o]]
  /\ device_objects' =
       (device_objects \union UNION {OsdsUsed(new(o)) \X {o} : o \in added})
         \ UNION {OsdsUsed(objects[o]) \X {o} : o \in olds}
  /\ osd_size' = [d \in Osd |->
       osd_size[d] + Total([o \in added |-> SizeOn(d, new(o), news[o].len)], added)
                   - Total([o \in olds |-> SizeOn(d, objects[o], len[o])], olds)]
  /\ storage_size' =
       storage_size + Total([o \in added |-> SummedSizes(news[o].len)], added)
                    - Total([o \in olds |-> SummedSizes(len[o])], olds)
  /\ policies' = (policies \union {<<BucketOf(new(o)), o>> : o \in added})
                   \ {<<BucketOf(objects[o]), o>> : o \in olds}
  /\ policies_cnt' = [b \in Bucket |->
       policies_cnt[b] + Cardinality({o \in added : BucketOf(new(o)) = b})
                       - Cardinality({o \in olds : BucketOf(objects[o]) = b})]
  /\ UNCHANGED <<preset, preset_version>>

-----------------------------------------------------------------------------
(* The operations of Nsm, with their bookkeeping *)

IndexedPut(allow, o, m, l, e) ==
  /\ PutObject(allow, o, m, e)
  /\ Reindex({names[m.name]} \ {None}, [i \in {o} |-> [manifest |-> m, len |-> l]])

IndexedDelete(n, allow) ==
  /\ DeleteObject(n, allow)
  /\ Reindex({names[n]} \ {None}, << >>)

IndexedSequence(asserts, puts, lens, deletes) ==
  LET oids == {puts[n].oid : n \in DOMAIN puts}
      put(o) == CHOOSE n \in DOMAIN puts : puts[n].oid = o
  IN
  /\ ApplySequence(asserts, puts, deletes)
  /\ Reindex({names[n] : n \in DOMAIN puts \union deletes} \ {None},
             [o \in oids |-> [manifest |-> puts[put(o)].manifest, len |-> lens[put(o)]]])

\* mutant: the osds of the replaced fragments are taken out, not the difference
DeviceObjectsOfSlots(o, old, m) ==
  (device_objects \union (OsdsUsed(m) \X {o}))
    \ {<<old.osd[s], o>> : s \in {t \in Slot : m.osd[t] # old.osd[t]}}

\* update_device_object_mapping
DeviceObjectsAfter(o, old, m) ==
  (device_objects \union ((OsdsUsed(m) \ OsdsUsed(old)) \X {o}))
    \ ((OsdsUsed(old) \ OsdsUsed(m)) \X {o})

\* mutant: the size on the new osd does not take the size_change into account
OsdSizeChangeOldLen(d, old, oldLen, slots, target, newLen) ==
  Total(oldLen, {s \in slots : target[s] = d})
    - Total(oldLen, {s \in slots : old.osd[s] = d})

\* update_manifest_generic's update_osd_sizes
OsdSizeChange(d, old, oldLen, slots, target, newLen) ==
  Total(newLen, {s \in slots : target[s] = d})
    - Total(oldLen, {s \in slots : old.osd[s] = d})

\* mutant: only a change of the number of fragments moves the object
BucketChangedByCount(old, new) == old[1] # new[1]

\* the condition of update_buckets
BucketChanged(old, new) == old # new

\* update_manifest_generic; l holds the new sizes of the resized slots, those
\* with a size_change
IndexedUpdate(o, slots, target, resized, l, e, v) ==
  LET old == objects[o]
      m == UpdatedManifest(old, slots, target, v)
      newLen == [s \in Slot |-> IF s \in resized THEN l[s] ELSE len[o][s]]
      oldBucket == BucketOf(old)
      newBucket == BucketOf(m)
  IN
  /\ UpdateManifest(o, slots, target, e, v)
  /\ (\E s \in slots : target[s] # None) => BucketAllowed(newBucket)
  /\ len' = [len EXCEPT ![o] = newLen]
  /\ device_objects' = DeviceObjectsAfter(o, old, m)
  /\ osd_size' = [d \in Osd |->
       osd_size[d] + OsdSizeChange(d, old, len[o], slots, target, newLen)]
  /\ storage_size' = storage_size + SummedSizes(newLen) - SummedSizes(len[o])
  /\ IF BucketChanged(oldBucket, newBucket)
     THEN /\ policies' = (policies \ {<<oldBucket, o>>}) \union {<<newBucket, o>>}
          /\ policies_cnt' = [policies_cnt EXCEPT ![oldBucket] = @ - 1, ![newBucket] = @ + 1]
     ELSE UNCHANGED <<policies, policies_cnt>>
  /\ UNCHANGED <<preset, preset_version>>

\* update_preset: an old version changes nothing
UpdatePreset(p, v) ==
  /\ v > preset_version
  /\ preset' = p
  /\ preset_version' = v
  /\ UNCHANGED <<nsmVars, len, device_objects, osd_size, storage_size, policies,
                 policies_cnt>>

Lens == [Slot -> Size]

IndexNext ==
  \/ \E allow \in Overwrite, o \in ObjectId, m \in Uploads, l \in Lens, e \in 0 .. MaxEpoch :
       IndexedPut(allow, o, m, l, e)
  \/ \E n \in Name, allow \in Overwrite : IndexedDelete(n, allow)
  \/ \E ns \in SUBSET Name :
     \E puts \in SequencePuts(ns), lens \in [ns -> Lens], dels \in SUBSET (Name \ ns) :
       IndexedSequence(<< >>, puts, lens, dels)
  \/ \E o \in ObjectId, slots \in SUBSET Slot, e \in 0 .. MaxEpoch, v \in 0 .. MaxVersion :
     \E target \in [slots -> Osd \union {None}], resized \in SUBSET slots :
     \E l \in [resized -> Size] :
       IndexedUpdate(o, slots, target, resized, l, e, v)
  \/ \E p \in SUBSET Policy, v \in 0 .. MaxPreset : UpdatePreset(p, v)
  \/ \E e \in 0 .. MaxEpoch : EnableGcEpoch(e) /\ UNCHANGED indexVars
  \/ \E e \in 0 .. MaxEpoch : DisableGcEpoch(e) /\ UNCHANGED indexVars
  \/ \E d \in Osd : CleanupOsdKeysToBeDeleted(d) /\ UNCHANGED indexVars
  \/ \E d \in Osd : LinkOsd(d) /\ UNCHANGED indexVars
  \/ \E d \in Osd : UnlinkOsd(d) /\ UNCHANGED indexVars

IndexSpec == IndexInit /\ [][IndexNext]_indexedVars

-----------------------------------------------------------------------------
(* Properties *)

\* list_device_objects finds exactly the objects with a fragment on the OSD, so
\* that the repair of a decommissioned OSD misses none and WaitUntilRepaired
\* does not end early (update_device_object_mapping, cleanup_for_object_id).
DeviceObjectsMatch ==
  device_objects =
    {x \in Osd \X ObjectId : Live(x[2]) /\ x[1] \in OsdsUsed(objects[x[2]])}

\* Every object is in the bucket of its present fragments, and nowhere else;
\* the counters count them (put_object, update_manifest_generic and
\* cleanup_for_object_id each recompute the bucket to add to or remove from):
\* an object filed under another bucket would not be repaired, or for ever.
BucketsMatch ==
  /\ policies = {x \in Bucket \X ObjectId : Live(x[2]) /\ BucketOf(objects[x[2]]) = x[1]}
  /\ \A b \in Bucket :
       policies_cnt[b] = Cardinality({o \in ObjectId : Live(o) /\ BucketOf(objects[o]) = b})

\* The sizes, kept by adding and subtracting, are those of the live manifests,
\* also when a fragment is resized while it is stored nowhere.
SizesMatch ==
  LET live == {o \in ObjectId : Live(o)} IN
  /\ \A d \in Osd :
       osd_size[d] = Total([o \in live |-> SizeOn(d, objects[o], len[o])], live)
  /\ storage_size = Total([o \in live |-> SummedSizes(len[o])], live)
=============================================================================
