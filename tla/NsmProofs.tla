------------------------------ MODULE NsmProofs ------------------------------
(***************************************************************************)
(* What TLAPS proves about the namespace manager: every operation keeps    *)
(* the types, the agreement of names and objects and the bound on fragment *)
(* versions.  The lemmas are stated per operation because FragmentStore    *)
(* uses the same operations.                                               *)
(***************************************************************************)
EXTENDS Nsm, TLAPS

NsmInv == NsmTypeOK /\ NamesMatchObjects /\ FragmentVersionsBounded

\* A place read off a manifest is a place.
LEMMA PlacesInType ==
  ASSUME NEW o \in ObjectId, NEW m \in Manifest, NEW slots \in SUBSET Slot
  PROVE  PlacesIn(o, m, slots) \subseteq Place
BY DEF PlacesIn, Place, Manifest

\* The manifest update_manifest builds is a manifest.
LEMMA UpdatedManifestType ==
  ASSUME NEW m \in Manifest, NEW slots \in SUBSET Slot, NEW target \in Target,
         NEW v \in Nat
  PROVE  /\ UpdatedManifest(m, slots, target, v) \in Manifest
         /\ UpdatedManifest(m, slots, target, v).name = m.name
         /\ UpdatedManifest(m, slots, target, v).timestamp = m.timestamp
         /\ UpdatedManifest(m, slots, target, v).version_id = v
         /\ \A s \in Slot :
              /\ UpdatedManifest(m, slots, target, v).osd[s] =
                   IF s \in slots THEN target[s] ELSE m.osd[s]
              /\ UpdatedManifest(m, slots, target, v).version[s] =
                   IF s \in slots THEN v ELSE m.version[s]
BY DEF UpdatedManifest, Manifest, Target

\* The manifest of a new upload is a manifest.
LEMMA NewManifestType ==
  ASSUME NEW n \in Name, NEW t \in Nat, NEW target \in Target
  PROVE  /\ NewManifest(n, t, target) \in Manifest
         /\ NewManifest(n, t, target).name = n
         /\ NewManifest(n, t, target).version_id = 0
         /\ NewManifest(n, t, target).osd = target
         /\ \A s \in Slot : NewManifest(n, t, target).version[s] = 0
BY DEF NewManifest, Manifest, Target

\* put_object keeps the invariant.
LEMMA PutObjectInv ==
  ASSUME NsmInv, NEW allow, NEW o \in ObjectId, NEW m \in Manifest, NEW e,
         m.version_id = 0, \A s \in Slot : m.version[s] = 0,
         PutObject(allow, o, m, e)
  PROVE  NsmInv'
<1> DEFINE old == names[m.name]
<1> USE NoneAssumption
<1>0. m.name \in Name
  BY DEF Manifest
<1>1. old \in ObjectId \union {None}
  BY <1>0 DEF NsmInv, NsmTypeOK
<1>2. old # None => old \in ObjectId /\ objects[old] \in Manifest /\ objects[old].name = m.name
  BY <1>0, <1>1 DEF NsmInv, NsmTypeOK, NamesMatchObjects, Live
<1>3. o # old
  BY <1>2 DEF PutObject, PutAllowed
<1>4. NsmTypeOK'
  <2>1. old # None => PlacesIn(old, objects[old], Slot) \subseteq Place
    BY <1>2, PlacesInType
  <2>2. keys_to_be_deleted' \subseteq Place
    BY <2>1 DEF PutObject, NsmInv, NsmTypeOK
  <2>3. objects' \in [ObjectId -> Manifest \union {None}]
    BY DEF PutObject, NsmInv, NsmTypeOK
  <2>4. names' \in [Name -> ObjectId \union {None}]
    BY DEF PutObject, NsmInv, NsmTypeOK
  <2> QED
    BY <2>2, <2>3, <2>4 DEF PutObject, NsmInv, NsmTypeOK
<1>5. NamesMatchObjects'
  <2>1. ASSUME NEW n \in Name, names'[n] # None
        PROVE  objects'[names'[n]] # None /\ objects'[names'[n]].name = n
    <3>1. CASE n = m.name
      BY <3>1 DEF PutObject, NsmInv, NsmTypeOK
    <3>2. CASE n # m.name
      <4>1. names'[n] = names[n] /\ names[n] \in ObjectId
        BY <2>1, <3>2 DEF PutObject, NsmInv, NsmTypeOK
      <4>2. objects[names[n]] # None /\ objects[names[n]].name = n
        BY <2>1, <4>1 DEF NsmInv, NamesMatchObjects, Live
      <4>3. names[n] # o /\ names[n] # old
        BY <4>2, <4>1, <1>2, <3>2 DEF PutObject, PutAllowed
      <4> QED
        BY <4>1, <4>2, <4>3 DEF PutObject
    <3> QED
      BY <3>1, <3>2
  <2>2. ASSUME NEW i \in ObjectId, objects'[i] # None
        PROVE  names'[objects'[i].name] = i
    <3>1. CASE i = o
      BY <3>1, <1>0 DEF PutObject, NsmInv, NsmTypeOK
    <3>2. CASE i # o
      <4>1. i # old /\ objects'[i] = objects[i]
        BY <2>2, <3>2 DEF PutObject
      <4>2. names[objects[i].name] = i
        BY <2>2, <4>1 DEF NsmInv, NamesMatchObjects, Live
      <4>3. objects[i].name # m.name
        BY <4>1, <4>2
      <4> QED
        BY <4>1, <4>2, <4>3 DEF PutObject
    <3> QED
      BY <3>1, <3>2
  <2> QED
    BY <2>1, <2>2 DEF NamesMatchObjects, Live
<1>6. FragmentVersionsBounded'
  BY DEF PutObject, NsmInv, FragmentVersionsBounded, Live
<1> QED
  BY <1>4, <1>5, <1>6 DEF NsmInv

\* delete_object keeps the invariant.
LEMMA DeleteObjectInv ==
  ASSUME NsmInv, NEW n \in Name, NEW allow, DeleteObject(n, allow)
  PROVE  NsmInv'
<1> DEFINE old == names[n]
<1> USE NoneAssumption
<1>1. old \in ObjectId /\ objects[old] \in Manifest /\ objects[old].name = n
  BY DEF DeleteObject, NsmInv, NsmTypeOK, NamesMatchObjects, Live
<1>2. NsmTypeOK'
  BY <1>1, PlacesInType DEF DeleteObject, NsmInv, NsmTypeOK
<1>3. NamesMatchObjects'
  BY <1>1 DEF DeleteObject, NsmInv, NsmTypeOK, NamesMatchObjects, Live
<1>4. FragmentVersionsBounded'
  BY <1>1 DEF DeleteObject, NsmInv, NsmTypeOK, FragmentVersionsBounded, Live
<1> QED
  BY <1>2, <1>3, <1>4 DEF NsmInv

\* update_manifest keeps the invariant.
LEMMA UpdateManifestInv ==
  ASSUME NsmInv, NEW o \in ObjectId, NEW slots \in SUBSET Slot,
         NEW target \in Target, NEW e, NEW v \in Nat,
         UpdateManifest(o, slots, target, e, v)
  PROVE  NsmInv'
<1> DEFINE m == UpdatedManifest(objects[o], slots, target, v)
<1> USE NoneAssumption
<1>1. objects[o] \in Manifest
  BY DEF UpdateManifest, NsmInv, NsmTypeOK, Live
<1>2. /\ m \in Manifest
      /\ m.name = objects[o].name
      /\ m.version_id = v
      /\ \A s \in Slot : m.version[s] = IF s \in slots THEN v ELSE objects[o].version[s]
  BY <1>1, UpdatedManifestType
<1>3. objects' = [objects EXCEPT ![o] = m]
  BY DEF UpdateManifest
<1> HIDE DEF m
<1>4. NsmTypeOK'
  BY <1>1, <1>2, <1>3, PlacesInType DEF UpdateManifest, NsmInv, NsmTypeOK
<1>5. NamesMatchObjects'
  BY <1>1, <1>2, <1>3 DEF UpdateManifest, NsmInv, NsmTypeOK, NamesMatchObjects, Live
<1>6. FragmentVersionsBounded'
  <2>1. ASSUME NEW s \in Slot PROVE m.version[s] <= v
    <3>1. objects[o].version_id \in Nat /\ objects[o].version[s] \in Nat
      BY <1>1 DEF Manifest
    <3>2. objects[o].version_id <= v
      BY <3>1 DEF UpdateManifest, VersionAllowed
    <3>3. objects[o].version[s] <= objects[o].version_id
      BY DEF UpdateManifest, NsmInv, FragmentVersionsBounded
    <3> QED
      BY <1>2, <3>1, <3>2, <3>3
  <2> QED
    BY <1>2, <1>3, <2>1 DEF NsmInv, NsmTypeOK, FragmentVersionsBounded, Live
<1> QED
  BY <1>4, <1>5, <1>6 DEF NsmInv

\* apply_sequence keeps the invariant.
LEMMA ApplySequenceInv ==
  ASSUME NsmInv, NEW asserts, NEW ns \in SUBSET Name, NEW puts \in SequencePuts(ns),
         NEW deletes \in SUBSET (Name \ ns), ApplySequence(asserts, puts, deletes)
  PROVE  NsmInv'
<1> DEFINE olds == {names[n] : n \in ns \union deletes} \ {None}
<1> USE NoneAssumption
<1>0. DOMAIN puts = ns
  BY DEF SequencePuts
<1>1. ASSUME NEW n \in ns
      PROVE  /\ puts[n].oid \in ObjectId
             /\ puts[n].manifest \in Manifest
             /\ puts[n].manifest.name = n
             /\ \A s \in Slot : puts[n].manifest.version[s] <= puts[n].manifest.version_id
             /\ objects[puts[n].oid] = None
  <2>1. puts[n].manifest \in Uploads /\ puts[n].oid \in ObjectId /\ puts[n].manifest.name = n
    BY DEF SequencePuts
  <2>2. PICK k \in Name, t \in Timestamp, target \in Target :
          puts[n].manifest = NewManifest(k, t, target)
    BY <2>1 DEF Uploads
  <2> QED
    BY <1>0, <2>1, <2>2, TimestampAssumption, NewManifestType
    DEF ApplySequence, PutAllowed
<1>2. ASSUME NEW n \in ns
      PROVE  objects'[puts[n].oid] = puts[n].manifest
  <2>1. \A k \in ns : puts[k].oid = puts[n].oid => k = n
    BY <1>0 DEF ApplySequence
  <2> QED
    BY <1>0, <1>1, <2>1 DEF ApplySequence
<1>3. ASSUME NEW i \in ObjectId, \A n \in ns : puts[n].oid # i
      PROVE  objects'[i] = IF i \in olds THEN None ELSE objects[i]
  BY <1>0, <1>3 DEF ApplySequence
<1>4. \A n \in Name : names'[n] = IF n \in ns THEN puts[n].oid
                                  ELSE IF n \in deletes THEN None ELSE names[n]
  BY <1>0 DEF ApplySequence
<1>5. \A i \in olds : i \in ObjectId /\ objects[i] \in Manifest
  BY DEF NsmInv, NsmTypeOK, NamesMatchObjects, Live
<1>6. NsmTypeOK'
  <2>1. \A i \in olds : PlacesIn(i, objects[i], Slot) \subseteq Place
    BY <1>5, PlacesInType
  <2>2. keys_to_be_deleted' \subseteq Place
    BY <1>0, <2>1 DEF ApplySequence, NsmInv, NsmTypeOK
  <2>3. \A i \in ObjectId : objects'[i] \in Manifest \union {None}
    BY <1>1, <1>2, <1>3 DEF NsmInv, NsmTypeOK
  <2>4. \A n \in Name : names'[n] \in ObjectId \union {None}
    BY <1>1, <1>4 DEF NsmInv, NsmTypeOK
  <2>5. /\ objects' \in [ObjectId -> Manifest \union {None}]
        /\ names' \in [Name -> ObjectId \union {None}]
    BY <2>3, <2>4 DEF ApplySequence
  <2> QED
    BY <2>2, <2>5 DEF ApplySequence, NsmInv, NsmTypeOK
<1>7. NamesMatchObjects'
  <2>1. ASSUME NEW n \in Name, names'[n] # None
        PROVE  objects'[names'[n]] # None /\ objects'[names'[n]].name = n
    <3>1. CASE n \in ns
      BY <1>1, <1>2, <1>4, <3>1
    <3>2. CASE n \notin ns
      <4>1. n \notin deletes /\ names'[n] = names[n] /\ names[n] \in ObjectId
        BY <1>4, <2>1, <3>2 DEF NsmInv, NsmTypeOK
      <4>2. objects[names[n]] # None /\ objects[names[n]].name = n
        BY <2>1, <4>1 DEF NsmInv, NamesMatchObjects, Live
      <4>3. \A k \in ns : puts[k].oid # names[n]
        BY <1>1, <4>2
      <4>4. names[n] \notin olds
        BY <3>2, <4>1, <4>2 DEF NsmInv, NamesMatchObjects, Live
      <4> QED
        BY <1>3, <4>1, <4>2, <4>3, <4>4
    <3> QED
      BY <3>1, <3>2
  <2>2. ASSUME NEW i \in ObjectId, objects'[i] # None
        PROVE  names'[objects'[i].name] = i
    <3>1. CASE \E n \in ns : puts[n].oid = i
      BY <1>1, <1>2, <1>4, <3>1
    <3>2. CASE \A n \in ns : puts[n].oid # i
      <4>1. i \notin olds /\ objects'[i] = objects[i]
        BY <1>3, <2>2, <3>2
      <4>2. names[objects[i].name] = i /\ objects[i].name \in Name
        BY <2>2, <4>1 DEF NsmInv, NsmTypeOK, NamesMatchObjects, Live, Manifest
      <4>3. objects[i].name \notin ns \union deletes
        BY <4>1, <4>2
      <4> QED
        BY <1>4, <4>1, <4>2, <4>3
    <3> QED
      BY <3>1, <3>2
  <2> QED
    BY <2>1, <2>2 DEF NamesMatchObjects, Live
<1>8. FragmentVersionsBounded'
  BY <1>1, <1>2, <1>3 DEF NsmInv, FragmentVersionsBounded, Live
<1> QED
  BY <1>6, <1>7, <1>8 DEF NsmInv

\* The operations that touch neither names nor objects keep the invariant.
LEMMA OtherOperationsInv ==
  ASSUME NsmInv,
         \/ \E e \in 0 .. MaxEpoch : EnableGcEpoch(e) \/ DisableGcEpoch(e)
         \/ \E places : MarkKeysDeleted(places)
         \/ \E d \in Osd : CleanupOsdKeysToBeDeleted(d) \/ LinkOsd(d) \/ UnlinkOsd(d)
  PROVE  NsmInv'
<1>1. names' = names /\ objects' = objects
  BY DEF EnableGcEpoch, DisableGcEpoch, MarkKeysDeleted,
         CleanupOsdKeysToBeDeleted, LinkOsd, UnlinkOsd
<1>2. NsmTypeOK'
  BY DEF NsmInv, NsmTypeOK, EnableGcEpoch, DisableGcEpoch, MarkKeysDeleted,
         CleanupOsdKeysToBeDeleted, LinkOsd, UnlinkOsd
<1> QED
  BY <1>1, <1>2 DEF NsmInv, NamesMatchObjects, FragmentVersionsBounded, Live

\* Every operation of the namespace manager keeps the invariant.
LEMMA NsmStepKeeps == NsmInv /\ [NsmNext]_nsmVars => NsmInv'
<1> SUFFICES ASSUME NsmInv, [NsmNext]_nsmVars PROVE NsmInv'
  OBVIOUS
<1>1. ASSUME NEW allow, NEW o \in ObjectId, NEW m \in Uploads, NEW e,
             PutObject(allow, o, m, e)
      PROVE  NsmInv'
  <2>1. PICK n \in Name, t \in Timestamp, target \in Target : m = NewManifest(n, t, target)
    BY DEF Uploads
  <2>2. m \in Manifest /\ m.version_id = 0 /\ \A s \in Slot : m.version[s] = 0
    BY <2>1, NewManifestType, TimestampAssumption
  <2> QED
    BY <1>1, <2>2, PutObjectInv
<1>2. ASSUME NEW o \in ObjectId, NEW slots \in SUBSET Slot, NEW target \in Target,
             NEW e, NEW v \in 0 .. MaxVersion, UpdateManifest(o, slots, target, e, v)
      PROVE  NsmInv'
  BY <1>2, BoundsAssumption, UpdateManifestInv
<1>3. CASE UNCHANGED nsmVars
  BY <1>3 DEF nsmVars, NsmInv, NsmTypeOK, NamesMatchObjects, FragmentVersionsBounded, Live
<1> QED
  BY <1>1, <1>2, <1>3, DeleteObjectInv, ApplySequenceInv, OtherOperationsInv
  DEF NsmNext

\* Every behaviour of the namespace manager keeps names and objects in
\* agreement: no sequence of operations of nsm_model.ml, whatever the clients
\* send, orphans a manifest or leaves a name dangling.
THEOREM NsmCorrect == NsmSpec => [](NsmTypeOK /\ NamesMatchObjects /\ FragmentVersionsBounded)
<1>1. NsmInit => NsmInv
  BY DEF NsmInit, NsmInv, NsmTypeOK, NamesMatchObjects, FragmentVersionsBounded, Live
<1> QED
  BY <1>1, NsmStepKeeps, PTL DEF NsmSpec, NsmInv

\* No fragment is ever newer than its manifest: update_manifest_generic stamps
\* the fragments it changes with the version it stores, which only goes up.
THEOREM NsmBoundsFragmentVersions == NsmSpec => []FragmentVersionsBounded
BY NsmCorrect, PTL

-----------------------------------------------------------------------------
(* What a step never does *)

\* a place of a live manifest stays linked when its object keeps its manifest
LEMMA KeptObjectKeepsPlaces ==
  ASSUME NsmTypeOK, NEW o \in ObjectId, Live(o), objects'[o] = objects[o],
         NEW p \in PlacesIn(o, objects[o], Slot)
  PROVE  Linked(p)'
BY DEF PlacesIn, Linked, Live

\* update_manifest keeps the places it does not replace
LEMMA UpdateKeepsPlaces ==
  ASSUME NsmTypeOK, NEW o \in ObjectId, NEW slots \in SUBSET Slot, NEW target \in Target,
         NEW e, NEW v \in Nat, UpdateManifest(o, slots, target, e, v),
         NEW p \in PlacesIn(o, objects[o], Slot)
  PROVE  Linked(p)' \/ p \in keys_to_be_deleted'
<1> USE NoneAssumption
<1>1. objects[o] \in Manifest
  BY DEF NsmTypeOK, UpdateManifest, Live
<1>2. PICK m \in Manifest :
        /\ m = UpdatedManifest(objects[o], slots, target, v)
        /\ \A s \in Slot \ slots : m.osd[s] = objects[o].osd[s] /\ m.version[s] = objects[o].version[s]
  <2>1. UpdatedManifest(objects[o], slots, target, v) \in Manifest
    BY <1>1, UpdatedManifestType
  <2> WITNESS UpdatedManifest(objects[o], slots, target, v) \in Manifest
  <2> QED
    BY DEF UpdatedManifest
<1>3. objects'[o] = m
  BY <1>2 DEF UpdateManifest, NsmTypeOK
<1>4. PICK s \in Slot : p = <<objects[o].osd[s], o, s, objects[o].version[s]>> /\ objects[o].osd[s] # None
  BY DEF PlacesIn
<1>5. CASE s \in slots
  BY <1>4, <1>5 DEF UpdateManifest, PlacesIn
<1>6. CASE s \notin slots
  BY <1>2, <1>3, <1>4, <1>6 DEF Linked, Live
<1> QED
  BY <1>5, <1>6

\* Nothing the namespace manager does forgets a stored fragment.
THEOREM NsmForgetsNothing == NsmSpec => UnlinkedKeysAreListed
<1>1. NsmTypeOK /\ NamesMatchObjects /\ [NsmNext]_nsmVars =>
        [\A o \in ObjectId : Live(o) =>
           \A p \in PlacesIn(o, objects[o], Slot) :
             Linked(p)' \/ p \in keys_to_be_deleted']_nsmVars
  <2> SUFFICES ASSUME NsmTypeOK, NamesMatchObjects, NsmNext, NEW o \in ObjectId, Live(o),
                      NEW p \in PlacesIn(o, objects[o], Slot)
               PROVE  Linked(p)' \/ p \in keys_to_be_deleted'
    OBVIOUS
  <2>1. ASSUME objects'[o] = objects[o] PROVE Linked(p)'
    BY <2>1, KeptObjectKeepsPlaces
  <2>2. ASSUME NEW allow, NEW i \in ObjectId, NEW m, NEW e, PutObject(allow, i, m, e)
        PROVE  objects'[o] = objects[o] \/ p \in keys_to_be_deleted'
    <3>1. i # o
      BY <2>2 DEF PutObject, PutAllowed, Live
    <3> QED
      BY <2>2, <3>1, NoneAssumption DEF PutObject
  <2>3. ASSUME NEW n \in Name, NEW allow, DeleteObject(n, allow)
        PROVE  objects'[o] = objects[o] \/ p \in keys_to_be_deleted'
    BY <2>3 DEF DeleteObject, NsmTypeOK
  <2>4. ASSUME NEW ns \in SUBSET Name, NEW puts \in SequencePuts(ns), NEW dels, NEW asserts,
               ApplySequence(asserts, puts, dels)
        PROVE  objects'[o] = objects[o] \/ p \in keys_to_be_deleted'
    <3> DEFINE olds == {names[n] : n \in DOMAIN puts \union dels} \ {None}
    <3>1. \A n \in DOMAIN puts : puts[n].oid # o
      BY <2>4 DEF ApplySequence, PutAllowed, Live
    <3>2. objects'[o] = IF o \in olds THEN None ELSE objects[o]
      BY <2>4, <3>1 DEF ApplySequence
    <3>3. o \in olds => p \in keys_to_be_deleted'
      BY <2>4 DEF ApplySequence
    <3> QED
      BY <3>2, <3>3
  <2>5. ASSUME NEW i \in ObjectId, NEW slots \in SUBSET Slot, NEW target \in Target,
               NEW e, NEW v \in 0 .. MaxVersion, UpdateManifest(i, slots, target, e, v)
        PROVE  objects'[o] = objects[o] \/ Linked(p)' \/ p \in keys_to_be_deleted'
    <3>1. CASE i = o
      BY <2>5, <3>1, UpdateKeepsPlaces, BoundsAssumption
    <3>2. CASE i # o
      BY <2>5, <3>2 DEF UpdateManifest
    <3> QED
      BY <3>1, <3>2
  <2>6. ASSUME \/ \E e \in 0 .. MaxEpoch : EnableGcEpoch(e) \/ DisableGcEpoch(e)
               \/ \E places : MarkKeysDeleted(places)
               \/ \E d \in Osd : CleanupOsdKeysToBeDeleted(d) \/ LinkOsd(d) \/ UnlinkOsd(d)
        PROVE  objects'[o] = objects[o]
    BY <2>6 DEF EnableGcEpoch, DisableGcEpoch, MarkKeysDeleted,
                CleanupOsdKeysToBeDeleted, LinkOsd, UnlinkOsd
  <2> QED
    BY <2>1, <2>2, <2>3, <2>4, <2>5, <2>6 DEF NsmNext
<1> QED
  BY <1>1, NsmCorrect, PTL DEF NsmSpec, UnlinkedKeysAreListed

\* Neither an object's version nor the gc epochs ever go back: the version check
\* of update_manifest, put_object's check of the object id, and enable_gc_epoch
\* and disable_gc_epoch moving one epoch forward.
THEOREM NsmNeverGoesBack == NsmSpec => VersionsAndEpochsGrow
<1>1. NsmTypeOK /\ [NsmNext]_nsmVars =>
        [/\ minimum_epoch <= minimum_epoch' /\ next_epoch <= next_epoch'
         /\ \A o \in ObjectId : (Live(o) /\ Live(o)') =>
              objects[o].version_id <= objects'[o].version_id]_nsmVars
  <2> SUFFICES ASSUME NsmTypeOK, NsmNext
               PROVE  /\ minimum_epoch <= minimum_epoch' /\ next_epoch <= next_epoch'
                      /\ \A o \in ObjectId : (Live(o) /\ Live(o)') =>
                           objects[o].version_id <= objects'[o].version_id
    OBVIOUS
  <2> DEFINE Kept == \A o \in ObjectId : objects[o] # None /\ objects'[o] # None =>
                       objects'[o] = objects[o]
  <2>1. minimum_epoch \in Nat /\ next_epoch \in Nat
        /\ \A o \in ObjectId : objects[o] # None => objects[o].version_id \in Nat
    BY DEF NsmTypeOK, Manifest
  <2>2. Kept /\ UNCHANGED <<minimum_epoch, next_epoch>> =>
          /\ minimum_epoch <= minimum_epoch' /\ next_epoch <= next_epoch'
          /\ \A o \in ObjectId : (Live(o) /\ Live(o)') =>
               objects[o].version_id <= objects'[o].version_id
    BY <2>1 DEF Live
  <2>3. ASSUME NEW allow, NEW i \in ObjectId, NEW m, NEW e, PutObject(allow, i, m, e)
        PROVE  Kept /\ UNCHANGED <<minimum_epoch, next_epoch>>
    BY <2>3 DEF PutObject, PutAllowed
  <2>4. ASSUME NEW n \in Name, NEW allow, DeleteObject(n, allow)
        PROVE  Kept /\ UNCHANGED <<minimum_epoch, next_epoch>>
    BY <2>4 DEF DeleteObject, NsmTypeOK
  <2>5. ASSUME NEW asserts, NEW puts, NEW dels, ApplySequence(asserts, puts, dels)
        PROVE  Kept /\ UNCHANGED <<minimum_epoch, next_epoch>>
    BY <2>5 DEF ApplySequence, PutAllowed
  <2>6. ASSUME NEW i \in ObjectId, NEW slots \in SUBSET Slot, NEW target \in Target,
               NEW e, NEW v \in 0 .. MaxVersion, UpdateManifest(i, slots, target, e, v)
        PROVE  /\ minimum_epoch <= minimum_epoch' /\ next_epoch <= next_epoch'
               /\ \A o \in ObjectId : (Live(o) /\ Live(o)') =>
                    objects[o].version_id <= objects'[o].version_id
    <3>1. UNCHANGED <<minimum_epoch, next_epoch>> /\ v \in Nat /\ objects[i] \in Manifest
      BY <2>6, BoundsAssumption DEF UpdateManifest, Live, NsmTypeOK
    <3>2. objects'[i].version_id = v
      <4>1. objects'[i] = UpdatedManifest(objects[i], slots, target, v)
        BY <2>6 DEF UpdateManifest, NsmTypeOK
      <4> QED
        BY <4>1 DEF UpdatedManifest
    <3>3. objects[i].version_id <= v
      <4>1. VersionAllowed(objects[i].version_id, v)
        BY <2>6 DEF UpdateManifest
      <4>2. objects[i].version_id \in Nat
        BY <3>1 DEF Manifest
      <4> QED
        BY <3>1, <4>1, <4>2 DEF VersionAllowed
    <3>4. \A o \in ObjectId \ {i} : objects'[o] = objects[o]
      BY <2>6 DEF UpdateManifest, NsmTypeOK
    <3> QED
      BY <2>1, <3>1, <3>2, <3>3, <3>4 DEF Live
  <2>7. ASSUME NEW e \in 0 .. MaxEpoch, EnableGcEpoch(e) \/ DisableGcEpoch(e)
        PROVE  /\ minimum_epoch <= minimum_epoch' /\ next_epoch <= next_epoch'
               /\ \A o \in ObjectId : (Live(o) /\ Live(o)') =>
                    objects[o].version_id <= objects'[o].version_id
    BY <2>1, <2>7 DEF EnableGcEpoch, DisableGcEpoch, Live
  <2>8. ASSUME \/ \E places : MarkKeysDeleted(places)
               \/ \E d \in Osd : CleanupOsdKeysToBeDeleted(d) \/ LinkOsd(d) \/ UnlinkOsd(d)
        PROVE  Kept /\ UNCHANGED <<minimum_epoch, next_epoch>>
    BY <2>8 DEF MarkKeysDeleted, CleanupOsdKeysToBeDeleted, LinkOsd, UnlinkOsd
  <2> HIDE DEF Kept
  <2> QED
    BY <2>2, <2>3, <2>4, <2>5, <2>6, <2>7, <2>8 DEF NsmNext
<1> QED
  BY <1>1, NsmCorrect, PTL DEF NsmSpec, VersionsAndEpochsGrow
=============================================================================
