--------------------------------- MODULE Nsm ---------------------------------
(***************************************************************************)
(* The namespace manager (ocaml/src/nsm_model.ml, functor NamespaceManager): *)
(* the metadata of ONE namespace and the operations that change it.  Each  *)
(* operation reads the database, checks, and hands a list of updates to    *)
(* Arakoon, which applies them atomically if the values the operation      *)
(* asserts are still there; here an operation is one atomic action.        *)
(*                                                                         *)
(* Data abstraction: an object has a fixed grid of slots (chunk, fragment);*)
(* a manifest keeps, per slot, the OSD and the version under which the     *)
(* fragment is stored.  The two OSD keys of a fragment (data and recovery  *)
(* info) are always handled together and are one "place".                  *)
(***************************************************************************)
EXTENDS Integers, FiniteSets

CONSTANTS
  Name,         \* object names
  ObjectId,     \* object ids
  Osd,          \* osd ids
  Chunk,        \* chunk indices
  Fragment,     \* fragment indices within a chunk
  Timestamp,    \* timestamps clients stamp their uploads with
  None,         \* OCaml's None
  MaxEpoch,     \* bound: the last gc epoch that may be enabled
  MaxVersion    \* bound: the last version_id a manifest may reach

Slot == Chunk \X Fragment

\* a fragment key on an OSD: osd, object id, slot, version
Place == Osd \X ObjectId \X Slot \X Nat

Manifest ==
  [name : Name, version_id : Nat, timestamp : Nat,
   osd : [Slot -> Osd \union {None}], version : [Slot -> Nat]]

ASSUME NoneAssumption ==
  None \notin ObjectId \union Osd \union Manifest

ASSUME TimestampAssumption == Timestamp \subseteq Nat

ASSUME BoundsAssumption == MaxEpoch \in Nat /\ MaxVersion \in Nat

VARIABLES
  names,              \* Keys.names: name -> object id
  objects,            \* Keys.objects: object id -> manifest
  minimum_epoch,      \* GcEpochs.minimum_epoch
  next_epoch,         \* GcEpochs.next_epoch
  active_osds,        \* Keys.Device.active_osds
  keys_to_be_deleted  \* Keys.Device.keys_to_be_deleted

nsmVars == <<names, objects, minimum_epoch, next_epoch, active_osds,
             keys_to_be_deleted>>

NsmTypeOK ==
  /\ names \in [Name -> ObjectId \union {None}]
  /\ objects \in [ObjectId -> Manifest \union {None}]
  /\ minimum_epoch \in Nat
  /\ next_epoch \in Nat
  /\ active_osds \subseteq Osd
  /\ keys_to_be_deleted \subseteq Place

NsmInit ==
  /\ names = [n \in Name |-> None]
  /\ objects = [o \in ObjectId |-> None]
  /\ minimum_epoch = 0
  /\ next_epoch = 1
  /\ active_osds = {}
  /\ keys_to_be_deleted = {}

-----------------------------------------------------------------------------
(* Reading manifests *)

Live(o) == objects[o] # None

\* mutant: an epoch stays valid after it was disabled
IsValidEpochNoMinimum(e) == e < next_epoch

IsValidEpoch(e) == minimum_epoch <= e /\ e < next_epoch

\* check_fragment_osd_spread: the fragments of a chunk are on different OSDs
FragmentOsdSpread(m) ==
  \A c \in Chunk : \A f, g \in Fragment :
    (f # g /\ m.osd[<<c, f>>] # None) => m.osd[<<c, f>>] # m.osd[<<c, g>>]

OsdsUsed(m) == {d \in Osd : \E s \in Slot : m.osd[s] = d}

\* where the fragments in `slots` of manifest m of object o are stored
PlacesIn(o, m, slots) ==
  {<<m.osd[s], o, s, m.version[s]>> : s \in {t \in slots : m.osd[t] # None}}

\* update_manifest_generic's updated_manifest
UpdatedManifest(m, slots, target, v) ==
  [name |-> m.name, version_id |-> v, timestamp |-> m.timestamp,
   osd |-> [s \in Slot |-> IF s \in slots THEN target[s] ELSE m.osd[s]],
   version |-> [s \in Slot |-> IF s \in slots THEN v ELSE m.version[s]]]

-----------------------------------------------------------------------------
(* The operations.  A failing check raises an Err and leaves the database  *)
(* alone, so the check is the guard of the action.                         *)

Overwrite == [kind : {"Unconditionally", "NoPrevious", "AnyPrevious"}, id : {None}]
               \union [kind : {"PreviousObjectId"}, id : ObjectId]

CheckOverwrite(old, allow) ==
  CASE allow.kind = "Unconditionally"  -> TRUE
    [] allow.kind = "NoPrevious"       -> old = None
    [] allow.kind = "PreviousObjectId" -> old = allow.id
    [] allow.kind = "AnyPrevious"      -> old # None

\* mutant: the osds of the manifest need not be active
PutAllowedInactiveOsds(o, m, e) ==
  /\ objects[o] = None
  /\ FragmentOsdSpread(m)
  /\ IsValidEpoch(e)
  /\ names[m.name] # None =>
       m.timestamp >= objects[names[m.name]].timestamp

\* the checks of put_object that do not depend on the overwrite flag
PutAllowed(o, m, e) ==
  /\ objects[o] = None                          \* Non_unique_object_id
  /\ FragmentOsdSpread(m)                       \* Invalid_fragment_spread
  /\ IsValidEpoch(e)                            \* Invalid_gc_epoch
  /\ names[m.name] # None =>                    \* Old_timestamp
       m.timestamp >= objects[names[m.name]].timestamp
  /\ OsdsUsed(m) \subseteq active_osds          \* Inactive_osd

\* mutant: the overwritten object keeps its manifest
PutObjectKeepingOld(allow, o, m, e) ==
  /\ CheckOverwrite(names[m.name], allow)
  /\ PutAllowed(o, m, e)
  /\ names' = [names EXCEPT ![m.name] = o]
  /\ objects' = [objects EXCEPT ![o] = m]
  /\ UNCHANGED <<keys_to_be_deleted, minimum_epoch, next_epoch, active_osds>>

PutObject(allow, o, m, e) ==
  LET old == names[m.name] IN
  /\ CheckOverwrite(old, allow)
  /\ PutAllowed(o, m, e)
  /\ names' = [names EXCEPT ![m.name] = o]
  /\ objects' = [i \in ObjectId |-> IF i = o THEN m
                                    ELSE IF i = old THEN None ELSE objects[i]]
  /\ keys_to_be_deleted' =
       keys_to_be_deleted \union
         (IF old = None THEN {} ELSE PlacesIn(old, objects[old], Slot))
  /\ UNCHANGED <<minimum_epoch, next_epoch, active_osds>>

DeleteObject(n, allow) ==
  LET old == names[n] IN
  /\ CheckOverwrite(old, allow)
  /\ old # None
  /\ names' = [names EXCEPT ![n] = None]
  /\ objects' = [objects EXCEPT ![old] = None]
  /\ keys_to_be_deleted' =
       keys_to_be_deleted \union PlacesIn(old, objects[old], Slot)
  /\ UNCHANGED <<minimum_epoch, next_epoch, active_osds>>

\* apply_sequence: puts maps some names to [oid, manifest, epoch], deletes is a
\* set of names; asserts maps names to the object id they must have (None: the
\* name must be free).  All updates are computed on the initial database.
ApplySequence(asserts, puts, deletes) ==
  LET olds == {names[n] : n \in DOMAIN puts \union deletes} \ {None}
  IN
  /\ \A n \in DOMAIN asserts : names[n] = asserts[n]
  /\ \A n \in DOMAIN puts : PutAllowed(puts[n].oid, puts[n].manifest, puts[n].epoch)
  /\ \A n, k \in DOMAIN puts : puts[n].oid = puts[k].oid => n = k
  /\ names' = [n \in Name |-> IF n \in DOMAIN puts THEN puts[n].oid
                              ELSE IF n \in deletes THEN None ELSE names[n]]
  /\ objects' = [i \in ObjectId |->
                   IF \E n \in DOMAIN puts : puts[n].oid = i
                   THEN puts[CHOOSE n \in DOMAIN puts : puts[n].oid = i].manifest
                   ELSE IF i \in olds THEN None ELSE objects[i]]
  /\ keys_to_be_deleted' =
       keys_to_be_deleted \union
         UNION {PlacesIn(i, objects[i], Slot) : i \in olds}
  /\ UNCHANGED <<minimum_epoch, next_epoch, active_osds>>

\* mutant: version 0 (no version bump) is accepted whatever the stored version
VersionAllowedWhenZero(old, v) == v = 0 \/ v = old + 1

\* update_manifest_generic's version check: 0 keeps version 0, anything else
\* must be the next version
VersionAllowed(old, v) == IF v = 0 THEN old = 0 ELSE v = old + 1

\* mutant: only the fragments that get a new osd have their old keys listed
UpdateManifestListingMoved(o, slots, target, e, v) ==
  /\ IsValidEpoch(e)
  /\ Live(o)
  /\ VersionAllowed(objects[o].version_id, v)
  /\ LET m == UpdatedManifest(objects[o], slots, target, v) IN
       /\ FragmentOsdSpread(m)
       /\ OsdsUsed(m) \ OsdsUsed(objects[o]) \subseteq active_osds
       /\ objects' = [objects EXCEPT ![o] = m]
  /\ keys_to_be_deleted' = keys_to_be_deleted \union
       PlacesIn(o, objects[o], {s \in slots : target[s] # None})
  /\ UNCHANGED <<names, minimum_epoch, next_epoch, active_osds>>

\* update_manifest_generic: give the fragments in slots a new osd (or none)
UpdateManifest(o, slots, target, e, v) ==
  /\ IsValidEpoch(e)
  /\ Live(o)
  /\ VersionAllowed(objects[o].version_id, v)
  /\ LET m == UpdatedManifest(objects[o], slots, target, v) IN
       /\ FragmentOsdSpread(m)
       /\ OsdsUsed(m) \ OsdsUsed(objects[o]) \subseteq active_osds
       /\ objects' = [objects EXCEPT ![o] = m]
  /\ keys_to_be_deleted' =
       keys_to_be_deleted \union PlacesIn(o, objects[o], slots)
  /\ UNCHANGED <<names, minimum_epoch, next_epoch, active_osds>>

EnableGcEpoch(e) ==
  /\ e = next_epoch
  /\ e <= MaxEpoch
  /\ next_epoch' = e + 1
  /\ UNCHANGED <<names, objects, minimum_epoch, active_osds, keys_to_be_deleted>>

DisableGcEpoch(e) ==
  /\ e = minimum_epoch
  /\ e < next_epoch
  /\ minimum_epoch' = e + 1
  /\ UNCHANGED <<names, objects, next_epoch, active_osds, keys_to_be_deleted>>

MarkKeysDeleted(places) ==
  /\ keys_to_be_deleted' = keys_to_be_deleted \ places
  /\ UNCHANGED <<names, objects, minimum_epoch, next_epoch, active_osds>>

CleanupOsdKeysToBeDeleted(d) ==
  MarkKeysDeleted({p \in keys_to_be_deleted : p[1] = d})

LinkOsd(d) ==
  /\ active_osds' = active_osds \union {d}
  /\ UNCHANGED <<names, objects, minimum_epoch, next_epoch, keys_to_be_deleted>>

UnlinkOsd(d) ==
  /\ active_osds' = active_osds \ {d}
  /\ UNCHANGED <<names, objects, minimum_epoch, next_epoch, keys_to_be_deleted>>

-----------------------------------------------------------------------------
(* The namespace manager on its own, serving any request a client can make *)

NewManifest(n, t, target) ==
  [name |-> n, version_id |-> 0, timestamp |-> t,
   osd |-> target, version |-> [s \in Slot |-> 0]]

Target == [Slot -> Osd \union {None}]

Uploads ==
  {NewManifest(n, t, target) : n \in Name, t \in Timestamp, target \in Target}

\* the puts one apply_sequence may hold, for the names in `ns`
SequencePuts(ns) ==
  {p \in [ns -> [oid : ObjectId, manifest : Uploads, epoch : 0 .. MaxEpoch]] :
     \A n \in ns : p[n].manifest.name = n}

NsmNext ==
  \/ \E allow \in Overwrite, o \in ObjectId, m \in Uploads, e \in 0 .. MaxEpoch :
       PutObject(allow, o, m, e)
  \/ \E n \in Name, allow \in Overwrite : DeleteObject(n, allow)
  \/ \E ns \in SUBSET Name : \E puts \in SequencePuts(ns) :
       \E dels \in SUBSET (Name \ ns), as \in SUBSET Name :
       \E asserts \in [as -> ObjectId \union {None}] :
         ApplySequence(asserts, puts, dels)
  \/ \E o \in ObjectId, slots \in SUBSET Slot, target \in Target,
        e \in 0 .. MaxEpoch, v \in 0 .. MaxVersion :
       UpdateManifest(o, slots, target, e, v)
  \/ \E e \in 0 .. MaxEpoch : EnableGcEpoch(e)
  \/ \E e \in 0 .. MaxEpoch : DisableGcEpoch(e)
  \/ \E places \in SUBSET keys_to_be_deleted : MarkKeysDeleted(places)
  \/ \E d \in Osd : CleanupOsdKeysToBeDeleted(d)
  \/ \E d \in Osd : LinkOsd(d)
  \/ \E d \in Osd : UnlinkOsd(d)

NsmSpec == NsmInit /\ [][NsmNext]_nsmVars

-----------------------------------------------------------------------------
(* Properties *)

\* place p is where some live manifest says a fragment is stored
Linked(p) ==
  /\ Live(p[2])
  /\ objects[p[2]].osd[p[3]] = p[1]
  /\ objects[p[2]].version[p[3]] = p[4]

\* Keys.names and Keys.objects describe the same objects, whatever sequence of
\* puts, overwrites, deletes, sequences and manifest updates ran (put_object,
\* delete_object, apply_sequence, cleanup_for_object_id): a name leads to a
\* live manifest carrying that name, and every live manifest is the one its
\* name leads to.  A manifest no name leads to could never be read or deleted.
NamesMatchObjects ==
  /\ \A n \in Name : names[n] # None =>
       Live(names[n]) /\ objects[names[n]].name = n
  /\ \A o \in ObjectId : Live(o) => names[objects[o].name] = o

\* No live manifest gives a fragment a version newer than its own version_id
\* (update_manifest_generic stamps the updated fragments with the version_id
\* it stores), so a key of version_id + 1 is never linked yet.
FragmentVersionsBounded ==
  \A o \in ObjectId : Live(o) =>
    \A s \in Slot : objects[o].version[s] <= objects[o].version_id

\* A step never forgets a stored fragment: a place that stops being linked
\* (object deleted or overwritten, fragment moved or dropped) enters
\* keys_to_be_deleted in that same step.
UnlinkedKeysAreListed ==
  [][\A o \in ObjectId : Live(o) =>
       \A p \in PlacesIn(o, objects[o], Slot) :
         Linked(p)' \/ p \in keys_to_be_deleted']_nsmVars

\* The version_id of a live object never goes down and the gc epochs never go
\* back (docs/alba_storage_protocol.txt: "the object version only goes up").
VersionsAndEpochsGrow ==
  [][/\ minimum_epoch <= minimum_epoch' /\ next_epoch <= next_epoch'
     /\ \A o \in ObjectId : (Live(o) /\ Live(o)') =>
          objects[o].version_id <= objects'[o].version_id]_nsmVars
=============================================================================
