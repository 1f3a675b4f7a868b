---------------------------- MODULE FragmentStore ----------------------------
(***************************************************************************)
(* One namespace of the object store: the namespace manager (Nsm) together *)
(* with what is stored on the OSDs and the threads that write, move,       *)
(* collect and clean fragments without coordination:                       *)
(*  - writers (alba_client_upload.ml, repair.ml, maintenance_helper.ml,    *)
(*    maintenance.ml): uploads and their epilogue, object rewrites,        *)
(*    repairs, rebalances and the removal of purged OSDs;                  *)
(*  - collectors (maintenance.ml, garbage_collect_namespace);              *)
(*  - cleaners (maintenance.ml, clean_device_obsolete_keys).               *)
(*                                                                         *)
(* A write travels: it is sent, may land at any later time (even after its *)
(* sender timed out or died) or never.                                     *)
(***************************************************************************)
EXTENDS Nsm

CONSTANTS
  Writer,        \* threads that write fragments
  Collector,     \* garbage collecting threads
  Cleaner,       \* threads that delete obsolete keys
  MinFragments,  \* min_fragment_count of the policy
  MaxAttempts    \* bound: uploads, rewrites, repairs...; a retry comes on top

ASSUME StoreBoundsAssumption ==
  /\ MinFragments \in Nat
  /\ MaxAttempts \in Nat

VARIABLES
  frags,      \* places that hold a fragment
  tags,       \* gc tags on the OSDs: <<place, epoch>>
  sent,       \* history: every write sent, <<place, epoch, attempt>>
  inflight,   \* the writes that did not land (yet)
  attempts,   \* the number of attempts started
  used,       \* history: object ids drawn
  stored,     \* history: object ids that have had a manifest
  retired,    \* unlinked OSDs found free of fragments
  job,        \* per writer: what it is doing
  gc,         \* per collector
  cl          \* per cleaner

storeVars == <<frags, tags, sent, inflight, attempts, used, stored, retired,
               job, gc, cl>>
vars == <<nsmVars, storeVars>>

Job ==
  [pc : {"idle", "put", "epilogue", "done", "update"},
   oid : ObjectId \union {None},   \* the object written or updated
   prev : ObjectId \union {None},  \* the object a rewrite replaces
   retried : BOOLEAN,
   version : Nat,
   epoch : Nat,                    \* gc epoch the fragments are tagged with
   attempt : Nat,
   slots : SUBSET Slot,            \* put: all; epilogue: the ones committed
   target : Target]

IdleJob == [pc |-> "idle", oid |-> None, prev |-> None, retried |-> FALSE,
            version |-> 0, epoch |-> 0, attempt |-> 0, slots |-> {},
            target |-> [s \in Slot |-> None]]

Tag == Place \X Nat

GcState ==
  [pc : {"idle", "disabling", "collecting", "deleting"},
   epoch : Nat,             \* latest_gc_epoch: collect up to here
   cur : Nat,               \* the next epoch to disable
   listed : SUBSET Tag,     \* the batch of tags read from an OSD
   pick : SUBSET Tag,       \* the tag being handled (a singleton)
   live : BOOLEAN]          \* the manifest read links the tag's fragment

IdleGc == [pc |-> "idle", epoch |-> 0, cur |-> 0, listed |-> {}, pick |-> {},
           live |-> FALSE]

ClState == [pc : {"idle", "delete", "mark"}, keys : SUBSET Place]

IdleCl == [pc |-> "idle", keys |-> {}]

StoreTypeOK ==
  /\ NsmTypeOK
  /\ frags \subseteq Place
  /\ tags \subseteq Tag
  /\ sent \subseteq Place \X Nat \X Nat
  /\ inflight \subseteq sent
  /\ attempts \in Nat
  /\ used \subseteq ObjectId
  /\ stored \subseteq ObjectId
  /\ retired \subseteq Osd
  /\ job \in [Writer -> Job]
  /\ gc \in [Collector -> GcState]
  /\ cl \in [Cleaner -> ClState]

\* a namespace whose OSDs have all been linked
Init ==
  /\ names = [n \in Name |-> None]
  /\ objects = [o \in ObjectId |-> None]
  /\ minimum_epoch = 0 /\ next_epoch = 1
  /\ active_osds = Osd
  /\ keys_to_be_deleted = {}
  /\ frags = {} /\ tags = {} /\ sent = {} /\ inflight = {}
  /\ attempts = 0
  /\ used = {} /\ stored = {} /\ retired = {}
  /\ job = [w \in Writer |-> IdleJob]
  /\ gc = [g \in Collector |-> IdleGc]
  /\ cl = [c \in Cleaner |-> IdleCl]

-----------------------------------------------------------------------------
(* OSDs *)

\* mutant: the gc tag is not part of the sequence
OsdWriteUntagged(m) ==
  /\ m \in inflight
  /\ inflight' = inflight \ {m}
  /\ frags' = frags \union {m[1]}
  /\ UNCHANGED <<nsmVars, tags, sent, attempts, used, stored, retired, job, gc, cl>>

\* upload_packed_fragment_data: data, recovery info and gc tag in one sequence.
\* What with_osd sends again after an End_of_file is the same write once more,
\* within the attempt; it is not a second message here.
OsdWrite(m) ==
  /\ m \in inflight
  /\ inflight' = inflight \ {m}
  /\ frags' = frags \union {m[1]}
  /\ tags' = tags \union {<<m[1], m[2]>>}
  /\ UNCHANGED <<nsmVars, sent, attempts, used, stored, retired, job, gc, cl>>

-----------------------------------------------------------------------------
(* Writers *)

\* the place job j stores the fragment of slot s at
JobPlace(j, s) == <<j.target[s], j.oid, s, j.version>>

Writes(j) ==
  {<<JobPlace(j, s), j.epoch, j.attempt>> : s \in {t \in Slot : j.target[t] # None}}

\* the slots whose write the client has seen succeed
Acked(j) ==
  {s \in Slot : /\ j.target[s] # None
                /\ <<JobPlace(j, s), j.epoch, j.attempt>> \notin inflight}

\* nsm_host_access get_gc_epoch: the latest valid epoch of a cached GcEpochs
CachedEpoch == 0 .. (next_epoch - 1)

\* choose_devices: distinct osds, the same ones for every chunk; the fragments
\* no osd can be found for get none
UploadTarget ==
  {t \in Target : /\ FragmentOsdSpread([osd |-> t])
                  /\ \A r, s \in Slot : r[2] = s[2] => t[r] = t[s]}

\* start an attempt: all its writes are sent
Begin(w, j) ==
  /\ attempts' = attempts + 1
  /\ job' = [job EXCEPT ![w] = j]
  /\ sent' = sent \union Writes(j)
  /\ inflight' = inflight \union Writes(j)
  /\ UNCHANGED <<nsmVars, frags, tags, stored, retired, gc, cl>>

PutJob(o, prev, retried, e, t) ==
  [pc |-> "put", oid |-> o, prev |-> prev, retried |-> retried, version |-> 0,
   epoch |-> e, attempt |-> attempts, slots |-> Slot, target |-> t]

\* upload_object'': a random object id
StartUpload(w) ==
  /\ job[w].pc = "idle" /\ attempts < MaxAttempts
  /\ \E o \in ObjectId \ used, e \in CachedEpoch, t \in UploadTarget :
       /\ Begin(w, PutJob(o, None, FALSE, e, t))
       /\ used' = used \union {o}

\* repair.ml rewrite_object: upload under a random id given as a hint, to
\* replace exactly the object that was read
StartRewrite(w) ==
  /\ job[w].pc = "idle" /\ attempts < MaxAttempts
  /\ \E o \in ObjectId \ used, prev \in ObjectId, e \in CachedEpoch, t \in UploadTarget :
       /\ Live(prev)
       /\ Begin(w, PutJob(o, prev, FALSE, e, t))
       /\ used' = used \union {o}

\* _upload_with_retry: the second attempt of a rewrite keeps the hinted id; the
\* first one failed, or its put_object succeeded and the answer was lost
RetryRewrite(w) ==
  /\ job[w].pc \in {"put", "epilogue"}
  /\ job[w].prev # None
  /\ ~job[w].retried
  /\ \E e \in CachedEpoch, t \in UploadTarget :
       Begin(w, PutJob(job[w].oid, job[w].prev, TRUE, e, t))
  /\ UNCHANGED used

\* first_n: enough fragments of every chunk have been stored
EnoughStored(done) ==
  \A c \in Chunk :
    Cardinality({f \in Fragment : <<c, f>> \in done}) >= MinFragments

\* mutant: a rewrite overwrites whatever the name has become
CommitUploadUnconditionally(w) ==
  LET j == job[w] IN
  /\ j.pc = "put"
  /\ \E done \in SUBSET Acked(j), n \in Name, t \in Timestamp :
       LET target == [s \in Slot |-> IF s \in done THEN j.target[s] ELSE None] IN
       /\ EnoughStored(done)
       /\ PutObject([kind |-> "Unconditionally", id |-> None], j.oid,
                    NewManifest(n, t, target), j.epoch)
       /\ job' = [job EXCEPT ![w].pc = "epilogue", ![w].slots = done]
       /\ stored' = stored \union {j.oid}
  /\ UNCHANGED <<frags, tags, sent, inflight, attempts, used, retired, gc, cl>>

\* store_manifest: put_object with the fragments stored so far
CommitUpload(w) ==
  LET j == job[w] IN
  /\ j.pc = "put"
  /\ \E done \in SUBSET Acked(j) :
       LET target == [s \in Slot |-> IF s \in done THEN j.target[s] ELSE None] IN
       /\ EnoughStored(done)
       /\ \/ /\ j.prev = None
             /\ \E allow \in Overwrite, n \in Name, t \in Timestamp :
                  PutObject(allow, j.oid, NewManifest(n, t, target), j.epoch)
          \/ /\ j.prev # None
             /\ Live(j.prev)
             /\ PutObject([kind |-> "PreviousObjectId", id |-> j.prev], j.oid,
                          NewManifest(objects[j.prev].name,
                                      objects[j.prev].timestamp, target),
                          j.epoch)
       /\ job' = [job EXCEPT ![w].pc = "epilogue", ![w].slots = done]
       /\ stored' = stored \union {j.oid}
  /\ UNCHANGED <<frags, tags, sent, inflight, attempts, used, retired, gc, cl>>

\* cleanup_gc_tags, for one committed fragment
CleanupGcTag(w) ==
  LET j == job[w] IN
  /\ j.pc \in {"epilogue", "done"}
  /\ \E s \in j.slots : tags' = tags \ {<<JobPlace(j, s), j.epoch>>}
  /\ UNCHANGED <<nsmVars, frags, sent, inflight, attempts, used, stored,
                 retired, job, gc, cl>>

\* upload_epilogue: add the fragments that were stored late
Epilogue(w) ==
  LET j == job[w] IN
  /\ j.pc = "epilogue"
  /\ \E late \in SUBSET (Acked(j) \ j.slots) :
       /\ late # {}
       /\ UpdateManifest(j.oid, late, j.target, j.epoch, 0)
  /\ job' = [job EXCEPT ![w].pc = "done"]
  /\ UNCHANGED <<frags, tags, sent, inflight, attempts, used, stored, retired,
                 gc, cl>>

\* mutant: an update writes under the version the manifest already has
UpdateJobSameVersion(o, slots, e, t) ==
  [pc |-> "update", oid |-> o, prev |-> None, retried |-> FALSE,
   version |-> objects[o].version_id, epoch |-> e, attempt |-> attempts,
   slots |-> slots, target |-> t]

UpdateJob(o, slots, e, t) ==
  [pc |-> "update", oid |-> o, prev |-> None, retried |-> FALSE,
   version |-> objects[o].version_id + 1, epoch |-> e, attempt |-> attempts,
   slots |-> slots, target |-> t]

StartUpdate(w, o, slots, t) ==
  /\ job[w].pc = "idle" /\ attempts < MaxAttempts
  /\ objects[o].version_id < MaxVersion
  /\ \E e \in CachedEpoch : Begin(w, UpdateJob(o, slots, e, t))
  /\ UNCHANGED used

\* repair_object_generic: regenerate some fragments on OSDs that do not hold a
\* healthy fragment of their chunk
StartRepair(w) ==
  \E o \in ObjectId, slots \in SUBSET Slot : \E t \in Target :
    /\ Live(o)
    /\ slots # {}
    /\ \A s \in Slot : s \in slots <=> t[s] # None
    /\ FragmentOsdSpread(UpdatedManifest(objects[o], slots, t, 0))
    /\ StartUpdate(w, o, slots, t)

\* rebalance_object: copy, for every chunk, the fragment on source to target,
\* an OSD the object does not use
StartRebalance(w) ==
  \E o \in ObjectId, source, target \in Osd :
    /\ Live(o)
    /\ target \notin OsdsUsed(objects[o])
    /\ \A c \in Chunk : \E f \in Fragment : objects[o].osd[<<c, f>>] = source
    /\ LET slots == {s \in Slot : objects[o].osd[s] = source} IN
         StartUpdate(w, o, slots,
                     [s \in Slot |-> IF s \in slots THEN target ELSE None])

\* decommission_device' on purging OSDs: drop the fragments, nothing is written
StartPurge(w) ==
  \E o \in ObjectId, purging \in SUBSET Osd :
    /\ Live(o)
    /\ purging \intersect OsdsUsed(objects[o]) # {}
    /\ StartUpdate(w, o, {s \in Slot : objects[o].osd[s] \in purging},
                   [s \in Slot |-> None])

\* repair_object_generic_and_update_manifest, and its likes: all writes were
\* acknowledged, update the manifest
FinishUpdate(w) ==
  LET j == job[w] IN
  /\ j.pc = "update"
  /\ {s \in j.slots : j.target[s] # None} \subseteq Acked(j)
  /\ UpdateManifest(j.oid, j.slots, j.target, j.epoch, j.version)
  /\ job' = [job EXCEPT ![w] = IdleJob]
  /\ UNCHANGED <<frags, tags, sent, inflight, attempts, used, stored, retired,
                 gc, cl>>

\* the job fails, times out or ends, or its process dies
Abandon(w) ==
  /\ job[w].pc # "idle"
  /\ job' = [job EXCEPT ![w] = IdleJob]
  /\ UNCHANGED <<nsmVars, frags, tags, sent, inflight, attempts, used, stored,
                 retired, gc, cl>>

-----------------------------------------------------------------------------
(* Collectors *)

gcRest == <<frags, sent, inflight, attempts, used, stored, retired, job, cl>>

\* bump_epoch up to enable_gc_epoch; cached is the minimum_epoch of the cached
\* GcEpochs (a stale next_epoch makes enable_gc_epoch fail)
GcEnable(g) ==
  /\ gc[g].pc = "idle"
  /\ \E cached \in 0 .. minimum_epoch :
       /\ cached <= next_epoch - 1
       /\ gc' = [gc EXCEPT ![g] = [IdleGc EXCEPT !.pc = "disabling",
                                                 !.epoch = next_epoch - 1,
                                                 !.cur = cached]]
  /\ EnableGcEpoch(next_epoch)
  /\ UNCHANGED <<tags, gcRest>>

\* mutant: the epoch just enabled is disabled too
GcDisableTooMany(g) ==
  /\ gc[g].pc = "disabling"
  /\ gc[g].cur <= gc[g].epoch + 1
  /\ DisableGcEpoch(gc[g].cur)
  /\ gc' = [gc EXCEPT ![g].cur = @ + 1]
  /\ UNCHANGED <<tags, gcRest>>

\* disable_old_epochs, one epoch; Invalid_gc_epoch ends the round
GcDisable(g) ==
  /\ gc[g].pc = "disabling"
  /\ gc[g].cur <= gc[g].epoch
  /\ \/ /\ DisableGcEpoch(gc[g].cur)
        /\ gc' = [gc EXCEPT ![g].cur = @ + 1]
     \/ /\ gc[g].cur # minimum_epoch
        /\ gc' = [gc EXCEPT ![g] = IdleGc]
        /\ UNCHANGED nsmVars
  /\ UNCHANGED <<tags, gcRest>>

\* mutant: collect before the old epochs are disabled
GcListEarly(g, d) ==
  /\ gc[g].pc \in {"disabling", "collecting"}
  /\ gc' = [gc EXCEPT
       ![g].pc = "collecting",
       ![g].listed = {t \in tags : t[1][1] = d /\ t[2] <= gc[g].epoch}]
  /\ UNCHANGED <<nsmVars, tags, gcRest>>

\* garbage_collect_device: read a batch of tags of the epochs to collect
GcList(g, d) ==
  /\ \/ gc[g].pc = "disabling" /\ gc[g].cur > gc[g].epoch
     \/ gc[g].pc = "collecting" /\ gc[g].listed = {}
  /\ gc' = [gc EXCEPT
       ![g].pc = "collecting",
       ![g].listed = {t \in tags : t[1][1] = d /\ t[2] <= gc[g].epoch}]
  /\ UNCHANGED <<nsmVars, tags, gcRest>>

\* get_object_manifest_by_id, for the next tag of the batch
GcRead(g) ==
  /\ gc[g].pc = "collecting"
  /\ \E t \in gc[g].listed :
       gc' = [gc EXCEPT ![g].pc = "deleting",
                        ![g].listed = @ \ {t},
                        ![g].pick = {t},
                        ![g].live = Linked(t[1])]
  /\ UNCHANGED <<nsmVars, tags, gcRest>>

\* mutant: the tag of a linked fragment is left behind
GcDeleteKeepingTag(g) ==
  /\ gc[g].pc = "deleting"
  /\ tags' = IF gc[g].live THEN tags ELSE tags \ gc[g].pick
  /\ frags' = IF gc[g].live THEN frags ELSE frags \ {t[1] : t \in gc[g].pick}
  /\ gc' = [gc EXCEPT ![g].pc = "collecting", ![g].pick = {}, ![g].live = FALSE]
  /\ UNCHANGED <<nsmVars, sent, inflight, attempts, used, stored, retired, job, cl>>

\* cleanup_gc_epoch_tag when the fragment is linked; else cleanup_fragment,
\* which the OSD only applies while that tag is there
GcDelete(g) ==
  /\ gc[g].pc = "deleting"
  /\ tags' = tags \ gc[g].pick
  /\ frags' = IF gc[g].live \/ ~(gc[g].pick \subseteq tags)
              THEN frags
              ELSE frags \ {t[1] : t \in gc[g].pick}
  /\ gc' = [gc EXCEPT ![g].pc = "collecting", ![g].pick = {}, ![g].live = FALSE]
  /\ UNCHANGED <<nsmVars, sent, inflight, attempts, used, stored, retired, job, cl>>

\* the round is over, fails, or its process dies
GcAbandon(g) ==
  /\ gc[g].pc # "idle"
  /\ gc' = [gc EXCEPT ![g] = IdleGc]
  /\ UNCHANGED <<nsmVars, tags, gcRest>>

-----------------------------------------------------------------------------
(* Cleaners: clean_device_obsolete_keys *)

clRest == <<tags, sent, inflight, attempts, used, stored, retired, job, gc>>

CleanList(c, d) ==
  LET keys == {p \in keys_to_be_deleted : p[1] = d} IN
  /\ cl[c].pc = "idle"
  /\ keys # {}
  /\ cl' = [cl EXCEPT ![c] = [pc |-> "delete", keys |-> keys]]
  /\ UNCHANGED <<nsmVars, frags, clRest>>

\* mutant: the keys are marked although the OSD did not delete them
CleanDeleteUnanswered(c) ==
  /\ cl[c].pc = "delete"
  /\ cl' = [cl EXCEPT ![c].pc = "mark"]
  /\ UNCHANGED <<nsmVars, frags, clRest>>

CleanDelete(c) ==
  /\ cl[c].pc = "delete"
  /\ frags' = frags \ cl[c].keys
  /\ cl' = [cl EXCEPT ![c].pc = "mark"]
  /\ UNCHANGED <<nsmVars, clRest>>

\* mutant: the keys are deleted but not marked
CleanMarkNothing(c) ==
  /\ cl[c].pc = "mark"
  /\ cl' = [cl EXCEPT ![c] = IdleCl]
  /\ UNCHANGED <<nsmVars, frags, clRest>>

CleanMark(c) ==
  /\ cl[c].pc = "mark"
  /\ MarkKeysDeleted(cl[c].keys)
  /\ cl' = [cl EXCEPT ![c] = IdleCl]
  /\ UNCHANGED <<frags, clRest>>

CleanAbandon(c) ==
  /\ cl[c].pc # "idle"
  /\ cl' = [cl EXCEPT ![c] = IdleCl]
  /\ UNCHANGED <<nsmVars, frags, clRest>>

-----------------------------------------------------------------------------
(* Clients that delete, and the decommissioning of an OSD *)

ClientDelete ==
  /\ \E n \in Name, allow \in Overwrite : DeleteObject(n, allow)
  /\ UNCHANGED storeVars

\* the UnlinkOsd message reaches the namespace manager
DecommissionOsd(d) ==
  /\ d \in active_osds
  /\ UnlinkOsd(d)
  /\ UNCHANGED storeVars

\* WaitUntilRepaired: no object has a fragment on the OSD any more
OsdRepaired(d) ==
  /\ d \notin active_osds \union retired
  /\ \A o \in ObjectId : Live(o) => d \notin OsdsUsed(objects[o])
  /\ retired' = retired \union {d}
  /\ UNCHANGED <<nsmVars, frags, tags, sent, inflight, attempts, used, stored,
                 job, gc, cl>>

\* CleanupNamespaceOsd
CleanupNamespaceOsd(d) ==
  /\ d \in retired
  /\ CleanupOsdKeysToBeDeleted(d)
  /\ UNCHANGED storeVars

\* CleanupOsdNamespace: the OSD deletes everything of the namespace
CleanupOsdNamespace(d) ==
  /\ d \in retired
  /\ frags' = {p \in frags : p[1] # d}
  /\ tags' = {t \in tags : t[1][1] # d}
  /\ UNCHANGED <<nsmVars, sent, inflight, attempts, used, stored, retired, job,
                 gc, cl>>

-----------------------------------------------------------------------------

WriterStep(w) ==
  \/ StartUpload(w) \/ StartRewrite(w) \/ RetryRewrite(w) \/ CommitUpload(w)
  \/ CleanupGcTag(w) \/ Epilogue(w)
  \/ StartRepair(w) \/ StartRebalance(w) \/ StartPurge(w) \/ FinishUpdate(w)
  \/ Abandon(w)

CollectorStep(g) ==
  \/ GcEnable(g) \/ GcDisable(g) \/ GcRead(g) \/ GcDelete(g) \/ GcAbandon(g)
  \/ \E d \in Osd : GcList(g, d)

CleanerStep(c) ==
  \/ CleanDelete(c) \/ CleanMark(c) \/ CleanAbandon(c)
  \/ \E d \in Osd : CleanList(c, d)

OsdStep(d) ==
  \/ DecommissionOsd(d) \/ OsdRepaired(d)
  \/ CleanupNamespaceOsd(d) \/ CleanupOsdNamespace(d)

Next ==
  \/ \E m \in inflight : OsdWrite(m)
  \/ \E w \in Writer : WriterStep(w)
  \/ \E g \in Collector : CollectorStep(g)
  \/ \E c \in Cleaner : CleanerStep(c)
  \/ \E d \in Osd : OsdStep(d)
  \/ ClientDelete

Spec == Init /\ [][Next]_vars

\* collector g's garbage_collect_device thread of OSD d is under way
VisitsOsd(g, d) == \E t \in gc[g].listed \union gc[g].pick : t[1][1] = d

\* Maintenance never gives up, on the OSDs it goes round: get_namespace_info
\* names the active ones.  The cleaners come by each of them again and again,
\* and a round is not interrupted every time.  A collector that runs goes
\* through its batch, and comes by every active OSD on which no earlier thread
\* still runs.  Nothing is assumed of an OSD that was decommissioned.
Fairness ==
  /\ \A c \in Cleaner :
       /\ SF_vars(CleanDelete(c)) /\ SF_vars(CleanMark(c))
       /\ \A d \in Osd : SF_vars(d \in active_osds /\ CleanList(c, d))
  /\ \A g \in Collector :
       /\ WF_vars(GcRead(g)) /\ WF_vars(GcDelete(g))
       /\ \A d \in Osd :
            SF_vars(/\ d \in active_osds
                    /\ \A h \in Collector : ~VisitsOsd(h, d)
                    /\ GcList(g, d))

FairSpec == Spec /\ Fairness

-----------------------------------------------------------------------------
(* Properties *)

\* "all fragments linked from the manifest should exist"
\* (docs/alba_storage_protocol.txt:15): no interleaving of uploads, repairs,
\* collectors and cleaners deletes a fragment a live manifest refers to.
LinkedFragmentsExist ==
  \A o \in ObjectId : Live(o) => PlacesIn(o, objects[o], Slot) \subseteq frags

\* more than one attempt sent a write to place p
Rewritten(p) == \E m, n \in sent : m[1] = p /\ n[1] = p /\ m[3] # n[3]

\* LinkedFragmentsExist for the places only one attempt ever wrote to: the gc
\* epoch check of put_object and update_manifest and the version in the
\* fragment key protect them from collectors and cleaners however late those
\* act on what they read.
LinkedFragmentsWrittenOnceExist ==
  \A o \in ObjectId : Live(o) =>
    \A p \in PlacesIn(o, objects[o], Slot) : p \in frags \/ Rewritten(p)

\* "we will only issue deletes for fragments [...] which can never again be
\* included in this manifest" (docs/alba_storage_protocol.txt:55): no key the
\* namespace manager lists for deletion, and no key in the list a cleaner read
\* earlier and still acts on, is linked.
ListedKeysAreUnlinked ==
  /\ \A p \in keys_to_be_deleted : ~Linked(p)
  /\ \A c \in Cleaner : \A p \in cl[c].keys : ~Linked(p)

\* "all fragments that will never (again) be referenced from the manifest
\* should eventually be deleted" (docs/alba_storage_protocol.txt:22), its
\* safety part: a fragment on an OSD that is still in use is linked, listed for
\* deletion, or carries a gc tag by which a collector finds it.
NoUntrackedGarbage ==
  \A p \in frags :
    \/ Linked(p)
    \/ p \in keys_to_be_deleted
    \/ \E t \in tags : t[1] = p
    \/ Rewritten(p)
    \/ p[1] \in retired

\* Collectors never leave uploads without an epoch to use: they enable the next
\* epoch before they disable the old ones, and racing collectors with stale
\* cached epochs do not disable the newest one (bump_epoch).
LatestEpochIsValid == IsValidEpoch(next_epoch - 1)

\* A collector only deletes what it found in epochs no upload or repair can
\* commit with any more: the sanity check `assert (not (is_valid_epoch
\* gc_epochs latest_gc_epoch))` of bump_epoch stays true for as long as the
\* collector uses latest_gc_epoch.
CollectedEpochsAreClosed ==
  \A g \in Collector : gc[g].pc \in {"collecting", "deleting"} =>
    gc[g].epoch < minimum_epoch

\* An OSD found free of fragments after it was unlinked never gets linked from
\* a manifest again, so that deleting its namespace loses nothing.
RetiredOsdsStayUnused ==
  \A d \in retired : \A o \in ObjectId : Live(o) => d \notin OsdsUsed(objects[o])

\* "all fragments that will never (again) be referenced from the manifest
\* should eventually be deleted" (docs/alba_storage_protocol.txt:22): whatever
\* is listed for deletion on an OSD leaves the list, which a cleaner only lets
\* it do after the OSD deleted the fragment, even if cleaners keep dying half
\* way.  This holds as long as the OSD is active: clean_obsolete_keys_namespace
\* visits no other, and CleanupNamespaceOsd drops the list of one that left.
ListedKeysGetDeleted ==
  \A d \in Osd, o \in ObjectId, s \in Slot, v \in 0 .. MaxVersion :
    <<d, o, s, v>> \in keys_to_be_deleted
      ~> (<<d, o, s, v>> \notin keys_to_be_deleted \/ d \notin active_osds)

\* The same for what no manifest ever listed: a collector that got to the point
\* of collecting handles every tag of the epochs it closed, unless its round is
\* over or fails (the next round collects all older epochs again), the OSD is
\* no longer active, or garbage_collect_namespace skips the OSD because the
\* thread of another round is still at work there.
ClosedEpochsGetCollected ==
  \A g \in Collector :
    \A d \in Osd, o \in ObjectId, s \in Slot, v \in 0 .. MaxVersion, e \in 0 .. MaxEpoch :
      LET t == <<<<d, o, s, v>>, e>> IN
      (t \in tags /\ gc[g].pc = "collecting" /\ e <= gc[g].epoch)
        ~> \/ t \notin tags
           \/ gc[g].pc = "idle"
           \/ d \notin active_osds
           \/ \E h \in Collector \ {g} : VisitsOsd(h, d)

-----------------------------------------------------------------------------
(* The inductive invariant behind the properties *)

Landed == sent \ inflight

\* object p[2] has had a manifest and no later one can link place p
Dead(p) ==
  /\ p[2] \in stored
  /\ Live(p[2]) => p[4] < objects[p[2]].version_id /\ ~Linked(p)

\* place p needs no gc tag
Tracked(p) ==
  Linked(p) \/ p \in keys_to_be_deleted \/ Rewritten(p) \/ p[1] \in retired

EpochInv ==
  /\ minimum_epoch < next_epoch
  /\ \A g \in Collector :
       /\ gc[g].pc # "idle" => gc[g].epoch + 1 < next_epoch
       /\ gc[g].pc = "disabling" => gc[g].cur <= minimum_epoch
       /\ gc[g].pc \in {"collecting", "deleting"} => gc[g].epoch < minimum_epoch

\* an attempt uses one epoch
SentInv ==
  /\ \A m \in sent : m[3] < attempts
  /\ \A m, n \in sent : m[3] = n[3] => m[2] = n[2]

StoredInv ==
  /\ stored \subseteq used
  /\ \A o \in ObjectId : Live(o) => o \in stored

Uploading(w) == job[w].pc \in {"put", "epilogue", "done"}

JobInv ==
  \A w \in Writer :
    /\ job[w].pc # "idle" => job[w].oid \in ObjectId /\ Writes(job[w]) \subseteq sent
    /\ job[w].pc = "update" =>
         /\ job[w].version > 0
         /\ \A s \in Slot : job[w].target[s] # None => s \in job[w].slots
    /\ Uploading(w) =>
         /\ job[w].version = 0
         /\ job[w].oid \in used
         /\ job[w].prev # None => job[w].prev \in stored
         /\ \A x \in Writer \ {w} : Uploading(x) => job[x].oid # job[w].oid
    /\ (\/ job[w].pc = "put" /\ job[w].oid \in stored
        \/ job[w].pc = "epilogue") /\ job[w].prev # None =>
         ~Live(job[w].prev)
    /\ job[w].pc = "put" /\ job[w].oid \in stored => job[w].prev # None
    /\ job[w].pc \in {"epilogue", "done"} =>
         /\ job[w].oid \in stored
         /\ job[w].slots \subseteq Acked(job[w])
    /\ job[w].pc = "epilogue" /\ Live(job[w].oid) =>
         \/ objects[job[w].oid].version_id > 0
         \/ \A s \in Slot \ job[w].slots : objects[job[w].oid].osd[s] = None

\* keys to be deleted are dead and were written
ObsoleteInv ==
  /\ \A p \in keys_to_be_deleted : Dead(p) /\ \E m \in Landed : m[1] = p
  /\ \A c \in Cleaner : \A p \in cl[c].keys : Dead(p) /\ \E m \in Landed : m[1] = p

LinkedInv ==
  \A o \in ObjectId : Live(o) =>
    \A p \in PlacesIn(o, objects[o], Slot) : \E m \in Landed : m[1] = p

\* a fragment that was written once and is gone cannot be committed any more
RemovedInv ==
  \A m \in Landed :
    \/ m[1] \in frags
    \/ Rewritten(m[1])
    \/ Dead(m[1])
    \/ m[2] < minimum_epoch
    \/ m[1][1] \in retired

TagInv ==
  /\ \A t \in tags : \E m \in Landed : m[1] = t[1] /\ m[2] = t[2]
  /\ \A g \in Collector : \A t \in gc[g].listed \union gc[g].pick :
       /\ t[2] <= gc[g].epoch
       /\ \E m \in Landed : m[1] = t[1] /\ m[2] = t[2]
  /\ \A g \in Collector : gc[g].pc # "deleting" => gc[g].pick = {}
  /\ \A g \in Collector : \A t, u \in gc[g].pick : t = u
  /\ \A g \in Collector : gc[g].pc \in {"idle", "disabling"} => gc[g].listed = {}

\* what a collector is about to delete stays deletable
PickInv ==
  \A g \in Collector : \A t \in gc[g].pick :
    IF gc[g].live THEN t[1] \in frags => Tracked(t[1])
                  ELSE Linked(t[1]) => Rewritten(t[1])

\* untagging and marking leave no untracked fragment behind
GarbageInv ==
  /\ \A c \in Cleaner : cl[c].pc = "mark" =>
       \A p \in cl[c].keys : p \in frags => Rewritten(p)
  /\ \A w \in Writer : job[w].pc \in {"epilogue", "done"} =>
       \A s \in job[w].slots :
         JobPlace(job[w], s) \in frags => Tracked(JobPlace(job[w], s))

RetiredInv ==
  /\ retired \intersect active_osds = {}
  /\ RetiredOsdsStayUnused

StoreInv ==
  /\ StoreTypeOK
  /\ NamesMatchObjects
  /\ FragmentVersionsBounded
  /\ EpochInv
  /\ SentInv
  /\ StoredInv
  /\ JobInv
  /\ ObsoleteInv
  /\ LinkedInv
  /\ RemovedInv
  /\ TagInv
  /\ PickInv
  /\ RetiredInv
  /\ LinkedFragmentsWrittenOnceExist
  /\ GarbageInv
  /\ NoUntrackedGarbage
=============================================================================
