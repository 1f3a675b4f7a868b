------------------------ MODULE FragmentStoreProofs ------------------------
(***************************************************************************)
(* What TLAPS proves about the fragment store: StoreInv is inductive, and  *)
(* implies the safety properties of FragmentStore, for any number of       *)
(* objects, OSDs, fragments, writers, collectors and cleaners.             *)
(*                                                                         *)
(* First come the steps that are not a writer's.  Some leave the manifests *)
(* alone: a write lands on an OSD, a cleaner deletes listed keys, a        *)
(* collector opens, closes and collects an epoch.  MetadataInv is for any  *)
(* change of the manifests; its first instance is a client that deletes an *)
(* object.  Then come the steps of the writers (the end of an upload, a    *)
(* manifest update, and those that start, tidy up or stop) and the         *)
(* theorems.                                                               *)
(***************************************************************************)
EXTENDS FragmentStore, NsmProofs

-----------------------------------------------------------------------------
(* Places, manifests and writes *)

\* the places a manifest links, by their coordinates
LEMMA PlacesInMember ==
  ASSUME NEW o \in ObjectId, NEW m \in Manifest, NEW slots \in SUBSET Slot,
         NEW p \in Place
  PROVE  p \in PlacesIn(o, m, slots) <=>
           /\ p[2] = o
           /\ p[3] \in slots
           /\ m.osd[p[3]] = p[1]
           /\ m.version[p[3]] = p[4]
<1>1. p[1] # None
  BY NoneAssumption, Zenon DEF Place
<1> QED
  BY <1>1 DEF PlacesIn, Place, Manifest

\* the linked places are the places of the live manifests
LEMMA LinkedPlaces ==
  ASSUME NsmTypeOK, NEW p \in Place
  PROVE  Linked(p) <=> Live(p[2]) /\ p \in PlacesIn(p[2], objects[p[2]], Slot)
<1>1. p[2] \in ObjectId /\ p[3] \in Slot
  BY Zenon DEF Place
<1>2. Live(p[2]) => objects[p[2]] \in Manifest
  BY <1>1, Zenon DEF NsmTypeOK, Live
<1> QED
  BY <1>1, <1>2, PlacesInMember DEF Linked

\* the places of a live manifest, one object at a time
LEMMA LivePlaces ==
  ASSUME NsmTypeOK, NEW o \in ObjectId, Live(o), NEW p \in PlacesIn(o, objects[o], Slot)
  PROVE  p \in Place /\ p[2] = o /\ Linked(p)
<1>1. objects[o] \in Manifest
  BY Zenon DEF NsmTypeOK, Live
<1>2. p \in Place
  BY <1>1, PlacesInType, Zenon
<1> QED
  BY <1>1, <1>2, PlacesInMember DEF Linked

\* two different writes to one place come from two attempts
LEMMA TwoWrites ==
  ASSUME sent \subseteq Place \X Nat \X Nat, SentInv,
         NEW m \in sent, NEW n \in sent, m[1] = n[1], m # n
  PROVE  Rewritten(m[1])
<1>1. m = <<m[1], m[2], m[3]>> /\ n = <<n[1], n[2], n[3]>>
  OBVIOUS
<1>2. m[3] # n[3]
  BY <1>1, Zenon DEF SentInv
<1> QED
  BY <1>2, Zenon DEF Rewritten

\* what was rewritten stays rewritten
LEMMA RewrittenGrows ==
  ASSUME sent \subseteq sent', NEW p, Rewritten(p)
  PROVE  Rewritten(p)'
BY Zenon DEF Rewritten

\* the coordinates of the place a job writes to
LEMMA JobPlaceType ==
  ASSUME NEW j \in Job, NEW s \in Slot, j.target[s] # None, j.oid # None
  PROVE  /\ JobPlace(j, s) \in Place
         /\ JobPlace(j, s)[1] = j.target[s]
         /\ JobPlace(j, s)[2] = j.oid
         /\ JobPlace(j, s)[3] = s
         /\ JobPlace(j, s)[4] = j.version
BY Zenon DEF JobPlace, Place, Job, Target

\* the invariants about linked fragments, place by place
LEMMA LinkedByPlace ==
  ASSUME NsmTypeOK, NEW p \in Place, Linked(p)
  PROVE  /\ LinkedInv => \E m \in Landed : m[1] = p
         /\ LinkedFragmentsWrittenOnceExist => p \in frags \/ Rewritten(p)
         /\ RetiredInv => p[1] \notin retired
<1>1. p[1] \in Osd /\ p[2] \in ObjectId /\ p[3] \in Slot /\ Live(p[2])
  BY Zenon DEF Place, Linked
<1>2. p \in PlacesIn(p[2], objects[p[2]], Slot)
  BY LinkedPlaces, Zenon
<1>3. p[1] \in OsdsUsed(objects[p[2]])
  BY <1>1, Zenon DEF Linked, OsdsUsed
<1> QED
  BY <1>1, <1>2, <1>3, Zenon
  DEF LinkedInv, LinkedFragmentsWrittenOnceExist, RetiredInv, RetiredOsdsStayUnused

\* and back, after a step
LEMMA LinkedInvNext ==
  ASSUME NsmTypeOK', \A p \in Place : Linked(p)' => \E m \in Landed' : m[1] = p
  PROVE  LinkedInv'
<1> SUFFICES ASSUME NEW o \in ObjectId, Live(o)', NEW p \in PlacesIn(o, objects[o], Slot)'
             PROVE  \E m \in Landed' : m[1] = p
  BY Zenon DEF LinkedInv
<1>1. objects'[o] \in Manifest
  BY Zenon DEF NsmTypeOK, Live
<1>2. p \in Place
  BY <1>1, PlacesInType, Zenon DEF PlacesIn
<1>3. Linked(p)'
  BY <1>1, <1>2 DEF PlacesIn, Linked, Live
<1> QED
  BY <1>2, <1>3, Zenon

LEMMA LinkedFragmentsNext ==
  ASSUME NsmTypeOK', \A p \in Place : Linked(p)' => p \in frags' \/ Rewritten(p)'
  PROVE  LinkedFragmentsWrittenOnceExist'
<1> SUFFICES ASSUME NEW o \in ObjectId, Live(o)', NEW p \in PlacesIn(o, objects[o], Slot)'
             PROVE  p \in frags' \/ Rewritten(p)'
  BY Zenon DEF LinkedFragmentsWrittenOnceExist
<1>1. objects'[o] \in Manifest
  BY Zenon DEF NsmTypeOK, Live
<1>2. p \in Place
  BY <1>1, PlacesInType, Zenon DEF PlacesIn
<1>3. Linked(p)'
  BY <1>1, <1>2 DEF PlacesIn, Linked, Live
<1> QED
  BY <1>2, <1>3, Zenon

LEMMA RetiredNext ==
  ASSUME NsmTypeOK', retired' \subseteq Osd, (retired \intersect active_osds = {})',
         \A p \in Place : Linked(p)' => p[1] \notin retired'
  PROVE  RetiredInv'
<1> SUFFICES ASSUME NEW d \in retired', NEW o \in ObjectId, Live(o)', NEW s \in Slot,
                    objects'[o].osd[s] = d
             PROVE  FALSE
  BY Zenon DEF RetiredInv, RetiredOsdsStayUnused, OsdsUsed
<1>1. objects'[o] \in Manifest
  BY Zenon DEF NsmTypeOK, Live
<1>2. PICK p \in Place : p = <<d, o, s, objects'[o].version[s]>>
  BY <1>1, Zenon DEF Place, Manifest
<1>3. Linked(p)'
  BY <1>2, Zenon DEF Linked, Live
<1> QED
  BY <1>2, <1>3, Zenon

-----------------------------------------------------------------------------
(* A conjunct of the invariant whose variables do not change stays true *)

LEMMA Frame ==
  /\ UNCHANGED <<names, objects>> /\ NamesMatchObjects => NamesMatchObjects'
  /\ UNCHANGED objects /\ FragmentVersionsBounded => FragmentVersionsBounded'
  /\ UNCHANGED <<minimum_epoch, next_epoch, gc>> /\ EpochInv => EpochInv'
  /\ UNCHANGED <<sent, attempts>> /\ SentInv => SentInv'
  /\ UNCHANGED <<stored, used, objects>> /\ StoredInv => StoredInv'
  /\ UNCHANGED <<job, sent, inflight, used, stored, objects>> /\ JobInv => JobInv'
  /\ UNCHANGED <<objects, sent, inflight>> /\ LinkedInv => LinkedInv'
  /\ UNCHANGED <<retired, active_osds, objects>> /\ RetiredInv => RetiredInv'
<1>1. UNCHANGED <<names, objects>> /\ NamesMatchObjects => NamesMatchObjects'
  BY Zenon DEF NamesMatchObjects, Live
<1>2. UNCHANGED objects /\ FragmentVersionsBounded => FragmentVersionsBounded'
  BY Zenon DEF FragmentVersionsBounded, Live
<1>3. UNCHANGED <<minimum_epoch, next_epoch, gc>> /\ EpochInv => EpochInv'
  BY DEF EpochInv
<1>4. UNCHANGED <<sent, attempts>> /\ SentInv => SentInv'
  BY Zenon DEF SentInv
<1>5. UNCHANGED <<stored, used, objects>> /\ StoredInv => StoredInv'
  BY Zenon DEF StoredInv, Live
<1>6. UNCHANGED <<job, sent, inflight, used, stored, objects>> /\ JobInv => JobInv'
  BY DEF JobInv, Writes, Uploading, Acked, Live, JobPlace
<1>7. UNCHANGED <<objects, sent, inflight>> /\ LinkedInv => LinkedInv'
  BY DEF LinkedInv, Landed, Live, PlacesIn
<1>8. UNCHANGED <<retired, active_osds, objects>> /\ RetiredInv => RetiredInv'
  BY Zenon DEF RetiredInv, RetiredOsdsStayUnused, Live, OsdsUsed
<1> QED
  BY <1>1, <1>2, <1>3, <1>4, <1>5, <1>6, <1>7, <1>8, Zenon

LEMMA FrameGarbage ==
  /\ UNCHANGED <<keys_to_be_deleted, cl, stored, objects, sent, inflight>>
       /\ ObsoleteInv => ObsoleteInv'
  /\ UNCHANGED <<sent, inflight, frags, stored, objects, minimum_epoch, retired>>
       /\ RemovedInv => RemovedInv'
  /\ UNCHANGED <<tags, sent, inflight, gc>> /\ TagInv => TagInv'
  /\ UNCHANGED <<gc, frags, objects, keys_to_be_deleted, sent, retired>>
       /\ PickInv => PickInv'
  /\ UNCHANGED <<objects, frags, sent>> /\ LinkedFragmentsWrittenOnceExist
       => LinkedFragmentsWrittenOnceExist'
  /\ UNCHANGED <<cl, job, frags, objects, keys_to_be_deleted, sent, retired>>
       /\ GarbageInv => GarbageInv'
  /\ UNCHANGED <<frags, objects, keys_to_be_deleted, tags, sent, retired>>
       /\ NoUntrackedGarbage => NoUntrackedGarbage'
<1>1. UNCHANGED <<keys_to_be_deleted, cl, stored, objects, sent, inflight>>
        /\ ObsoleteInv => ObsoleteInv'
  BY Zenon DEF ObsoleteInv, Dead, Landed, Live, Linked
<1>2. UNCHANGED <<sent, inflight, frags, stored, objects, minimum_epoch, retired>>
        /\ RemovedInv => RemovedInv'
  BY Zenon DEF RemovedInv, Dead, Landed, Live, Linked, Rewritten
<1>3. UNCHANGED <<tags, sent, inflight, gc>> /\ TagInv => TagInv'
  BY Zenon DEF TagInv, Landed
<1>4. UNCHANGED <<gc, frags, objects, keys_to_be_deleted, sent, retired>>
        /\ PickInv => PickInv'
  BY DEF PickInv, Tracked, Live, Linked, Rewritten
<1>5. UNCHANGED <<objects, frags, sent>> /\ LinkedFragmentsWrittenOnceExist
        => LinkedFragmentsWrittenOnceExist'
  BY DEF LinkedFragmentsWrittenOnceExist, Live, PlacesIn, Rewritten
<1>6. UNCHANGED <<cl, job, frags, objects, keys_to_be_deleted, sent, retired>>
        /\ GarbageInv => GarbageInv'
  BY DEF GarbageInv, Tracked, Live, Linked, Rewritten, JobPlace
<1>7. UNCHANGED <<frags, objects, keys_to_be_deleted, tags, sent, retired>>
        /\ NoUntrackedGarbage => NoUntrackedGarbage'
  BY Zenon DEF NoUntrackedGarbage, Live, Linked, Rewritten
<1> QED
  BY <1>1, <1>2, <1>3, <1>4, <1>5, <1>6, <1>7, Zenon

-----------------------------------------------------------------------------
(* OSDs: a write lands *)

LEMMA OsdWriteInv ==
  ASSUME StoreInv, NEW m \in inflight, OsdWrite(m)
  PROVE  StoreInv'
<1> USE DEF StoreInv, OsdWrite, nsmVars
<1>1. m \in sent /\ m[1] \in Place /\ m[2] \in Nat /\ m[3] \in Nat
  BY Zenon DEF StoreTypeOK
<1>2. StoreTypeOK'
  BY <1>1 DEF StoreTypeOK, NsmTypeOK, Tag
<1>3. Landed' = Landed \union {m}
  BY <1>1, Zenon DEF Landed
<1>4. \A p : /\ Rewritten(p)' <=> Rewritten(p)
             /\ Linked(p)' <=> Linked(p)
             /\ Dead(p)' <=> Dead(p)
             /\ Tracked(p)' <=> Tracked(p)
  BY Zenon DEF Rewritten, Linked, Dead, Tracked, Live
\* a second write landing at a place means that the place was rewritten
<1>5. \A n \in Landed : n[1] = m[1] => Rewritten(m[1])
  BY <1>1, TwoWrites, Zenon DEF Landed, StoreTypeOK
<1>6. JobInv'
  BY DEF JobInv, Writes, Uploading, Acked, Live, JobPlace
<1>7. ObsoleteInv'
  BY <1>3, <1>4, Zenon DEF ObsoleteInv
<1>8. LinkedInv'
  BY <1>3, Zenon DEF LinkedInv, Live, PlacesIn
<1>9. RemovedInv'
  BY <1>3, <1>4, Zenon DEF RemovedInv
<1>10. TagInv'
  BY <1>3 DEF TagInv
<1>11. PickInv'
  <2> SUFFICES ASSUME NEW g \in Collector, NEW t \in gc[g].pick, gc[g].live,
                      t[1] = m[1]
               PROVE  Tracked(t[1])
    BY <1>4, Zenon DEF PickInv
  <2>1. PICK n \in Landed : n[1] = t[1]
    BY DEF TagInv
  <2> QED
    BY <1>5, <2>1, Zenon DEF Tracked
<1>12. LinkedFragmentsWrittenOnceExist'
  BY <1>4, Zenon DEF LinkedFragmentsWrittenOnceExist, Live, PlacesIn
<1>13. GarbageInv'
  <2>1. ASSUME NEW c \in Cleaner, cl[c].pc = "mark", m[1] \in cl[c].keys
        PROVE  Rewritten(m[1])
    BY <1>5, <2>1, Zenon DEF ObsoleteInv
  <2>2. ASSUME NEW w \in Writer, job[w].pc \in {"epilogue", "done"},
               NEW s \in job[w].slots, JobPlace(job[w], s) = m[1]
        PROVE  Rewritten(m[1])
    <3>1. s \in Acked(job[w]) /\ Writes(job[w]) \subseteq sent
      BY <2>2, Zenon DEF JobInv
    <3>2. <<JobPlace(job[w], s), job[w].epoch, job[w].attempt>> \in Landed
      BY <3>1, Zenon DEF Acked, Writes, Landed
    <3> QED
      BY <1>5, <2>2, <3>2, Zenon
  <2> QED
    BY <1>4, <2>1, <2>2, Zenon DEF GarbageInv, JobPlace, Tracked
<1>14. NoUntrackedGarbage'
  <2>1. \E t \in tags' : t[1] = m[1]
    <3> WITNESS <<m[1], m[2]>> \in tags'
    <3> QED
      BY Zenon
  <2>2. tags \subseteq tags'
    BY Zenon
  <2> QED
    BY <1>4, <2>1, <2>2, Zenon DEF NoUntrackedGarbage
<1> QED
  BY <1>2, <1>6, <1>7, <1>8, <1>9, <1>10, <1>11, <1>12, <1>13, <1>14, Frame, Zenon

-----------------------------------------------------------------------------
(* Cleaners *)

LEMMA CleanListInv ==
  ASSUME StoreInv, NEW c \in Cleaner, NEW d \in Osd, CleanList(c, d)
  PROVE  StoreInv'
<1> USE DEF StoreInv, CleanList, nsmVars, clRest
<1>1. cl' = [cl EXCEPT ![c] = [pc |-> "delete",
                               keys |-> {p \in keys_to_be_deleted : p[1] = d}]]
  BY Zenon
<1>2. \A b \in Cleaner : cl'[b] = IF b = c
         THEN [pc |-> "delete", keys |-> {p \in keys_to_be_deleted : p[1] = d}]
         ELSE cl[b]
  BY <1>1, Zenon DEF StoreTypeOK
<1>3. StoreTypeOK'
  BY <1>1 DEF StoreTypeOK, NsmTypeOK, ClState
<1>4. ObsoleteInv'
  BY <1>2 DEF ObsoleteInv, Dead, Landed, Live, Linked
<1>5. GarbageInv'
  <2>1. \A p : (Rewritten(p)' <=> Rewritten(p)) /\ (Tracked(p)' <=> Tracked(p))
    BY Zenon DEF Rewritten, Linked, Tracked, Live
  <2> QED
    BY <1>2, <2>1 DEF GarbageInv, JobPlace
<1> QED
  BY <1>3, <1>4, <1>5, Frame, FrameGarbage, Zenon

LEMMA CleanDeleteInv ==
  ASSUME StoreInv, NEW c \in Cleaner, CleanDelete(c)
  PROVE  StoreInv'
<1> USE DEF StoreInv, CleanDelete, nsmVars, clRest
<1>1. /\ cl'[c].pc = "mark" /\ cl'[c].keys = cl[c].keys
      /\ cl' \in [Cleaner -> ClState]
      /\ \A b \in Cleaner \ {c} : cl'[b] = cl[b]
  BY Zenon DEF StoreTypeOK, ClState
<1>2. StoreTypeOK'
  BY <1>1, Zenon DEF StoreTypeOK, NsmTypeOK
<1>3. \A p : /\ Rewritten(p)' <=> Rewritten(p)
             /\ Linked(p)' <=> Linked(p)
             /\ Dead(p)' <=> Dead(p)
             /\ Tracked(p)' <=> Tracked(p)
  BY Zenon DEF Rewritten, Linked, Dead, Tracked, Live
<1>4. \A p \in cl[c].keys : Dead(p) /\ ~Linked(p)
  BY Zenon DEF ObsoleteInv, Dead, Linked
<1>5. ObsoleteInv'
  <2>1. Landed' = Landed
    BY Zenon DEF Landed
  <2> QED
    BY <1>1, <1>3, <2>1, Zenon DEF ObsoleteInv
<1>6. RemovedInv'
  BY <1>3, <1>4, Zenon DEF RemovedInv, Landed
<1>7. PickInv'
  BY <1>3, Zenon DEF PickInv
<1>8. LinkedFragmentsWrittenOnceExist'
  BY <1>2, <1>3, <1>4, LinkedByPlace, LinkedFragmentsNext, Zenon DEF StoreTypeOK
<1>9. GarbageInv'
  BY <1>1, <1>3, Zenon DEF GarbageInv, JobPlace
<1>10. NoUntrackedGarbage'
  BY <1>3, Zenon DEF NoUntrackedGarbage
<1> QED
  BY <1>2, <1>5, <1>6, <1>7, <1>8, <1>9, <1>10, Frame, FrameGarbage, Zenon

LEMMA CleanMarkInv ==
  ASSUME StoreInv, NEW c \in Cleaner, CleanMark(c)
  PROVE  StoreInv'
<1> USE DEF StoreInv, CleanMark, MarkKeysDeleted, clRest
<1>1. cl' = [cl EXCEPT ![c] = IdleCl]
  BY Zenon
<1>2. \A b \in Cleaner : cl'[b] = IF b = c THEN IdleCl ELSE cl[b]
  BY <1>1, Zenon DEF StoreTypeOK
<1>3. StoreTypeOK'
  BY <1>1 DEF StoreTypeOK, NsmTypeOK, ClState, IdleCl
<1>4. \A p : /\ Rewritten(p)' <=> Rewritten(p)
             /\ Linked(p)' <=> Linked(p)
             /\ Dead(p)' <=> Dead(p)
             /\ p \in frags /\ Tracked(p) => Tracked(p)'
  BY Zenon DEF Rewritten, Linked, Dead, Tracked, Live, GarbageInv
<1>5. ObsoleteInv'
  <2>1. Landed' = Landed
    BY Zenon DEF Landed
  <2> QED
    BY <1>2, <1>4, <2>1 DEF ObsoleteInv, IdleCl
<1>6. PickInv'
  BY <1>4, Zenon DEF PickInv
<1>7. GarbageInv'
  BY <1>2, <1>4 DEF GarbageInv, JobPlace, IdleCl
<1>8. NoUntrackedGarbage'
  BY <1>4, Zenon DEF NoUntrackedGarbage, Tracked
<1> QED
  BY <1>3, <1>5, <1>6, <1>7, <1>8, Frame, FrameGarbage, Zenon

LEMMA CleanAbandonInv ==
  ASSUME StoreInv, NEW c \in Cleaner, CleanAbandon(c)
  PROVE  StoreInv'
<1> USE DEF StoreInv, CleanAbandon, nsmVars, clRest
<1>1. \A b \in Cleaner : cl'[b] = IF b = c THEN IdleCl ELSE cl[b]
  BY Zenon DEF StoreTypeOK
<1>2. StoreTypeOK'
  BY Zenon DEF StoreTypeOK, NsmTypeOK, ClState, IdleCl
<1>3. ObsoleteInv'
  BY <1>1 DEF ObsoleteInv, Dead, Landed, Live, Linked, IdleCl
<1>4. GarbageInv'
  <2>1. \A p : (Rewritten(p)' <=> Rewritten(p)) /\ (Tracked(p)' <=> Tracked(p))
    BY Zenon DEF Rewritten, Linked, Tracked, Live
  <2> QED
    BY <1>1, <2>1 DEF GarbageInv, JobPlace, IdleCl
<1> QED
  BY <1>2, <1>3, <1>4, Frame, FrameGarbage, Zenon

-----------------------------------------------------------------------------
(* Collectors *)

\* a step that only changes what one collector knows
LEMMA CollectorFrame ==
  ASSUME StoreInv, gc' \in [Collector -> GcState], EpochInv', TagInv', PickInv',
         UNCHANGED <<nsmVars, tags, gcRest>>
  PROVE  StoreInv'
<1>1. StoreTypeOK'
  BY Zenon DEF StoreInv, StoreTypeOK, NsmTypeOK, nsmVars, gcRest
<1> QED
  BY <1>1, Frame, FrameGarbage, Zenon DEF StoreInv, nsmVars, gcRest

LEMMA GcEnableInv ==
  ASSUME StoreInv, NEW g \in Collector, GcEnable(g)
  PROVE  StoreInv'
<1> USE DEF StoreInv, GcEnable, EnableGcEpoch, gcRest
<1>1. minimum_epoch \in Nat /\ next_epoch \in Nat /\ minimum_epoch < next_epoch
  BY Zenon DEF StoreTypeOK, NsmTypeOK, EpochInv
<1>2. PICK cached \in 0 .. minimum_epoch :
        gc' = [gc EXCEPT ![g] = [IdleGc EXCEPT !.pc = "disabling",
                                               !.epoch = next_epoch - 1,
                                               !.cur = cached]]
  BY Zenon
<1> DEFINE new == [pc |-> "disabling", epoch |-> next_epoch - 1, cur |-> cached,
                   listed |-> {}, pick |-> {}, live |-> FALSE]
<1>3. gc' = [gc EXCEPT ![g] = new]
  BY <1>2, Zenon DEF IdleGc
<1>4. new \in GcState
  BY <1>1 DEF GcState
<1>5. \A h \in Collector : gc'[h] = IF h = g THEN new ELSE gc[h]
  BY <1>3, Zenon DEF StoreTypeOK
<1>6. gc' \in [Collector -> GcState]
  BY <1>3, <1>4, Zenon DEF StoreTypeOK
<1>7. StoreTypeOK'
  BY <1>1, <1>6 DEF StoreTypeOK, NsmTypeOK
<1>8. EpochInv'
  <2> SUFFICES ASSUME NEW h \in Collector
               PROVE  /\ gc'[h].pc # "idle" => gc'[h].epoch + 1 < next_epoch'
                      /\ gc'[h].pc = "disabling" => gc'[h].cur <= minimum_epoch
                      /\ gc'[h].pc \in {"collecting", "deleting"} =>
                           gc'[h].epoch < minimum_epoch
    BY <1>1 DEF EpochInv
  <2>1. CASE h = g
    BY <1>1, <1>5, <2>1
  <2>2. CASE h # g
    <3>1. gc[h].epoch \in Nat
      BY Zenon DEF StoreTypeOK, GcState
    <3> QED
      BY <1>1, <1>5, <2>2, <3>1 DEF EpochInv
  <2> QED
    BY <2>1, <2>2, Zenon
<1> HIDE DEF new
<1>9. new.pc = "disabling" /\ new.listed = {} /\ new.pick = {}
  BY Zenon DEF new
<1>10. TagInv'
  <2>1. Landed' = Landed /\ tags' = tags
    BY Zenon DEF Landed
  <2>2. \A h \in Collector :
          /\ gc'[h].listed = IF h = g THEN {} ELSE gc[h].listed
          /\ gc'[h].pick = IF h = g THEN {} ELSE gc[h].pick
          /\ h # g => gc'[h] = gc[h]
    BY <1>5, <1>9, Zenon
  <2> QED
    BY <2>1, <2>2 DEF TagInv
<1>11. PickInv'
  <2>1. \A p : /\ Rewritten(p)' <=> Rewritten(p)
               /\ Linked(p)' <=> Linked(p)
               /\ Tracked(p)' <=> Tracked(p)
    BY Zenon DEF Rewritten, Linked, Tracked, Live
  <2> QED
    BY <1>5, <1>9, <2>1, Zenon DEF PickInv
<1> QED
  BY <1>7, <1>8, <1>10, <1>11, Frame, FrameGarbage, Zenon

LEMMA GcAbandonInv ==
  ASSUME StoreInv, NEW g \in Collector, gc' = [gc EXCEPT ![g] = IdleGc],
         UNCHANGED <<nsmVars, tags, gcRest>>
  PROVE  StoreInv'
<1> USE DEF StoreInv, nsmVars, gcRest
<1>1. \A h \in Collector : gc'[h] = IF h = g THEN IdleGc ELSE gc[h]
  BY Zenon DEF StoreTypeOK
<1>2. gc' \in [Collector -> GcState]
  BY Zenon DEF StoreTypeOK, GcState, IdleGc
<1>3. EpochInv'
  BY <1>1 DEF EpochInv, IdleGc
<1>4. TagInv'
  BY <1>1 DEF TagInv, Landed, IdleGc
<1>5. PickInv'
  <2>1. \A p : /\ Rewritten(p)' <=> Rewritten(p)
               /\ Linked(p)' <=> Linked(p)
               /\ Tracked(p)' <=> Tracked(p)
    BY Zenon DEF Rewritten, Linked, Tracked, Live
  <2> QED
    BY <1>1, <2>1 DEF PickInv, IdleGc
<1> QED
  BY <1>2, <1>3, <1>4, <1>5, CollectorFrame, Zenon

LEMMA GcDisableInv ==
  ASSUME StoreInv, NEW g \in Collector, GcDisable(g)
  PROVE  StoreInv'
<1> USE DEF StoreInv
<1>1. CASE gc' = [gc EXCEPT ![g] = IdleGc] /\ UNCHANGED nsmVars
  BY <1>1, GcAbandonInv, Zenon DEF GcDisable
<1>2. CASE DisableGcEpoch(gc[g].cur) /\ gc' = [gc EXCEPT ![g].cur = @ + 1]
  <2> USE <1>2 DEF GcDisable, DisableGcEpoch, gcRest
  <2>1. /\ gc[g].pc = "disabling" /\ gc[g].cur = minimum_epoch
        /\ gc[g].cur <= gc[g].epoch /\ gc[g].epoch + 1 < next_epoch
        /\ gc[g].epoch \in Nat /\ gc[g].cur \in Nat /\ minimum_epoch \in Nat
        /\ next_epoch \in Nat /\ minimum_epoch' = minimum_epoch + 1
    BY Zenon DEF EpochInv, StoreTypeOK, NsmTypeOK, GcState
  <2>2. \A h \in Collector :
          /\ gc'[h].pc = gc[h].pc /\ gc'[h].epoch = gc[h].epoch
          /\ gc'[h].listed = gc[h].listed /\ gc'[h].pick = gc[h].pick
          /\ gc'[h].live = gc[h].live
          /\ gc'[h].cur = IF h = g THEN gc[g].cur + 1 ELSE gc[h].cur
    BY Zenon DEF StoreTypeOK, GcState
  <2>3. gc' \in [Collector -> GcState]
    BY <2>1 DEF StoreTypeOK, GcState
  <2>4. StoreTypeOK'
    BY <2>1, <2>3 DEF StoreTypeOK, NsmTypeOK
  <2>5. EpochInv'
    <3>1. \A h \in Collector : gc[h].epoch \in Nat /\ gc[h].cur \in Nat
      BY Zenon DEF StoreTypeOK, GcState
    <3> QED
      BY <2>1, <2>2, <3>1 DEF EpochInv
  <2>6. \A p : /\ Rewritten(p)' <=> Rewritten(p)
               /\ Linked(p)' <=> Linked(p)
               /\ Dead(p)' <=> Dead(p)
               /\ Tracked(p)' <=> Tracked(p)
    BY Zenon DEF Rewritten, Linked, Dead, Tracked, Live
  <2>7. TagInv'
    BY <2>2 DEF TagInv, Landed
  <2>8. PickInv'
    BY <2>2, <2>6, Zenon DEF PickInv
  <2>9. RemovedInv'
    <3>1. \A m \in Landed : m[2] \in Nat
      BY Zenon DEF Landed, StoreTypeOK
    <3>2. \A m \in Landed : m[2] < minimum_epoch => m[2] < minimum_epoch'
      BY <2>1, <3>1
    <3>3. Landed' = Landed
      BY Zenon DEF Landed
    <3> QED
      BY <2>6, <3>2, <3>3, Zenon DEF RemovedInv
  <2> QED
    BY <2>4, <2>5, <2>7, <2>8, <2>9, Frame, FrameGarbage, Zenon
<1> QED
  BY <1>1, <1>2, Zenon DEF GcDisable

LEMMA GcListInv ==
  ASSUME StoreInv, NEW g \in Collector, NEW d \in Osd, GcList(g, d)
  PROVE  StoreInv'
<1> USE DEF nsmVars, gcRest
<1>1. gc' = [gc EXCEPT
         ![g].pc = "collecting",
         ![g].listed = {t \in tags : t[1][1] = d /\ t[2] <= gc[g].epoch}]
  BY Zenon DEF GcList
<1> DEFINE new == {t \in tags : t[1][1] = d /\ t[2] <= gc[g].epoch}
<1>2. gc \in [Collector -> GcState] /\ new \subseteq Tag
  BY Zenon DEF StoreInv, StoreTypeOK
<1> HIDE DEF new
<1>3. /\ gc' \in [Collector -> GcState]
      /\ \A h \in Collector \ {g} : gc'[h] = gc[h]
      /\ gc'[g].pc = "collecting" /\ gc'[g].listed = new
      /\ gc'[g].epoch = gc[g].epoch /\ gc'[g].cur = gc[g].cur
      /\ gc'[g].pick = gc[g].pick /\ gc'[g].live = gc[g].live
  BY <1>1, <1>2, Zenon DEF GcState, new
<1>4. EpochInv'
  <2>1. /\ gc[g].epoch \in Nat /\ gc[g].cur \in Nat
        /\ minimum_epoch \in Nat /\ next_epoch \in Nat
    BY <1>2, Zenon DEF GcState, StoreInv, StoreTypeOK, NsmTypeOK
  <2>2. gc[g].epoch + 1 < next_epoch /\ gc[g].epoch < minimum_epoch
    BY <2>1 DEF GcList, StoreInv, EpochInv
  <2> QED
    BY <1>3, <2>2, Zenon DEF GcList, StoreInv, EpochInv
<1>5. TagInv'
  <2>1. Landed' = Landed /\ tags' = tags /\ TagInv
    BY Zenon DEF Landed, GcList, StoreInv
  <2>2. gc[g].pick = {}
    BY <2>1, Zenon DEF GcList, TagInv
  <2>3. \A t \in new : t[2] <= gc[g].epoch /\ \E m \in Landed : m[1] = t[1] /\ m[2] = t[2]
    BY <2>1, Zenon DEF TagInv, new
  <2>4. ASSUME NEW h \in Collector
        PROVE  /\ \A t \in gc'[h].listed \union gc'[h].pick :
                    /\ t[2] <= gc'[h].epoch
                    /\ \E m \in Landed : m[1] = t[1] /\ m[2] = t[2]
               /\ gc'[h].pc # "deleting" => gc'[h].pick = {}
               /\ \A t, u \in gc'[h].pick : t = u
               /\ gc'[h].pc \in {"idle", "disabling"} => gc'[h].listed = {}
    <3>1. CASE h = g
      BY <1>3, <2>2, <2>3, <3>1, Zenon
    <3>2. CASE h # g
      BY <1>3, <2>1, <3>2 DEF TagInv
    <3> QED
      BY <3>1, <3>2, Zenon
  <2>5. \A t \in tags' : \E m \in Landed : m[1] = t[1] /\ m[2] = t[2]
    BY <2>1, Zenon DEF TagInv
  <2> QED
    BY <2>1, <2>4, <2>5, Zenon DEF TagInv
<1>6. PickInv'
  <2>1. \A p : /\ Rewritten(p)' <=> Rewritten(p)
               /\ Linked(p)' <=> Linked(p)
               /\ Tracked(p)' <=> Tracked(p)
    BY Zenon DEF Rewritten, Linked, Tracked, Live, GcList
  <2>2. frags' = frags /\ PickInv
    BY Zenon DEF GcList, StoreInv
  <2> QED
    BY <1>3, <2>1, <2>2, Zenon DEF PickInv
<1> QED
  BY <1>3, <1>4, <1>5, <1>6, CollectorFrame, Zenon DEF GcList

LEMMA GcReadInv ==
  ASSUME StoreInv, NEW g \in Collector, GcRead(g)
  PROVE  StoreInv'
<1> USE DEF nsmVars, gcRest
<1>1. PICK t \in gc[g].listed : gc' = [gc EXCEPT ![g].pc = "deleting",
                                                 ![g].listed = @ \ {t},
                                                 ![g].pick = {t},
                                                 ![g].live = Linked(t[1])]
  BY Zenon DEF GcRead
<1>2. gc \in [Collector -> GcState] /\ Linked(t[1]) \in BOOLEAN
  BY Zenon DEF StoreInv, StoreTypeOK, Linked, Live
<1>3. t \in Tag /\ gc[g].listed \ {t} \subseteq Tag
  BY <1>2, Zenon DEF GcState
<1>4. /\ gc' \in [Collector -> GcState]
      /\ \A h \in Collector \ {g} : gc'[h] = gc[h]
      /\ gc'[g].pc = "deleting" /\ gc'[g].listed = gc[g].listed \ {t}
      /\ gc'[g].epoch = gc[g].epoch /\ gc'[g].cur = gc[g].cur
      /\ gc'[g].pick = {t} /\ gc'[g].live = Linked(t[1])
  BY <1>1, <1>2, <1>3, ZenonT(30) DEF GcState
<1>5. EpochInv'
  BY <1>4, Zenon DEF GcRead, StoreInv, EpochInv
<1>6. TagInv'
  <2>1. Landed' = Landed /\ tags' = tags /\ TagInv
    BY Zenon DEF Landed, GcRead, StoreInv
  <2> QED
    BY <1>4, <2>1 DEF TagInv
<1>7. PickInv'
  <2>1. \A p : /\ Rewritten(p)' <=> Rewritten(p)
               /\ Linked(p)' <=> Linked(p)
               /\ Tracked(p)' <=> Tracked(p)
    BY Zenon DEF Rewritten, Linked, Tracked, Live, GcRead
  <2>2. frags' = frags /\ PickInv
    BY Zenon DEF GcRead, StoreInv
  <2>3. Linked(t[1]) => Tracked(t[1])
    BY Zenon DEF Tracked
  <2> QED
    BY <1>4, <2>1, <2>2, <2>3, Zenon DEF PickInv
<1> QED
  BY <1>4, <1>5, <1>6, <1>7, CollectorFrame, Zenon DEF GcRead

LEMMA GcDeleteInv ==
  ASSUME StoreInv, NEW g \in Collector, GcDelete(g)
  PROVE  StoreInv'
<1> USE DEF nsmVars
<1>1. gc' = [gc EXCEPT ![g].pc = "collecting", ![g].pick = {}, ![g].live = FALSE]
  BY Zenon DEF GcDelete
<1>2. gc \in [Collector -> GcState]
  BY Zenon DEF StoreInv, StoreTypeOK
<1>3. /\ gc' \in [Collector -> GcState]
      /\ \A h \in Collector \ {g} : gc'[h] = gc[h]
      /\ gc'[g].pc = "collecting" /\ gc'[g].listed = gc[g].listed
      /\ gc'[g].epoch = gc[g].epoch /\ gc'[g].cur = gc[g].cur
      /\ gc'[g].pick = {}
  BY <1>1, <1>2, Zenon DEF GcState
<1>4. frags' \subseteq frags /\ tags' \subseteq tags
  BY Zenon DEF GcDelete
<1>5. StoreTypeOK'
  BY <1>3, <1>4, Zenon DEF GcDelete, StoreInv, StoreTypeOK, NsmTypeOK
<1>6. \A p : /\ Rewritten(p)' <=> Rewritten(p)
             /\ Linked(p)' <=> Linked(p)
             /\ Dead(p)' <=> Dead(p)
             /\ Tracked(p)' <=> Tracked(p)
  BY Zenon DEF Rewritten, Linked, Dead, Tracked, Live, GcDelete
<1>7. Landed' = Landed
  BY Zenon DEF Landed, GcDelete
\* what is removed was written under a closed epoch, and is not linked unless
\* it was rewritten
<1>8. ASSUME NEW p \in frags, p \notin frags'
      PROVE  /\ Linked(p) => Rewritten(p)
             /\ \A n \in Landed : n[1] = p => n[2] < minimum_epoch \/ Rewritten(p)
  <2>1. PICK t \in gc[g].pick : t[1] = p /\ ~gc[g].live
    BY <1>8, Zenon DEF GcDelete
  <2>2. PICK n \in Landed : n[1] = t[1] /\ n[2] = t[2]
    BY <2>1, Zenon DEF StoreInv, TagInv
  <2>3. n[2] < minimum_epoch
    <3>1. t[2] <= gc[g].epoch /\ gc[g].epoch < minimum_epoch
      BY Zenon DEF GcDelete, StoreInv, TagInv, EpochInv
    <3>2. t[2] \in Nat /\ gc[g].epoch \in Nat /\ minimum_epoch \in Nat
      BY <1>2 DEF GcState, Tag, StoreInv, StoreTypeOK, NsmTypeOK
    <3> QED
      BY <2>2, <3>1, <3>2
  <2>4. \A k \in Landed : k[1] = p /\ k # n => Rewritten(p)
    BY <2>1, <2>2, TwoWrites, Zenon DEF StoreInv, StoreTypeOK, Landed
  <2>5. Linked(p) => Rewritten(p)
    BY <2>1, Zenon DEF StoreInv, PickInv
  <2> QED
    BY <2>3, <2>4, <2>5, Zenon
<1>9. EpochInv'
  BY <1>3, Zenon DEF GcDelete, StoreInv, EpochInv
<1>10. RemovedInv'
  BY <1>6, <1>7, <1>8, Zenon DEF StoreInv, RemovedInv, GcDelete
<1>11. TagInv'
  <2>1. TagInv
    BY Zenon DEF StoreInv
  <2> QED
    BY <1>3, <1>4, <1>7, <2>1 DEF TagInv
<1>12. PickInv'
  BY <1>3, <1>4, <1>6, Zenon DEF StoreInv, PickInv
<1>13. LinkedFragmentsWrittenOnceExist'
  <2>1. NsmTypeOK' /\ NsmTypeOK
    BY <1>5, Zenon DEF StoreInv, StoreTypeOK
  <2>2. ASSUME NEW p \in Place, Linked(p)' PROVE p \in frags' \/ Rewritten(p)'
    BY <1>6, <1>8, <2>1, <2>2, LinkedByPlace, Zenon DEF StoreInv
  <2> QED
    BY <2>1, <2>2, LinkedFragmentsNext, Zenon
<1>14. GarbageInv'
  BY <1>4, <1>6, Zenon DEF GarbageInv, StoreInv, GcDelete, JobPlace
<1>15. NoUntrackedGarbage'
  <2> SUFFICES ASSUME NEW p \in frags', NEW t \in tags, t[1] = p, t \notin tags'
               PROVE  Tracked(p)
    BY <1>4, <1>6, Zenon DEF StoreInv, NoUntrackedGarbage, Tracked, GcDelete
  <2>1. t \in gc[g].pick
    BY Zenon DEF GcDelete
  <2>2. gc[g].pick \subseteq tags
    BY <2>1, Zenon DEF StoreInv, TagInv
  <2>3. gc[g].live
    BY <2>1, <2>2, Zenon DEF GcDelete
  <2> QED
    BY <1>4, <2>1, <2>3, Zenon DEF StoreInv, PickInv
<1> QED
  BY <1>5, <1>9, <1>10, <1>11, <1>12, <1>13, <1>14, <1>15, Frame, FrameGarbage, Zenon
  DEF StoreInv, GcDelete

-----------------------------------------------------------------------------
(* A change of the manifests.  A place gets linked only after a write that  *)
(* carries a valid epoch landed there, and not when it is dead or on a     *)
(* retired OSD; a place that gets unlinked is listed and dead.             *)

NewlyLinked(p) ==
  /\ \E m \in Landed : m[1] = p /\ m[2] >= minimum_epoch
  /\ ~Dead(p)
  /\ p[1] \notin retired

LEMMA MetadataInv ==
  ASSUME StoreInv, NsmTypeOK', NamesMatchObjects', FragmentVersionsBounded',
         stored' \subseteq ObjectId, StoredInv', job' \in [Writer -> Job], JobInv',
         UNCHANGED <<frags, tags, sent, inflight, attempts, used, retired, gc, cl,
                     minimum_epoch, next_epoch, active_osds>>,
         \A p \in Place : Linked(p)' => Linked(p) \/ NewlyLinked(p),
         \A p \in Place : Linked(p) => Linked(p)' \/ p \in keys_to_be_deleted',
         \A p \in Place : Dead(p) => Dead(p)',
         keys_to_be_deleted \subseteq keys_to_be_deleted',
         \A p \in keys_to_be_deleted' \ keys_to_be_deleted : Linked(p) /\ Dead(p)',
         \A w \in Writer : job'[w].pc \in {"epilogue", "done"} =>
           \A s \in job'[w].slots :
             /\ JobPlace(job[w], s)' \in Place
             /\ \/ Linked(JobPlace(job[w], s))'
                \/ JobPlace(job[w], s)' \in frags => Tracked(JobPlace(job'[w], s))
  PROVE  StoreInv'
<1> USE DEF StoreInv
<1>1. StoreTypeOK' /\ NsmTypeOK
  BY Zenon DEF StoreTypeOK
<1>2. Landed' = Landed
  BY Zenon DEF Landed
<1>3. \A p : Rewritten(p)' <=> Rewritten(p)
  BY Zenon DEF Rewritten
<1>4. \A p \in Place : Tracked(p) => Tracked(p)'
  BY <1>3, Zenon DEF Tracked
<1>5. ObsoleteInv'
  <2>1. ASSUME NEW p \in keys_to_be_deleted'
        PROVE  Dead(p)' /\ \E m \in Landed : m[1] = p
    <3>1. p \in Place
      BY Zenon DEF NsmTypeOK
    <3>2. CASE p \in keys_to_be_deleted
      BY <3>1, <3>2, Zenon DEF ObsoleteInv
    <3>3. CASE p \notin keys_to_be_deleted
      BY <1>1, <3>1, <3>3, LinkedByPlace, Zenon
    <3> QED
      BY <3>2, <3>3, Zenon
  <2>2. ASSUME NEW c \in Cleaner, NEW p \in cl[c].keys
        PROVE  Dead(p)' /\ \E m \in Landed : m[1] = p
    <3>1. p \in Place
      BY Zenon DEF StoreTypeOK, ClState
    <3> QED
      BY <3>1, Zenon DEF ObsoleteInv
  <2> QED
    BY <1>2, <2>1, <2>2, Zenon DEF ObsoleteInv
<1>6. LinkedInv'
  <2>1. \A p \in Place : Linked(p)' => \E m \in Landed' : m[1] = p
    BY <1>1, <1>2, LinkedByPlace, Zenon DEF NewlyLinked
  <2> QED
    BY <2>1, LinkedInvNext, Zenon
<1>7. RemovedInv'
  <2>1. \A m \in Landed : m[1] \in Place
    BY Zenon DEF Landed, StoreTypeOK
  <2> QED
    BY <1>2, <1>3, <2>1, Zenon DEF RemovedInv
<1>8. PickInv'
  <2> SUFFICES ASSUME NEW g \in Collector, NEW t \in gc[g].pick
               PROVE  IF gc[g].live THEN t[1] \in frags => Tracked(t[1])'
                                    ELSE Linked(t[1])' => Rewritten(t[1])
    BY <1>3, Zenon DEF PickInv
  <2>1. t \in Tag /\ t[1] \in Place /\ t[2] \in Nat
    BY SMTT(30) DEF StoreTypeOK, GcState, Tag
  <2>2. CASE gc[g].live
    BY <1>4, <2>1, <2>2, Zenon DEF PickInv
  <2>3. ASSUME ~gc[g].live, Linked(t[1])', NewlyLinked(t[1])
        PROVE  Rewritten(t[1])
    <3>1. PICK m \in Landed : m[1] = t[1] /\ m[2] >= minimum_epoch
      BY <2>3, Zenon DEF NewlyLinked
    <3>2. PICK n \in Landed : n[1] = t[1] /\ n[2] = t[2]
      BY Zenon DEF TagInv
    <3>3. t[2] <= gc[g].epoch /\ gc[g].epoch < minimum_epoch
      BY Zenon DEF TagInv, EpochInv, StoreTypeOK, GcState
    <3>4. gc[g].epoch \in Nat /\ minimum_epoch \in Nat /\ m[2] \in Nat
      BY Zenon DEF StoreTypeOK, NsmTypeOK, GcState, Landed
    <3>5. m # n
      BY <2>1, <3>1, <3>2, <3>3, <3>4
    <3> QED
      BY <3>1, <3>2, <3>5, TwoWrites, Zenon DEF StoreTypeOK, Landed
  <2> QED
    BY <2>1, <2>2, <2>3, Zenon DEF PickInv
<1>9. RetiredInv'
  <2>1. \A p \in Place : Linked(p)' => p[1] \notin retired
    BY <1>1, LinkedByPlace, Zenon DEF NewlyLinked
  <2>2. retired \intersect active_osds = {} /\ retired \subseteq Osd
    BY Zenon DEF RetiredInv, StoreTypeOK
  <2> QED
    BY <2>1, <2>2, RetiredNext, Zenon
<1>10. LinkedFragmentsWrittenOnceExist'
  <2>1. ASSUME NEW p \in Place, NewlyLinked(p)
        PROVE  p \in frags \/ Rewritten(p)
    <3>1. PICK m \in Landed : m[1] = p /\ m[2] >= minimum_epoch
      BY <2>1, Zenon DEF NewlyLinked
    <3>2. m[2] \in Nat /\ minimum_epoch \in Nat
      BY Zenon DEF StoreTypeOK, NsmTypeOK, Landed
    <3> QED
      BY <2>1, <3>1, <3>2 DEF NewlyLinked, RemovedInv
  <2>2. \A p \in Place : Linked(p)' => p \in frags' \/ Rewritten(p)'
    BY <1>1, <1>3, <2>1, LinkedByPlace, Zenon
  <2> QED
    BY <2>2, LinkedFragmentsNext, Zenon
<1>11. GarbageInv'
  <2>1. ASSUME NEW w \in Writer, job'[w].pc \in {"epilogue", "done"},
               NEW s \in job'[w].slots, JobPlace(job[w], s)' \in frags
        PROVE  Tracked(JobPlace(job[w], s))'
    <3>1. PICK p \in Place : p = JobPlace(job[w], s)'
      BY <2>1, Zenon
    <3>2. Linked(p)' \/ Tracked(p)
      BY <2>1, <3>1, Zenon DEF JobPlace, Linked, Live
    <3>3. Tracked(p)'
      BY <1>4, <3>2, Zenon DEF Tracked
    <3>4. Linked(p)' => Linked(JobPlace(job[w], s))'
      BY <3>1, Zenon DEF Linked, Live, JobPlace
    <3>5. Rewritten(p)' => Rewritten(JobPlace(job[w], s))'
      BY <3>1, Zenon DEF Rewritten, JobPlace
    <3> QED
      BY <3>1, <3>3, <3>4, <3>5, Zenon DEF Tracked, JobPlace
  <2>2. \A c \in Cleaner : cl[c].pc = "mark" =>
          \A p \in cl[c].keys : p \in frags => Rewritten(p)
    BY Zenon DEF GarbageInv
  <2> QED
    BY <1>3, <2>1, <2>2, Zenon DEF GarbageInv
<1>12. NoUntrackedGarbage'
  <2>1. \A p \in frags : p \in Place
    BY Zenon DEF StoreTypeOK
  <2> QED
    BY <1>3, <1>4, <2>1, Zenon DEF NoUntrackedGarbage, Tracked
<1> QED
  BY <1>1, <1>5, <1>6, <1>7, <1>8, <1>9, <1>10, <1>11, <1>12, Frame, FrameGarbage, Zenon

LEMMA ClientDeleteInv ==
  ASSUME StoreInv, ClientDelete
  PROVE  StoreInv'
<1> USE NoneAssumption
<1>1. PICK n \in Name, allow \in Overwrite : DeleteObject(n, allow)
  BY Zenon DEF ClientDelete
<1>2. UNCHANGED <<frags, tags, sent, inflight, attempts, used, stored, retired, job,
                  gc, cl, minimum_epoch, next_epoch, active_osds>>
  BY <1>1, Zenon DEF ClientDelete, storeVars, DeleteObject
<1>3. NsmInv /\ NsmInv'
  BY <1>1, DeleteObjectInv, Zenon DEF NsmInv, StoreInv, StoreTypeOK
<1> DEFINE old == names[n]
<1>4. old \in ObjectId /\ Live(old) /\ objects[old] \in Manifest
  BY <1>1, <1>3 DEF DeleteObject, NsmInv, NsmTypeOK, NamesMatchObjects, Live
<1>5. \A o \in ObjectId : objects'[o] = IF o = old THEN None ELSE objects[o]
  BY <1>1, <1>3, Zenon DEF DeleteObject, NsmInv, NsmTypeOK
<1>6. keys_to_be_deleted' = keys_to_be_deleted \union PlacesIn(old, objects[old], Slot)
  BY <1>1, Zenon DEF DeleteObject
<1> HIDE DEF old
<1>7. StoredInv'
  BY <1>2, <1>5, Zenon DEF StoreInv, StoredInv, Live
<1>8. \A p \in Place : p[2] \in ObjectId
  BY Zenon DEF Place
<1>9. \A p \in Place : Linked(p)' <=> Linked(p) /\ p[2] # old
  BY <1>5, <1>8, Zenon DEF Linked, Live
<1>10. \A p \in Place : Linked(p) => Linked(p)' \/ p \in keys_to_be_deleted'
  BY <1>3, <1>6, <1>9, LinkedPlaces, Zenon DEF NsmInv
<1>11. \A p \in Place : Dead(p) => Dead(p)'
  BY <1>2, <1>5, <1>8, <1>9, Zenon DEF Dead, Live
<1>12. \A p \in PlacesIn(old, objects[old], Slot) : Linked(p) /\ Dead(p)'
  <2>1. \A p \in PlacesIn(old, objects[old], Slot) : p \in Place /\ p[2] = old /\ Linked(p)
    BY <1>3, <1>4, LivePlaces, Zenon DEF NsmInv
  <2>2. old \in stored
    BY <1>4, Zenon DEF StoreInv, StoredInv
  <2> QED
    BY <1>2, <1>4, <1>5, <2>1, <2>2, Zenon DEF Dead, Live
<1>13. JobInv'
  <2>1. \A o : Live(o) \in BOOLEAN
    BY Zenon DEF Live
  <2>2. \A o \in ObjectId : Live(o)' => Live(o) /\ objects'[o] = objects[o]
    BY <1>5, Zenon DEF Live
  <2>3. \A w \in Writer : job[w].prev \in ObjectId \union {None}
    BY Zenon DEF StoreInv, StoreTypeOK, Job
  <2>4. JobInv
    BY Zenon DEF StoreInv
  <2>5. \A w \in Writer : /\ Writes(job[w])' = Writes(job[w]) /\ Acked(job[w])' = Acked(job[w])
                          /\ Uploading(w)' <=> Uploading(w)
    BY <1>2, Zenon DEF Writes, Uploading, Acked, JobPlace
  <2>6. ASSUME NEW w \in Writer
        PROVE  /\ job'[w].pc # "idle" => job'[w].oid \in ObjectId /\ Writes(job[w])' \subseteq sent'
               /\ job'[w].pc = "update" =>
                    /\ job'[w].version > 0
                    /\ \A s \in Slot : job'[w].target[s] # None => s \in job'[w].slots
               /\ Uploading(w)' =>
                    /\ job'[w].version = 0
                    /\ job'[w].oid \in used'
                    /\ job'[w].prev # None => job'[w].prev \in stored'
                    /\ \A x \in Writer \ {w} : Uploading(x)' => job'[x].oid # job'[w].oid
    BY <1>2, <2>4, <2>5, Zenon DEF JobInv
  <2>7. ASSUME NEW w \in Writer
        PROVE  /\ (\/ job'[w].pc = "put" /\ job'[w].oid \in stored'
                   \/ job'[w].pc = "epilogue") /\ job'[w].prev # None => ~Live(job[w].prev)'
               /\ job'[w].pc = "put" /\ job'[w].oid \in stored' => job'[w].prev # None
    BY <1>2, <2>2, <2>3, <2>4, Zenon DEF JobInv
  <2>8. ASSUME NEW w \in Writer
        PROVE  /\ job'[w].pc \in {"epilogue", "done"} =>
                    job'[w].oid \in stored' /\ job'[w].slots \subseteq Acked(job[w])'
               /\ job'[w].pc = "epilogue" /\ Live(job[w].oid)' =>
                    \/ objects'[job'[w].oid].version_id > 0
                    \/ \A s \in Slot \ job'[w].slots : objects'[job'[w].oid].osd[s] = None
    <3>1. job[w].pc # "idle" => job[w].oid \in ObjectId
      BY <2>4, Zenon DEF JobInv
    <3>2. job'[w] = job[w] /\ stored' = stored
      BY <1>2, Zenon
    <3>3. job[w].pc \in {"epilogue", "done"} =>
            job[w].oid \in stored /\ job[w].slots \subseteq Acked(job[w])'
      BY <2>4, <2>5, Zenon DEF JobInv
    <3>4. job[w].pc = "epilogue" /\ Live(job[w].oid) =>
            \/ objects[job[w].oid].version_id > 0
            \/ \A s \in Slot \ job[w].slots : objects[job[w].oid].osd[s] = None
      BY <2>4, Zenon DEF JobInv
    <3>5. job'[w].pc = "epilogue" /\ Live(job[w].oid)' =>
            /\ Live(job[w].oid) /\ objects'[job[w].oid] = objects[job[w].oid]
      BY <2>2, <3>1, <3>2, Zenon DEF Live
    <3> QED
      BY <3>2, <3>3, <3>4, <3>5, Zenon
  <2> QED
    BY <2>6, <2>7, <2>8, Zenon DEF JobInv
<1>14. ASSUME NEW w \in Writer, job[w].pc \in {"epilogue", "done"}, NEW s \in job[w].slots
       PROVE  /\ JobPlace(job[w], s) \in Place
              /\ JobPlace(job[w], s) \in frags => Tracked(JobPlace(job[w], s))
  <2>1. s \in Acked(job[w]) /\ job[w] \in Job /\ job[w].oid \in ObjectId
    BY <1>14, Zenon DEF StoreInv, JobInv, StoreTypeOK
  <2> QED
    BY <1>14, <2>1, JobPlaceType, Zenon DEF StoreInv, GarbageInv, Acked
<1> QED
  <2>1. NsmTypeOK' /\ NamesMatchObjects' /\ FragmentVersionsBounded'
    BY <1>3, Zenon DEF NsmInv
  <2>2. stored' \subseteq ObjectId /\ job' \in [Writer -> Job]
    BY <1>2, Zenon DEF StoreInv, StoreTypeOK
  <2>3. \A w \in Writer : job'[w].pc \in {"epilogue", "done"} =>
           \A s \in job'[w].slots :
             /\ JobPlace(job[w], s)' \in Place
             /\ \/ Linked(JobPlace(job[w], s))'
                \/ JobPlace(job[w], s)' \in frags => Tracked(JobPlace(job'[w], s))
    BY <1>2, <1>14, Zenon DEF JobPlace
  <2> QED
    BY <1>2, <1>6, <1>7, <1>9, <1>10, <1>11, <1>12, <1>13, <2>1, <2>2, <2>3, MetadataInv, Zenon

-----------------------------------------------------------------------------
(* The end of an upload *)


LEMMA CommitUploadInv ==
  ASSUME StoreInv, NEW w \in Writer, CommitUpload(w)
  PROVE  StoreInv'
<1> USE NoneAssumption
<1>0. PICK j \in Job : j = job[w]
  BY Zenon DEF StoreInv, StoreTypeOK
<1>1. j \in Job /\ j.pc = "put" /\ j.oid \in ObjectId /\ j.version = 0
  BY <1>0, Zenon DEF CommitUpload, StoreInv, JobInv, Uploading
<1>2. PICK done \in SUBSET Acked(j) :
        LET target == [s \in Slot |-> IF s \in done THEN j.target[s] ELSE None] IN
        /\ \/ /\ j.prev = None
              /\ \E allow \in Overwrite, n \in Name, t \in Timestamp :
                   PutObject(allow, j.oid, NewManifest(n, t, target), j.epoch)
           \/ /\ j.prev # None
              /\ Live(j.prev)
              /\ PutObject([kind |-> "PreviousObjectId", id |-> j.prev], j.oid,
                           NewManifest(objects[j.prev].name,
                                       objects[j.prev].timestamp, target),
                           j.epoch)
        /\ job' = [job EXCEPT ![w].pc = "epilogue", ![w].slots = done]
        /\ stored' = stored \union {j.oid}
  BY <1>0, Zenon DEF CommitUpload
<1> DEFINE target == [s \in Slot |-> IF s \in done THEN j.target[s] ELSE None]
<1>3. NsmTypeOK /\ NamesMatchObjects /\ FragmentVersionsBounded
  BY Zenon DEF StoreInv, StoreTypeOK
<1>4. target \in Target /\ done \subseteq Slot
  BY <1>1, Zenon DEF Job, Target, Acked
<1>5. \E n \in Name, t \in Nat, allow \in Overwrite :
        /\ PutObject(allow, j.oid, NewManifest(n, t, target), j.epoch)
        /\ j.prev # None => Live(j.prev) /\ names[n] = j.prev
  <2>1. CASE j.prev = None
    <3>1. PICK allow \in Overwrite, n \in Name, t \in Timestamp :
            PutObject(allow, j.oid, NewManifest(n, t, target), j.epoch)
      BY <1>2, <2>1, Zenon
    <3>2. t \in Nat
      BY TimestampAssumption, Zenon
    <3> HIDE DEF target
    <3> QED
      BY <2>1, <3>1, <3>2, Zenon
  <2>2. CASE j.prev # None
    <3>1. Live(j.prev) /\ j.prev \in ObjectId
      BY <1>1, <1>2, <2>2, Zenon DEF Job
    <3>2. objects[j.prev].name \in Name /\ objects[j.prev].timestamp \in Nat
      BY <1>3, <3>1, Zenon DEF NsmTypeOK, Live, Manifest
    <3>3. names[objects[j.prev].name] = j.prev
      BY <1>3, <3>1, Zenon DEF NamesMatchObjects
    <3>4. [kind |-> "PreviousObjectId", id |-> j.prev] \in Overwrite
      BY <3>1, Zenon DEF Overwrite
    <3>5. PutObject([kind |-> "PreviousObjectId", id |-> j.prev], j.oid,
                    NewManifest(objects[j.prev].name, objects[j.prev].timestamp, target),
                    j.epoch)
      BY <1>2, <2>2, Zenon
    <3> HIDE DEF target
    <3> QED
      BY <3>1, <3>2, <3>3, <3>4, <3>5, Zenon
  <2> QED
    BY <2>1, <2>2, Zenon
<1>5a. PICK n \in Name, t \in Nat, allow \in Overwrite :
        /\ PutObject(allow, j.oid, NewManifest(n, t, target), j.epoch)
        /\ j.prev # None => Live(j.prev) /\ names[n] = j.prev
  BY <1>5, Zenon
<1> DEFINE m == NewManifest(n, t, target)
<1>5b. PICK old : old = names[n]
  BY Zenon
<1>6. /\ m \in Manifest /\ m.name = n /\ m.version_id = 0 /\ m.osd = target
      /\ \A s \in Slot : m.version[s] = 0
  BY <1>4, NewManifestType
<1> HIDE DEF m, target
<1>7. /\ PutObject(allow, j.oid, m, j.epoch)
      /\ job' = [job EXCEPT ![w].pc = "epilogue", ![w].slots = done]
      /\ stored' = stored \union {j.oid}
      /\ UNCHANGED <<frags, tags, sent, inflight, attempts, used, retired, gc, cl,
                     minimum_epoch, next_epoch, active_osds>>
  BY <1>0, <1>2, <1>5a, Zenon DEF m, target, CommitUpload, PutObject
<1>8. NsmInv'
  BY <1>1, <1>3, <1>6, <1>7, PutObjectInv, Zenon DEF NsmInv
\* the object never had a manifest: a rewrite whose first attempt was stored
\* cannot be stored again, for the object it replaces is gone
<1>9. j.oid \notin stored /\ ~Live(j.oid)
  BY <1>0, <1>1, <1>5a, Zenon DEF StoreInv, JobInv, StoredInv
<1>10. /\ \A o \in ObjectId : objects'[o] = IF o = j.oid THEN m
                                            ELSE IF o = old THEN None ELSE objects[o]
       /\ keys_to_be_deleted' = keys_to_be_deleted \union
            (IF old = None THEN {} ELSE PlacesIn(old, objects[old], Slot))
       /\ OsdsUsed(m) \subseteq active_osds
       /\ IsValidEpoch(j.epoch)
  BY <1>5b, <1>6, <1>7, Zenon DEF PutObject, PutAllowed
<1>11. /\ old \in ObjectId \union {None}
       /\ old # None => Live(old) /\ old \in stored /\ old # j.oid
  BY <1>3, <1>5b, <1>9 DEF NsmTypeOK, NamesMatchObjects, StoreInv, StoredInv
<1>12. /\ job' \in [Writer -> Job]
       /\ \A x \in Writer \ {w} : job'[x] = job[x]
       /\ job'[w].pc = "epilogue" /\ job'[w].slots = done /\ job'[w].oid = j.oid
       /\ job'[w].prev = j.prev /\ job'[w].version = j.version /\ job'[w].epoch = j.epoch
       /\ job'[w].attempt = j.attempt /\ job'[w].target = j.target
       /\ job'[w].retried = j.retried
  <2>1. job \in [Writer -> Job]
    BY Zenon DEF StoreInv, StoreTypeOK
  <2> QED
    BY <1>0, <1>4, <1>7, <2>1, Zenon DEF Job

<1>13. ASSUME NEW s \in done
       PROVE  /\ s \in Slot /\ j.target[s] # None
              /\ JobPlace(j, s) \in Place
              /\ JobPlace(j, s)[1] = j.target[s] /\ JobPlace(j, s)[2] = j.oid
              /\ JobPlace(j, s)[3] = s /\ JobPlace(j, s)[4] = 0
              /\ <<JobPlace(j, s), j.epoch, j.attempt>> \in Landed
  <2>1. s \in Slot /\ j.target[s] # None /\ <<JobPlace(j, s), j.epoch, j.attempt>> \notin inflight
    BY Zenon DEF Acked
  <2>2. <<JobPlace(j, s), j.epoch, j.attempt>> \in sent
    BY <1>0, <1>1, <2>1, Zenon DEF StoreInv, JobInv, Writes
  <2> QED
    BY <1>1, <2>1, <2>2, JobPlaceType, Zenon DEF Landed
<1>14. /\ \A s \in done : m.osd[s] = j.target[s]
       /\ \A s \in Slot \ done : m.osd[s] = None
  BY <1>4, <1>6, Zenon DEF target
<1>15. ASSUME NEW p \in Place
       PROVE  /\ p[1] \in Osd /\ p[2] \in ObjectId /\ p[3] \in Slot
              /\ p[2] # j.oid => (Linked(p)' <=> Linked(p) /\ p[2] # old)
              /\ p[2] = j.oid => ~Linked(p)
              /\ p[2] = j.oid /\ Linked(p)' =>
                   p[3] \in done /\ p = JobPlace(j, p[3]) /\ p[1] \in active_osds
  <2>1. p[1] \in Osd /\ p[2] \in ObjectId /\ p[3] \in Slot /\ p[1] # None
        /\ p = <<p[1], p[2], p[3], p[4]>>
    BY DEF Place
  <2>2. p[2] # j.oid => (Linked(p)' <=> Linked(p) /\ p[2] # old)
    BY <1>10, <2>1, Zenon DEF Linked, Live
  <2>3. ASSUME p[2] = j.oid, Linked(p)'
        PROVE  p[3] \in done /\ p = JobPlace(j, p[3]) /\ p[1] \in active_osds
    <3>1. m.osd[p[3]] = p[1] /\ p[4] = 0
      BY <1>1, <1>6, <1>10, <2>1, <2>3, Zenon DEF Linked
    <3>2. p[3] \in done /\ p[1] = j.target[p[3]]
      BY <1>14, <2>1, <3>1, Zenon
    <3>3. p[1] \in OsdsUsed(m)
      BY <2>1, <3>1, Zenon DEF OsdsUsed
    <3> QED
      BY <1>1, <1>10, <2>1, <2>3, <3>1, <3>2, <3>3, Zenon DEF JobPlace
  <2> QED
    BY <1>9, <2>1, <2>2, <2>3, Zenon DEF Linked
<1>16. ASSUME NEW s \in done
       PROVE  Linked(JobPlace(job[w], s))'
  <2>1. m # None /\ m.osd[s] = j.target[s] /\ m.version[s] = 0 /\ objects'[j.oid] = m
    BY <1>1, <1>6, <1>10, <1>13, <1>14, Zenon
  <2> QED
    BY <1>1, <1>12, <2>1, Zenon DEF Linked, Live, JobPlace
<1>17. JobInv'
  <2>1. ASSUME NEW x \in Writer \ {w}, Uploading(x)
        PROVE  /\ job[x].oid # j.oid
               /\ job[x].prev # None => job[x].prev # j.oid /\ job[x].prev \in ObjectId
    <3>1. job[x].prev # None => job[x].prev \in stored
      BY <2>1, Zenon DEF StoreInv, JobInv
    <3>2. stored \subseteq ObjectId
      BY Zenon DEF StoreInv, StoreTypeOK
    <3> QED
      BY <1>0, <1>1, <1>9, <2>1, <3>1, <3>2, Zenon DEF StoreInv, JobInv, Uploading
  <2>2. \A o \in ObjectId : o # j.oid /\ Live(o)' => Live(o) /\ objects'[o] = objects[o]
    BY <1>10, Zenon DEF Live
  <2>3. /\ j.prev # None => ~Live(j.prev)' /\ j.prev \in stored
        /\ j.oid \in used /\ j.oid \in ObjectId
        /\ \A x \in Writer \ {w} : Uploading(x) => job[x].oid # j.oid
        /\ Writes(j) \subseteq sent
    <3>1. j.prev # None => j.prev = old /\ j.prev \in stored
      BY <1>0, <1>1, <1>5a, <1>5b, Zenon DEF StoreInv, JobInv, Uploading
    <3>2. old # None => ~Live(old)'
      BY <1>10, <1>11, Zenon DEF Live
    <3> QED
      BY <1>0, <1>1, <2>1, <3>1, <3>2, Zenon DEF StoreInv, JobInv, Uploading
  <2>4. /\ Live(j.oid)' /\ objects'[j.oid] = m
        /\ \A s \in Slot \ done : m.osd[s] = None
    BY <1>1, <1>6, <1>10, <1>14, Zenon DEF Live
  <2>5. /\ (Writes(job[w]) \subseteq sent)'
        /\ Acked(job[w])' = Acked(j)
        /\ \A x \in Writer \ {w} : Acked(job[x])' = Acked(job[x])
    BY <1>7, <1>12, <2>3 DEF Writes, Acked, JobPlace
  <2>6. ASSUME NEW x \in Writer \ {w}
        PROVE  /\ job'[x] = job[x]
               /\ Uploading(x)' <=> Uploading(x)
               /\ Writes(job[x])' = Writes(job[x])
    BY <1>12, Zenon DEF Uploading, Writes, JobPlace
  <2>7. Uploading(w) /\ Uploading(w)' /\ job'[w].pc = "epilogue" /\ job'[w].oid = j.oid
    BY <1>0, <1>1, <1>12, Zenon DEF Uploading
  <2> USE <1>7, <1>12, <2>1, <2>2, <2>3, <2>4, <2>5, <2>6, <2>7
  <2>8. JobInv
    BY Zenon DEF StoreInv
  <2>9. ASSUME NEW x \in Writer
        PROVE  /\ job'[x].pc # "idle" => job'[x].oid \in ObjectId /\ Writes(job[x])' \subseteq sent'
               /\ job'[x].pc = "update" =>
                    /\ job'[x].version > 0
                    /\ \A s \in Slot : job'[x].target[s] # None => s \in job'[x].slots
               /\ Uploading(x)' =>
                    /\ job'[x].version = 0
                    /\ job'[x].oid \in used'
                    /\ job'[x].prev # None => job'[x].prev \in stored'
                    /\ \A y \in Writer \ {x} : Uploading(y)' => job'[y].oid # job'[x].oid
    BY <1>1, <2>8 DEF JobInv
  <2>10. ASSUME NEW x \in Writer
         PROVE  /\ (\/ job'[x].pc = "put" /\ job'[x].oid \in stored'
                    \/ job'[x].pc = "epilogue") /\ job'[x].prev # None => ~Live(job[x].prev)'
                /\ job'[x].pc = "put" /\ job'[x].oid \in stored' => job'[x].prev # None
    <3>1. CASE x = w
      BY <3>1, Zenon DEF Live
    <3>2. CASE x # w
      BY <2>8, <3>2 DEF JobInv, Uploading, Live
    <3> QED
      BY <3>1, <3>2, Zenon
  <2>11. ASSUME NEW x \in Writer
         PROVE  /\ job'[x].pc \in {"epilogue", "done"} =>
                     job'[x].oid \in stored' /\ job'[x].slots \subseteq Acked(job[x])'
                /\ job'[x].pc = "epilogue" /\ Live(job[x].oid)' =>
                     \/ objects'[job'[x].oid].version_id > 0
                     \/ \A s \in Slot \ job'[x].slots : objects'[job'[x].oid].osd[s] = None
    <3>1. CASE x = w
      BY <3>1
    <3>2. CASE x # w
      BY <2>8, <3>2 DEF JobInv, Uploading, Live
    <3> QED
      BY <3>1, <3>2, Zenon
  <2> HIDE <1>7, <1>12, <2>1, <2>2, <2>3, <2>4, <2>5, <2>6, <2>7
  <2> QED
    BY <2>9, <2>10, <2>11, Zenon DEF JobInv
<1>18. StoredInv'
  <2>1. j.oid \in used
    BY <1>0, <1>1, Zenon DEF StoreInv, JobInv, Uploading
  <2> QED
    BY <1>7, <1>10, <2>1, Zenon DEF StoreInv, StoredInv, Live
<1>19. \A p \in Place : Linked(p)' => Linked(p) \/ NewlyLinked(p)
  <2> SUFFICES ASSUME NEW p \in Place, Linked(p)', p[2] = j.oid
               PROVE  NewlyLinked(p)
    BY <1>15, Zenon
  <2>1. p[3] \in done /\ p = JobPlace(j, p[3]) /\ p[1] \in active_osds
    BY <1>15, Zenon
  <2>2. \E k \in Landed : k[1] = p /\ k[2] >= minimum_epoch
    <3>0. <<JobPlace(j, p[3]), j.epoch, j.attempt>> \in Landed
      BY <1>13, <2>1, Zenon
    <3>1. j.epoch >= minimum_epoch
      BY <1>1, <1>3, <1>10, Zenon DEF IsValidEpoch, Job, NsmTypeOK
    <3> QED
      BY <2>1, <3>0, <3>1, Zenon
  <2>3. p[1] \notin retired
    BY <2>1, Zenon DEF StoreInv, RetiredInv
  <2> QED
    BY <1>9, <2>2, <2>3, Zenon DEF NewlyLinked, Dead
<1>20. \A p \in Place : Linked(p) => Linked(p)' \/ p \in keys_to_be_deleted'
  BY <1>3, <1>10, <1>15, LinkedPlaces, Zenon
<1>21. \A p \in Place : Dead(p) => Dead(p)'
  BY <1>7, <1>9, <1>10, <1>15, Zenon DEF Dead, Live
<1>22. \A p \in keys_to_be_deleted' \ keys_to_be_deleted : Linked(p) /\ Dead(p)'
  <2> SUFFICES ASSUME old # None, NEW p \in PlacesIn(old, objects[old], Slot)
               PROVE  Linked(p) /\ Dead(p)'
    BY <1>10, Zenon
  <2>1. p \in Place /\ p[2] = old /\ Linked(p)
    BY <1>3, <1>11, LivePlaces, Zenon
  <2> QED
    BY <1>7, <1>10, <1>11, <2>1, Zenon DEF Dead, Live
<1>23. ASSUME NEW x \in Writer, job'[x].pc \in {"epilogue", "done"}, NEW s \in job'[x].slots
       PROVE  /\ JobPlace(job[x], s)' \in Place
              /\ \/ Linked(JobPlace(job[x], s))'
                 \/ JobPlace(job[x], s)' \in frags => Tracked(JobPlace(job'[x], s))
  <2>1. CASE x = w
    <3>1. JobPlace(job[w], s)' = JobPlace(j, s)
      BY <1>12, Zenon DEF JobPlace
    <3> QED
      BY <1>12, <1>13, <1>16, <1>23, <2>1, <3>1, Zenon
  <2>2. CASE x # w
    <3>1. job'[x] = job[x] /\ JobPlace(job[x], s)' = JobPlace(job[x], s)
      BY <1>12, <2>2, Zenon DEF JobPlace
    <3>2. s \in Acked(job[x]) /\ job[x] \in Job /\ job[x].oid \in ObjectId
      BY <1>23, <3>1, Zenon DEF StoreInv, JobInv, StoreTypeOK
    <3> QED
      BY <1>23, <3>1, <3>2, JobPlaceType, Zenon DEF StoreInv, GarbageInv, Acked
  <2> QED
    BY <2>1, <2>2, Zenon
<1> QED
  <2>1. NsmTypeOK' /\ NamesMatchObjects' /\ FragmentVersionsBounded'
    BY <1>8, Zenon DEF NsmInv
  <2>2. stored' \subseteq ObjectId
    BY <1>1, <1>7, Zenon DEF StoreInv, StoreTypeOK
  <2>3. keys_to_be_deleted \subseteq keys_to_be_deleted'
    BY <1>10, Zenon
  <2> QED
    BY <1>7, <1>12, <1>17, <1>18, <1>19, <1>20, <1>21, <1>22, <1>23, <2>1, <2>2, <2>3,
       MetadataInv, Zenon

-----------------------------------------------------------------------------
(* Manifest updates *)

\* the epilogue of an upload and the end of a repair, a rebalance or a purge
LEMMA ManifestUpdateInv ==
  ASSUME StoreInv, NEW w \in Writer, NEW j \in Job, j = job[w], j.pc # "idle",
         NEW slots \in SUBSET Slot, {s \in slots : j.target[s] # None} \subseteq Acked(j),
         UpdateManifest(j.oid, slots, j.target, j.epoch, j.version),
         j.version = 0 => \A s \in slots : objects[j.oid].osd[s] = None,
         UNCHANGED <<frags, tags, sent, inflight, attempts, used, stored, retired, gc, cl>>,
         job' \in [Writer -> Job], JobInv',
         \A x \in Writer : job'[x].pc \in {"epilogue", "done"} =>
           /\ job[x].pc \in {"epilogue", "done"}
           /\ job'[x].slots = job[x].slots /\ job'[x].oid = job[x].oid
           /\ job'[x].target = job[x].target /\ job'[x].version = job[x].version
  PROVE  StoreInv'
<1> USE NoneAssumption
<1>1. /\ NsmTypeOK /\ NamesMatchObjects /\ FragmentVersionsBounded
      /\ j.oid \in ObjectId /\ Writes(j) \subseteq sent
  BY Zenon DEF StoreInv, StoreTypeOK, JobInv
<1>2. PICK old \in Manifest : old = objects[j.oid]
  BY <1>1, Zenon DEF UpdateManifest, NsmTypeOK, Live
<1>3. PICK new \in Manifest :
        /\ new = UpdatedManifest(old, slots, j.target, j.version)
        /\ new.version_id = j.version
        /\ \A s \in Slot :
             /\ new.osd[s] = IF s \in slots THEN j.target[s] ELSE old.osd[s]
             /\ new.version[s] = IF s \in slots THEN j.version ELSE old.version[s]
  <2>1. j.target \in Target /\ j.version \in Nat /\ slots \in SUBSET Slot /\ old \in Manifest
    BY Zenon DEF Job
  <2>3. \A m \in Manifest, ss \in SUBSET Slot, t \in Target, v \in Nat :
          UpdatedManifest(m, ss, t, v) \in Manifest
    BY UpdatedManifestType, Zenon
  <2>2. UpdatedManifest(old, slots, j.target, j.version) \in Manifest
    BY <2>1, <2>3, Zenon
  <2> WITNESS UpdatedManifest(old, slots, j.target, j.version) \in Manifest
  <2> QED
    BY Zenon DEF UpdatedManifest
<1>4. /\ \A o \in ObjectId : objects'[o] = IF o = j.oid THEN new ELSE objects[o]
      /\ keys_to_be_deleted' = keys_to_be_deleted \union PlacesIn(j.oid, old, slots)
      /\ OsdsUsed(new) \ OsdsUsed(old) \subseteq active_osds
      /\ IsValidEpoch(j.epoch) /\ Live(j.oid)
      /\ VersionAllowed(old.version_id, j.version)
      /\ UNCHANGED <<minimum_epoch, next_epoch, active_osds>>
  BY <1>1, <1>2, <1>3, Zenon DEF UpdateManifest, NsmTypeOK
<1>5. NsmInv'
  <2>1. j.target \in Target /\ j.version \in Nat
    BY Zenon DEF Job
  <2> QED
    BY <1>1, <2>1, UpdateManifestInv, Zenon DEF NsmInv
<1>6. /\ old.version_id \in Nat /\ j.version \in Nat
      /\ IF j.version = 0 THEN old.version_id = 0 ELSE j.version = old.version_id + 1
      /\ \A s \in Slot : old.version[s] \in Nat /\ old.version[s] <= old.version_id
  BY <1>1, <1>2, <1>4, Zenon DEF VersionAllowed, Manifest, Job, FragmentVersionsBounded
<1>7. ASSUME NEW p \in Place
      PROVE  /\ p[1] \in Osd /\ p[2] \in ObjectId /\ p[3] \in Slot /\ p[4] \in Nat
             /\ p[1] # None
             /\ p[2] # j.oid => (Linked(p)' <=> Linked(p))
             /\ p[2] = j.oid => (Linked(p)' <=> new.osd[p[3]] = p[1] /\ new.version[p[3]] = p[4])
             /\ p[2] = j.oid => (Linked(p) <=> old.osd[p[3]] = p[1] /\ old.version[p[3]] = p[4])
  BY <1>2, <1>4, Zenon DEF Place, Linked, Live
<1>8. ASSUME NEW p \in Place, Linked(p)'
      PROVE  Linked(p) \/ NewlyLinked(p)
  <2> SUFFICES ASSUME p[2] = j.oid, p[3] \in slots
               PROVE  NewlyLinked(p)
    BY <1>3, <1>7, <1>8, Zenon
  <2>1. j.target[p[3]] = p[1] /\ p[4] = j.version /\ j.target[p[3]] # None
    BY <1>3, <1>7, <1>8, Zenon
  <2>2. p = JobPlace(j, p[3])
    BY <2>1 DEF JobPlace, Place
  <2>3. <<JobPlace(j, p[3]), j.epoch, j.attempt>> \in Landed
    BY <1>1, <1>7, <2>1, Zenon DEF Acked, Writes, Landed
  <2>4. j.epoch >= minimum_epoch
    BY <1>1, <1>4, Zenon DEF IsValidEpoch, Job, NsmTypeOK
  <2>5. ~Dead(p)
    BY <1>2, <1>4, <1>6, <2>1 DEF Dead
  <2>6. p[1] \notin retired
    <3>1. p[1] \in OsdsUsed(new)
      BY <1>7, <1>8, Zenon DEF OsdsUsed
    <3>2. CASE p[1] \in active_osds
      BY <3>2, Zenon DEF StoreInv, RetiredInv
    <3>3. CASE p[1] \in OsdsUsed(old)
      BY <1>1, <1>2, <1>4, <3>3, Zenon DEF StoreInv, RetiredInv, RetiredOsdsStayUnused
    <3> QED
      BY <1>4, <3>1, <3>2, <3>3, Zenon
  <2> QED
    BY <2>2, <2>3, <2>4, <2>5, <2>6, Zenon DEF NewlyLinked
<1>9. \A p \in Place : p \in PlacesIn(j.oid, old, slots) <=>
                         p[2] = j.oid /\ p[3] \in slots /\ Linked(p)
  BY <1>1, <1>7, PlacesInMember
<1>10. PlacesIn(j.oid, old, slots) \subseteq Place
  BY <1>1, PlacesInType, Zenon
<1>11. \A p \in Place : Linked(p) => Linked(p)' \/ p \in keys_to_be_deleted'
  BY <1>3, <1>4, <1>7, <1>9, Zenon
<1>12. ASSUME NEW p \in Place, Dead(p) PROVE Dead(p)'
  <2>1. CASE p[2] # j.oid
    BY <1>4, <1>7, <1>12, <2>1, Zenon DEF Dead, Live
  <2>2. CASE p[2] = j.oid
    <3>1. p[4] < old.version_id /\ ~Linked(p)
      BY <1>2, <1>4, <1>12, <2>2, Zenon DEF Dead
    <3>2. p[4] < j.version
      BY <1>6, <1>7, <3>1, SMTT(30)
    <3>3. ~Linked(p)'
      BY <1>3, <1>6, <1>7, <2>2, <3>1, <3>2
    <3>4. objects'[p[2]] = new
      BY <1>4, <1>7, <2>2, Zenon
    <3> QED
      BY <1>3, <1>12, <3>2, <3>3, <3>4, Zenon DEF Dead
  <2> QED
    BY <2>1, <2>2, Zenon
<1>13. ASSUME NEW p \in PlacesIn(j.oid, old, slots)
       PROVE  Linked(p) /\ Dead(p)'
  <2>1. p \in Place /\ p[2] = j.oid /\ p[3] \in slots /\ Linked(p)
    BY <1>9, <1>10, Zenon
  <2>2. old.osd[p[3]] # None /\ p[4] <= old.version_id
    BY <1>6, <1>7, <2>1, Zenon
  <2>3. p[4] < j.version
    BY <1>2, <1>6, <1>7, <2>1, <2>2
  <2>4. ~Linked(p)'
    BY <1>3, <1>6, <1>7, <2>1, <2>3
  <2>5. objects'[p[2]] = new /\ p[2] \in stored
    BY <1>1, <1>4, <2>1, Zenon DEF StoreInv, StoredInv
  <2> QED
    BY <1>3, <2>1, <2>3, <2>4, <2>5, Zenon DEF Dead
<1>14. StoredInv'
  BY <1>4, Zenon DEF StoreInv, StoredInv, Live
<1>15. ASSUME NEW x \in Writer, job'[x].pc \in {"epilogue", "done"}, NEW s \in job'[x].slots
       PROVE  /\ JobPlace(job[x], s)' \in Place
              /\ JobPlace(job[x], s)' \in frags => Tracked(JobPlace(job'[x], s))
  <2>1. JobPlace(job[x], s)' = JobPlace(job[x], s) /\ JobPlace(job'[x], s) = JobPlace(job[x], s)
    BY <1>15, Zenon DEF JobPlace
  <2>2. /\ s \in Acked(job[x]) /\ job[x] \in Job /\ job[x].oid \in ObjectId
        /\ s \in job[x].slots /\ job[x].pc \in {"epilogue", "done"}
    BY <1>15, Zenon DEF StoreInv, JobInv, StoreTypeOK
  <2> QED
    BY <2>1, <2>2, JobPlaceType, Zenon DEF StoreInv, GarbageInv, Acked
<1> QED
  <2>1. NsmTypeOK' /\ NamesMatchObjects' /\ FragmentVersionsBounded'
    BY <1>5, Zenon DEF NsmInv
  <2>2. stored' \subseteq ObjectId
    BY Zenon DEF StoreInv, StoreTypeOK
  <2>3. /\ keys_to_be_deleted \subseteq keys_to_be_deleted'
        /\ \A p \in keys_to_be_deleted' \ keys_to_be_deleted : Linked(p) /\ Dead(p)'
    BY <1>4, <1>13, Zenon
  <2> QED
    BY <1>4, <1>8, <1>11, <1>12, <1>14, <1>15, <2>1, <2>2, <2>3, MetadataInv, Zenon

LEMMA EpilogueInv ==
  ASSUME StoreInv, NEW w \in Writer, Epilogue(w)
  PROVE  StoreInv'
<1>1. PICK j \in Job : j = job[w]
  BY Zenon DEF StoreInv, StoreTypeOK
<1>2. /\ j.pc = "epilogue" /\ j.oid \in ObjectId /\ j.version = 0
      /\ \A x \in Writer \ {w} : Uploading(x) => job[x].oid # j.oid
  BY <1>1, Zenon DEF Epilogue, StoreInv, JobInv, Uploading
<1>3. PICK late \in SUBSET (Acked(j) \ j.slots) :
        UpdateManifest(j.oid, late, j.target, j.epoch, 0)
  BY <1>1, Zenon DEF Epilogue
\* the update can only succeed while the fragments to add are still missing
<1>4. Live(j.oid) /\ objects[j.oid].version_id = 0
  BY <1>3, Zenon DEF UpdateManifest, VersionAllowed
<1>5. late \subseteq Slot /\ \A s \in late : objects[j.oid].osd[s] = None
  <2>1. \/ objects[j.oid].version_id > 0
        \/ \A s \in Slot \ j.slots : objects[j.oid].osd[s] = None
    BY <1>1, <1>2, <1>4, Zenon DEF StoreInv, JobInv
  <2>2. late \subseteq Slot \ j.slots
    BY Zenon DEF Acked
  <2> QED
    BY <1>4, <2>1, <2>2
<1>6. /\ job' \in [Writer -> Job]
      /\ \A x \in Writer \ {w} : job'[x] = job[x]
      /\ job'[w].pc = "done" /\ job'[w].slots = j.slots /\ job'[w].oid = j.oid
      /\ job'[w].prev = j.prev /\ job'[w].version = j.version /\ job'[w].epoch = j.epoch
      /\ job'[w].attempt = j.attempt /\ job'[w].target = j.target
  <2>1. job \in [Writer -> Job] /\ job' = [job EXCEPT ![w].pc = "done"]
    BY Zenon DEF StoreInv, StoreTypeOK, Epilogue
  <2> QED
    BY <1>1, <2>1, Zenon DEF Job
<1>7. UNCHANGED <<frags, tags, sent, inflight, attempts, used, stored, retired, gc, cl>>
  BY Zenon DEF Epilogue
<1>8. /\ \A o \in ObjectId \ {j.oid} : objects'[o] = objects[o]
      /\ \A o \in ObjectId : Live(o)' => Live(o)
  BY <1>3, <1>4, Zenon DEF UpdateManifest, Live, StoreInv, StoreTypeOK, NsmTypeOK
<1>9. JobInv'
  <2>1. JobInv /\ Uploading(w) /\ Uploading(w)'
    BY <1>1, <1>2, <1>6, Zenon DEF StoreInv, Uploading
  <2>2. \A x \in Writer : /\ Writes(job[x])' = Writes(job[x])
                          /\ Acked(job[x])' = Acked(job[x])
                          /\ Uploading(x)' <=> Uploading(x)
    BY <1>1, <1>2, <1>6, <1>7 DEF Writes, Acked, JobPlace, Uploading
  <2>3. \A x \in Writer : job[x].prev \in ObjectId \union {None}
    BY Zenon DEF StoreInv, StoreTypeOK, Job
  <2>4. ASSUME NEW x \in Writer
        PROVE  /\ job'[x].pc # "idle" => job'[x].oid \in ObjectId /\ Writes(job[x])' \subseteq sent'
               /\ job'[x].pc = "update" =>
                    /\ job'[x].version > 0
                    /\ \A s \in Slot : job'[x].target[s] # None => s \in job'[x].slots
               /\ Uploading(x)' =>
                    /\ job'[x].version = 0
                    /\ job'[x].oid \in used'
                    /\ job'[x].prev # None => job'[x].prev \in stored'
                    /\ \A y \in Writer \ {x} : Uploading(y)' => job'[y].oid # job'[x].oid
               /\ job'[x].pc = "put" /\ job'[x].oid \in stored' => job'[x].prev # None
               /\ job'[x].pc \in {"epilogue", "done"} =>
                    job'[x].oid \in stored' /\ job'[x].slots \subseteq Acked(job[x])'
    BY <1>1, <1>2, <1>6, <1>7, <2>1, <2>2, SMTT(30) DEF JobInv
  <2>5. ASSUME NEW x \in Writer
        PROVE  /\ (\/ job'[x].pc = "put" /\ job'[x].oid \in stored'
                   \/ job'[x].pc = "epilogue") /\ job'[x].prev # None => ~Live(job[x].prev)'
               /\ job'[x].pc = "epilogue" /\ Live(job[x].oid)' =>
                     \/ objects'[job'[x].oid].version_id > 0
                     \/ \A s \in Slot \ job'[x].slots : objects'[job'[x].oid].osd[s] = None
    BY <1>2, <1>6, <1>7, <1>8, <2>1, <2>3 DEF JobInv, Uploading, Live
  <2> QED
    BY <2>4, <2>5, Zenon DEF JobInv
<1> QED
  <2>1. {s \in late : j.target[s] # None} \subseteq Acked(j)
    BY Zenon
  <2>2. \A x \in Writer : job'[x].pc \in {"epilogue", "done"} =>
           /\ job[x].pc \in {"epilogue", "done"}
           /\ job'[x].slots = job[x].slots /\ job'[x].oid = job[x].oid
           /\ job'[x].target = job[x].target /\ job'[x].version = job[x].version
    BY <1>1, <1>2, <1>6, Zenon
  <2> QED
    BY <1>1, <1>2, <1>3, <1>5, <1>6, <1>7, <1>9, <2>1, <2>2, ManifestUpdateInv, Zenon

\* a writer that stops: its job is forgotten, the rest of JobInv stays
LEMMA IdleJobInv ==
  ASSUME StoreInv, NEW w \in Writer, job' = [job EXCEPT ![w] = IdleJob],
         UNCHANGED <<sent, inflight, used, stored>>,
         \A o \in ObjectId : Live(o)' => Live(o),
         \A o \in ObjectId : Live(o)' =>
           objects'[o] = objects[o] \/ objects'[o].version_id > 0
  PROVE  /\ job' \in [Writer -> Job]
         /\ JobInv'
         /\ \A x \in Writer : job'[x].pc # "idle" => job'[x] = job[x]
<1>1. job \in [Writer -> Job] /\ JobInv
  BY Zenon DEF StoreInv, StoreTypeOK
<1>2. IdleJob \in Job /\ IdleJob.pc = "idle"
  BY Zenon DEF IdleJob, Job, Target
<1>3. job' \in [Writer -> Job] /\ \A x \in Writer : job'[x] = IF x = w THEN IdleJob ELSE job[x]
  BY <1>1, <1>2, Zenon
<1>4. \A x \in Writer : job[x].prev \in ObjectId \union {None}
  BY <1>1, Zenon DEF Job
<1>5. ASSUME NEW x \in Writer, job'[x].pc # "idle"
      PROVE  /\ job'[x] = job[x]
             /\ Writes(job[x])' = Writes(job[x])
             /\ Acked(job[x])' = Acked(job[x])
             /\ Uploading(x)' <=> Uploading(x)
  BY <1>2, <1>3, <1>5, Zenon DEF Writes, Acked, JobPlace, Uploading
<1>6. ASSUME NEW x \in Writer, job'[x].pc = "idle"
      PROVE  ~Uploading(x)'
  BY <1>6, Zenon DEF Uploading
<1>7. JobInv'
  BY <1>1, <1>4, <1>5, <1>6 DEF JobInv, Live
<1> QED
  BY <1>3, <1>5, <1>7, Zenon

LEMMA FinishUpdateInv ==
  ASSUME StoreInv, NEW w \in Writer, FinishUpdate(w)
  PROVE  StoreInv'
<1>1. PICK j \in Job : j = job[w]
  BY Zenon DEF StoreInv, StoreTypeOK
<1>2. /\ j.pc = "update" /\ j.oid \in ObjectId /\ j.version > 0 /\ j.version \in Nat
      /\ j.slots \in SUBSET Slot
  BY <1>1, Zenon DEF FinishUpdate, StoreInv, JobInv, Job
<1>3. UpdateManifest(j.oid, j.slots, j.target, j.epoch, j.version)
  BY <1>1, Zenon DEF FinishUpdate
<1>4. UNCHANGED <<frags, tags, sent, inflight, attempts, used, stored, retired, gc, cl>>
  BY Zenon DEF FinishUpdate
<1>5. Live(j.oid) /\ objects'[j.oid].version_id = j.version
      /\ \A o \in ObjectId \ {j.oid} : objects'[o] = objects[o]
  BY <1>2, <1>3, Zenon DEF UpdateManifest, UpdatedManifest, StoreInv, StoreTypeOK, NsmTypeOK
<1>6. /\ \A o \in ObjectId : Live(o)' => Live(o)
      /\ \A o \in ObjectId : Live(o)' =>
           objects'[o] = objects[o] \/ objects'[o].version_id > 0
  BY <1>2, <1>5, Zenon DEF Live
<1>7. /\ job' \in [Writer -> Job] /\ JobInv'
      /\ \A x \in Writer : job'[x].pc # "idle" => job'[x] = job[x]
  BY <1>4, <1>6, IdleJobInv, Zenon DEF FinishUpdate
<1>8. {s \in j.slots : j.target[s] # None} \subseteq Acked(j)
  BY <1>1, Zenon DEF FinishUpdate
<1>9. \A x \in Writer : job'[x].pc \in {"epilogue", "done"} =>
        /\ job[x].pc \in {"epilogue", "done"}
        /\ job'[x].slots = job[x].slots /\ job'[x].oid = job[x].oid
        /\ job'[x].target = job[x].target /\ job'[x].version = job[x].version
  BY <1>7, Zenon
<1>10. j.pc # "idle" /\ j.version # 0
  BY <1>2
<1> QED
  BY <1>1, <1>2, <1>3, <1>4, <1>7, <1>8, <1>9, <1>10, ManifestUpdateInv, Zenon

-----------------------------------------------------------------------------
(* Writers that start, tidy up or stop *)

LEMMA AbandonInv ==
  ASSUME StoreInv, NEW w \in Writer, Abandon(w)
  PROVE  StoreInv'
<1> USE DEF Abandon, nsmVars
<1>1. /\ job' \in [Writer -> Job] /\ JobInv'
      /\ \A x \in Writer : job'[x].pc # "idle" => job'[x] = job[x]
  BY IdleJobInv, Zenon DEF Live
<1>2. StoreTypeOK'
  BY <1>1, Zenon DEF StoreInv, StoreTypeOK, NsmTypeOK
<1>3. GarbageInv'
  <2>1. \A p : (Rewritten(p)' <=> Rewritten(p)) /\ (Tracked(p)' <=> Tracked(p))
    BY Zenon DEF Rewritten, Linked, Tracked, Live
  <2>2. GarbageInv
    BY Zenon DEF StoreInv
  <2> QED
    BY <1>1, <2>1, <2>2, Zenon DEF GarbageInv, JobPlace
<1> QED
  BY <1>1, <1>2, <1>3, Frame, FrameGarbage, Zenon DEF StoreInv

LEMMA CleanupGcTagInv ==
  ASSUME StoreInv, NEW w \in Writer, CleanupGcTag(w)
  PROVE  StoreInv'
<1> USE DEF nsmVars
<1>1. PICK s \in job[w].slots : tags' = tags \ {<<JobPlace(job[w], s), job[w].epoch>>}
  BY Zenon DEF CleanupGcTag
<1>2. StoreTypeOK'
  BY <1>1, Zenon DEF CleanupGcTag, StoreInv, StoreTypeOK, NsmTypeOK
<1>3. TagInv'
  BY <1>1, Zenon DEF CleanupGcTag, StoreInv, TagInv, Landed
<1>4. NoUntrackedGarbage'
  <2> SUFFICES ASSUME NEW p \in frags, NEW t \in tags, t[1] = p, t \notin tags'
               PROVE  Tracked(p)
    BY Zenon DEF StoreInv, NoUntrackedGarbage, CleanupGcTag, Tracked, Linked, Live, Rewritten
  <2>1. p = JobPlace(job[w], s)
    BY <1>1
  <2> QED
    BY <2>1, Zenon DEF CleanupGcTag, StoreInv, GarbageInv
<1> QED
  BY <1>2, <1>3, <1>4, Frame, FrameGarbage, Zenon DEF StoreInv, CleanupGcTag

LEMMA BeginInv ==
  ASSUME StoreInv, NEW w \in Writer, NEW j \in Job, Begin(w, j),
         used \subseteq used', used' \subseteq ObjectId,
         j.attempt = attempts, j.oid \in ObjectId,
         \/ /\ j.pc = "update"
            /\ j.version > 0
            /\ \A s \in Slot : j.target[s] # None => s \in j.slots
         \/ /\ j.pc = "put"
            /\ j.version = 0
            /\ j.oid \in used'
            /\ j.prev # None => j.prev \in stored
            /\ \A x \in Writer \ {w} : Uploading(x) => job[x].oid # j.oid
            /\ j.oid \in stored => j.prev # None /\ ~Live(j.prev)
  PROVE  StoreInv'
<1>1. /\ UNCHANGED <<names, objects, minimum_epoch, next_epoch, active_osds,
                     keys_to_be_deleted, frags, tags, stored, retired, gc, cl>>
      /\ sent' = sent \union Writes(j) /\ inflight' = inflight \union Writes(j)
      /\ attempts' = attempts + 1
      /\ job' = [job EXCEPT ![w] = j]
  BY Zenon DEF Begin, nsmVars
<1>2. Writes(j) \subseteq Place \X Nat \X Nat /\ \A m \in Writes(j) : m[3] = attempts /\ m[2] = j.epoch
  <2>1. \A s \in Slot : j.target[s] # None => JobPlace(j, s) \in Place
    BY JobPlaceType, NoneAssumption, Zenon
  <2>2. j.epoch \in Nat /\ j.attempt \in Nat
    BY Zenon DEF Job
  <2> QED
    BY <2>1, <2>2 DEF Writes
<1>3. attempts \in Nat /\ \A m \in sent : m[3] \in Nat /\ m[3] < attempts
  BY Zenon DEF StoreInv, StoreTypeOK, SentInv
<1>4. job' \in [Writer -> Job] /\ \A x \in Writer : job'[x] = IF x = w THEN j ELSE job[x]
  BY <1>1, Zenon DEF StoreInv, StoreTypeOK
<1>5. StoreTypeOK'
  BY <1>1, <1>2, <1>3, <1>4 DEF StoreInv, StoreTypeOK, NsmTypeOK
<1>6. SentInv'
  BY <1>1, <1>2, <1>3 DEF StoreInv, SentInv
<1>7. sent \subseteq sent' /\ Landed' = Landed
  BY <1>1, <1>2, <1>3 DEF Landed, StoreInv, StoreTypeOK
<1>8. \A p : /\ Rewritten(p) => Rewritten(p)'
             /\ Linked(p)' <=> Linked(p)
             /\ Dead(p)' <=> Dead(p)
             /\ Tracked(p) => Tracked(p)'
  BY <1>1, <1>7, RewrittenGrows, Zenon DEF Linked, Dead, Tracked, Live
<1>9. StoredInv'
  BY <1>1, Zenon DEF StoreInv, StoredInv, Live
<1>10. JobInv'
  <2>1. JobInv
    BY Zenon DEF StoreInv
  <2>2. ASSUME NEW x \in Writer, x # w, job[x].pc # "idle"
        PROVE  /\ Writes(job[x])' = Writes(job[x])
               /\ Acked(job[x])' = Acked(job[x])
    <3>1. job'[x] = job[x] /\ Writes(job[x]) \subseteq sent
      BY <1>4, <2>1, <2>2, Zenon DEF JobInv
    <3>2. \A s \in Slot : job[x].target[s] # None =>
            <<JobPlace(job[x], s), job[x].epoch, job[x].attempt>> \notin Writes(j)
      <4> SUFFICES ASSUME NEW s \in Slot, job[x].target[s] # None,
                          <<JobPlace(job[x], s), job[x].epoch, job[x].attempt>> \in Writes(j)
                   PROVE  FALSE
        BY Zenon
      <4>1. <<JobPlace(job[x], s), job[x].epoch, job[x].attempt>> \in sent
        BY <3>1, Zenon DEF Writes
      <4>2. job[x].attempt = attempts
        BY <1>2, Zenon
      <4>3. job[x].attempt < attempts
        BY <1>3, <4>1, Zenon
      <4> QED
        BY <1>3, <4>2, <4>3
    <3> QED
      BY <1>1, <3>1, <3>2, SMTT(30) DEF Writes, Acked, JobPlace
  <2>3. \A x \in Writer \ {w} : job'[x] = job[x] /\ (Uploading(x)' <=> Uploading(x))
    BY <1>4, Zenon DEF Uploading
  <2>4. job'[w] = j /\ (Uploading(w)' <=> j.pc = "put") /\ Writes(job[w])' = Writes(j)
    BY <1>4, Zenon DEF Uploading, Writes, JobPlace
  <2>5. \A o : Live(o)' <=> Live(o)
    BY <1>1, Zenon DEF Live
  <2>6. ASSUME NEW x \in Writer
        PROVE  /\ job'[x].pc # "idle" => job'[x].oid \in ObjectId /\ Writes(job[x])' \subseteq sent'
               /\ job'[x].pc = "update" =>
                    /\ job'[x].version > 0
                    /\ \A s \in Slot : job'[x].target[s] # None => s \in job'[x].slots
               /\ Uploading(x)' =>
                    /\ job'[x].version = 0
                    /\ job'[x].oid \in used'
                    /\ job'[x].prev # None => job'[x].prev \in stored'
                    /\ \A y \in Writer \ {x} : Uploading(y)' => job'[y].oid # job'[x].oid
    <3>1. CASE x = w
      BY <1>1, <2>3, <2>4, <3>1
    <3>2. CASE x # w
      BY <1>1, <1>7, <2>1, <2>2, <2>3, <2>4, <3>2, SMTT(30) DEF JobInv
    <3> QED
      BY <3>1, <3>2, Zenon
  <2>7. ASSUME NEW x \in Writer
        PROVE  /\ (\/ job'[x].pc = "put" /\ job'[x].oid \in stored'
                   \/ job'[x].pc = "epilogue") /\ job'[x].prev # None => ~Live(job[x].prev)'
               /\ job'[x].pc = "put" /\ job'[x].oid \in stored' => job'[x].prev # None
               /\ job'[x].pc \in {"epilogue", "done"} =>
                    job'[x].oid \in stored' /\ job'[x].slots \subseteq Acked(job[x])'
               /\ job'[x].pc = "epilogue" /\ Live(job[x].oid)' =>
                     \/ objects'[job'[x].oid].version_id > 0
                     \/ \A s \in Slot \ job'[x].slots : objects'[job'[x].oid].osd[s] = None
    <3>1. CASE x = w
      BY <1>1, <2>4, <3>1 DEF Live
    <3>2. CASE x # w
      BY <1>1, <2>1, <2>2, <2>3, <3>2, SMTT(30) DEF JobInv, Live
    <3> QED
      BY <3>1, <3>2, Zenon
  <2> QED
    BY <2>6, <2>7, Zenon DEF JobInv
<1>11. ObsoleteInv'
  BY <1>1, <1>7, <1>8, Zenon DEF StoreInv, ObsoleteInv
<1>12. LinkedInv'
  BY <1>1, <1>7 DEF StoreInv, LinkedInv, Live, PlacesIn
<1>13. RemovedInv'
  BY <1>1, <1>7, <1>8, Zenon DEF StoreInv, RemovedInv
<1>14. TagInv'
  BY <1>1, <1>7, Zenon DEF StoreInv, TagInv
<1>15. PickInv'
  BY <1>1, <1>8, Zenon DEF StoreInv, PickInv
<1>16. LinkedFragmentsWrittenOnceExist'
  BY <1>1, <1>8, Zenon DEF StoreInv, LinkedFragmentsWrittenOnceExist, Live, PlacesIn
<1>17. GarbageInv'
  <2>1. GarbageInv
    BY Zenon DEF StoreInv
  <2> QED
    BY <1>1, <1>4, <1>8, <2>1, Zenon DEF GarbageInv, JobPlace
<1>18. NoUntrackedGarbage'
  BY <1>1, <1>8, Zenon DEF StoreInv, NoUntrackedGarbage
<1> QED
  BY <1>1, <1>5, <1>6, <1>9, <1>10, <1>11, <1>12, <1>13, <1>14, <1>15, <1>16, <1>17,
     <1>18, Frame, Zenon DEF StoreInv

LEMMA StartPutInv ==
  ASSUME StoreInv, NEW w \in Writer, StartUpload(w) \/ StartRewrite(w) \/ RetryRewrite(w)
  PROVE  StoreInv'
<1> USE NoneAssumption
<1>1. attempts \in Nat /\ CachedEpoch \subseteq Nat /\ UploadTarget \subseteq Target
  BY SMTT(30) DEF CachedEpoch, UploadTarget, StoreInv, StoreTypeOK, NsmTypeOK
<1>2. used \subseteq ObjectId /\ stored \subseteq used
  BY Zenon DEF StoreInv, StoreTypeOK, StoredInv
<1>3. \A x \in Writer : Uploading(x) => job[x].oid \in used
  BY Zenon DEF StoreInv, JobInv
<1>4. CASE StartUpload(w)
  <2>1. PICK o \in ObjectId \ used, e \in CachedEpoch, t \in UploadTarget :
          Begin(w, PutJob(o, None, FALSE, e, t)) /\ used' = used \union {o}
    BY <1>4, Zenon DEF StartUpload
  <2>2. PICK j : j = PutJob(o, None, FALSE, e, t)
    BY Zenon
  <2>7. /\ j \in Job /\ j.oid = o /\ j.prev = None /\ j.pc = "put"
        /\ j.version = 0 /\ j.attempt = attempts
    BY <1>1, <2>2, Zenon DEF PutJob, Job
  <2>3. /\ Begin(w, j) /\ used \subseteq used' /\ used' \subseteq ObjectId
        /\ j.attempt = attempts /\ j.oid \in ObjectId /\ j.oid \in used'
        /\ j.pc = "put" /\ j.version = 0
        /\ j.prev # None => j.prev \in stored
        /\ \A x \in Writer \ {w} : Uploading(x) => job[x].oid # j.oid
        /\ j.oid \in stored => j.prev # None /\ ~Live(j.prev)
    BY <1>2, <1>3, <2>1, <2>2, <2>7, Zenon
  <2> QED
    BY <2>3, <2>7, BeginInv, Zenon
<1>5. CASE StartRewrite(w)
  <2>1. PICK o \in ObjectId \ used, prev \in ObjectId, e \in CachedEpoch, t \in UploadTarget :
          Live(prev) /\ Begin(w, PutJob(o, prev, FALSE, e, t)) /\ used' = used \union {o}
    BY <1>5, Zenon DEF StartRewrite
  <2>2. PICK j : j = PutJob(o, prev, FALSE, e, t)
    BY Zenon
  <2>7. /\ j \in Job /\ j.oid = o /\ j.prev = prev /\ j.pc = "put"
        /\ j.version = 0 /\ j.attempt = attempts
    BY <1>1, <2>2, Zenon DEF PutJob, Job
  <2>3. prev \in stored
    BY <2>1, Zenon DEF StoreInv, StoredInv
  <2>4. /\ Begin(w, j) /\ used \subseteq used' /\ used' \subseteq ObjectId
        /\ j.attempt = attempts /\ j.oid \in ObjectId /\ j.oid \in used'
        /\ j.pc = "put" /\ j.version = 0
        /\ j.prev # None => j.prev \in stored
        /\ \A x \in Writer \ {w} : Uploading(x) => job[x].oid # j.oid
        /\ j.oid \in stored => j.prev # None /\ ~Live(j.prev)
    BY <1>2, <1>3, <2>1, <2>2, <2>3, <2>7, Zenon
  <2> QED
    BY <2>4, <2>7, BeginInv, Zenon
<1>6. CASE RetryRewrite(w)
  <2>1. PICK o \in ObjectId, prev \in ObjectId : o = job[w].oid /\ prev = job[w].prev
    BY <1>6, Zenon DEF RetryRewrite, StoreInv, StoreTypeOK, JobInv, Job
  <2>2. PICK e \in CachedEpoch, t \in UploadTarget : Begin(w, PutJob(o, prev, TRUE, e, t))
    BY <1>6, <2>1, Zenon DEF RetryRewrite
  <2>3. PICK j : j = PutJob(o, prev, TRUE, e, t)
    BY Zenon
  <2>7. /\ j \in Job /\ j.oid = o /\ j.prev = prev /\ j.pc = "put"
        /\ j.version = 0 /\ j.attempt = attempts
    BY <1>1, <2>1, <2>3, Zenon DEF PutJob, Job
  <2>4. /\ Uploading(w) /\ o \in used /\ prev \in stored
        /\ \A x \in Writer \ {w} : Uploading(x) => job[x].oid # o
        /\ o \in stored => ~Live(prev)
    BY <1>6, <2>1, Zenon DEF RetryRewrite, StoreInv, JobInv, Uploading
  <2>5. used' = used
    BY <1>6, Zenon DEF RetryRewrite
  <2>6. /\ Begin(w, j) /\ used \subseteq used' /\ used' \subseteq ObjectId
        /\ j.attempt = attempts /\ j.oid \in ObjectId /\ j.oid \in used'
        /\ j.pc = "put" /\ j.version = 0
        /\ j.prev # None => j.prev \in stored
        /\ \A x \in Writer \ {w} : Uploading(x) => job[x].oid # j.oid
        /\ j.oid \in stored => j.prev # None /\ ~Live(j.prev)
    BY <1>2, <2>1, <2>2, <2>3, <2>4, <2>5, <2>7, Zenon
  <2> QED
    BY <2>6, <2>7, BeginInv, Zenon
<1> QED
  BY <1>4, <1>5, <1>6, Zenon

LEMMA StartUpdateInv ==
  ASSUME StoreInv, NEW w \in Writer, NEW o \in ObjectId, Live(o), NEW slots \in SUBSET Slot,
         NEW t \in Target, \A s \in Slot : t[s] # None => s \in slots,
         StartUpdate(w, o, slots, t)
  PROVE  StoreInv'
<1>1. PICK e \in CachedEpoch : Begin(w, UpdateJob(o, slots, e, t))
  BY Zenon DEF StartUpdate
<1>2. e \in Nat /\ attempts \in Nat /\ objects[o].version_id \in Nat
  BY SMTT(30) DEF CachedEpoch, StoreInv, StoreTypeOK, NsmTypeOK, Manifest, Live
<1>8. objects[o].version_id + 1 \in Nat
  BY <1>2
<1>3. UpdateJob(o, slots, e, t) \in Job
  BY <1>2, <1>8, Zenon DEF UpdateJob, Job
<1>4. /\ UpdateJob(o, slots, e, t).pc = "update" /\ UpdateJob(o, slots, e, t).version > 0
      /\ UpdateJob(o, slots, e, t).oid = o /\ UpdateJob(o, slots, e, t).attempt = attempts
      /\ UpdateJob(o, slots, e, t).target = t /\ UpdateJob(o, slots, e, t).slots = slots
  BY <1>2 DEF UpdateJob
<1>5. PICK j \in Job : j = UpdateJob(o, slots, e, t)
  BY <1>3, Zenon
<1>6. used' = used /\ used \subseteq ObjectId
  BY Zenon DEF StartUpdate, StoreInv, StoreTypeOK
<1> QED
  BY <1>1, <1>4, <1>5, <1>6, BeginInv, Zenon

LEMMA StartRepairInv ==
  ASSUME StoreInv, NEW w \in Writer, StartRepair(w) \/ StartRebalance(w) \/ StartPurge(w)
  PROVE  StoreInv'
<1>1. CASE StartRepair(w)
  BY <1>1, StartUpdateInv, Zenon DEF StartRepair
<1>2. CASE StartRebalance(w)
  <2>1. PICK o \in ObjectId, source \in Osd, target \in Osd :
          /\ Live(o)
          /\ LET slots == {s \in Slot : objects[o].osd[s] = source} IN
               StartUpdate(w, o, slots, [s \in Slot |-> IF s \in slots THEN target ELSE None])
    BY <1>2, Zenon DEF StartRebalance
  <2>2. PICK slots \in SUBSET Slot : slots = {s \in Slot : objects[o].osd[s] = source}
    BY Zenon
  <2>3. PICK t \in Target : t = [s \in Slot |-> IF s \in slots THEN target ELSE None]
    BY Zenon DEF Target
  <2> QED
    BY <2>1, <2>2, <2>3, StartUpdateInv, Zenon
<1>3. CASE StartPurge(w)
  <2>1. PICK o \in ObjectId, purging \in SUBSET Osd :
          /\ Live(o)
          /\ StartUpdate(w, o, {s \in Slot : objects[o].osd[s] \in purging},
                         [s \in Slot |-> None])
    BY <1>3, Zenon DEF StartPurge
  <2>2. PICK slots \in SUBSET Slot : slots = {s \in Slot : objects[o].osd[s] \in purging}
    BY Zenon
  <2>3. PICK t \in Target : t = [s \in Slot |-> None]
    BY Zenon DEF Target
  <2> QED
    BY <2>1, <2>2, <2>3, StartUpdateInv, Zenon
<1> QED
  BY <1>1, <1>2, <1>3, Zenon

-----------------------------------------------------------------------------
(* The decommissioning of an OSD *)

LEMMA OsdStepInv ==
  ASSUME StoreInv, NEW d \in Osd, OsdStep(d)
  PROVE  StoreInv'
<1> USE DEF nsmVars, storeVars
<1>1. CASE DecommissionOsd(d)
  <2> USE <1>1 DEF DecommissionOsd, UnlinkOsd
  <2>1. StoreTypeOK'
    BY Zenon DEF StoreInv, StoreTypeOK, NsmTypeOK
  <2>2. RetiredInv'
    BY Zenon DEF StoreInv, RetiredInv, RetiredOsdsStayUnused, Live, OsdsUsed
  <2> QED
    BY <2>1, <2>2, Frame, FrameGarbage, Zenon DEF StoreInv
<1>2. CASE OsdRepaired(d)
  <2>1. /\ retired' = retired \union {d} /\ d \notin active_osds
        /\ \A o \in ObjectId : Live(o) => d \notin OsdsUsed(objects[o])
        /\ UNCHANGED <<names, objects, minimum_epoch, next_epoch, active_osds,
                       keys_to_be_deleted, frags, tags, sent, inflight, attempts, used,
                       stored, job, gc, cl>>
    BY <1>2, Zenon DEF OsdRepaired
  <2>2. StoreTypeOK'
    BY <2>1, Zenon DEF StoreInv, StoreTypeOK, NsmTypeOK
  <2>3. RetiredInv'
    BY <2>1, Zenon DEF StoreInv, RetiredInv, RetiredOsdsStayUnused, Live, OsdsUsed
  <2>4. \A p : /\ Rewritten(p)' <=> Rewritten(p)
               /\ Linked(p)' <=> Linked(p)
               /\ Dead(p)' <=> Dead(p)
               /\ Tracked(p) => Tracked(p)'
    BY <2>1, Zenon DEF Rewritten, Linked, Dead, Tracked, Live
  <2>5. RemovedInv'
    BY <2>1, <2>4, Zenon DEF StoreInv, RemovedInv, Landed
  <2>6. PickInv'
    BY <2>1, <2>4, Zenon DEF StoreInv, PickInv
  <2>7. GarbageInv'
    BY <2>1, <2>4, Zenon DEF StoreInv, GarbageInv, JobPlace
  <2>8. NoUntrackedGarbage'
    BY <2>1, <2>4, Zenon DEF StoreInv, NoUntrackedGarbage
  <2> QED
    BY <2>1, <2>2, <2>3, <2>5, <2>6, <2>7, <2>8, Frame, FrameGarbage, Zenon DEF StoreInv
<1>3. CASE CleanupNamespaceOsd(d)
  <2>1. /\ d \in retired
        /\ keys_to_be_deleted' = keys_to_be_deleted \ {p \in keys_to_be_deleted : p[1] = d}
        /\ UNCHANGED <<names, objects, minimum_epoch, next_epoch, active_osds, frags, tags,
                       sent, inflight, attempts, used, stored, retired, job, gc, cl>>
    BY <1>3, Zenon DEF CleanupNamespaceOsd, CleanupOsdKeysToBeDeleted, MarkKeysDeleted
  <2>2. StoreTypeOK'
    BY <2>1, Zenon DEF StoreInv, StoreTypeOK, NsmTypeOK
  <2>3. \A p : /\ Rewritten(p)' <=> Rewritten(p)
               /\ Linked(p)' <=> Linked(p)
               /\ Dead(p)' <=> Dead(p)
               /\ Tracked(p) => Tracked(p)'
    BY <2>1, Zenon DEF Rewritten, Linked, Dead, Tracked, Live
  <2>4. ObsoleteInv'
    BY <2>1, <2>3, Zenon DEF StoreInv, ObsoleteInv, Landed
  <2>5. PickInv'
    BY <2>1, <2>3, Zenon DEF StoreInv, PickInv
  <2>6. GarbageInv'
    BY <2>1, <2>3, Zenon DEF StoreInv, GarbageInv, JobPlace
  <2>7. NoUntrackedGarbage'
    BY <2>1, <2>3, Zenon DEF StoreInv, NoUntrackedGarbage, Tracked
  <2> QED
    BY <2>1, <2>2, <2>4, <2>5, <2>6, <2>7, Frame, FrameGarbage, Zenon DEF StoreInv
<1>4. CASE CleanupOsdNamespace(d)
  <2>1. /\ d \in retired
        /\ frags' = {p \in frags : p[1] # d}
        /\ tags' = {t \in tags : t[1][1] # d}
        /\ UNCHANGED <<names, objects, minimum_epoch, next_epoch, active_osds,
                       keys_to_be_deleted, sent, inflight, attempts, used, stored, retired,
                       job, gc, cl>>
    BY <1>4, Zenon DEF CleanupOsdNamespace
  <2>2. StoreTypeOK'
    BY <2>1, Zenon DEF StoreInv, StoreTypeOK, NsmTypeOK
  <2>3. \A p : /\ Rewritten(p)' <=> Rewritten(p)
               /\ Linked(p)' <=> Linked(p)
               /\ Dead(p)' <=> Dead(p)
               /\ Tracked(p)' <=> Tracked(p)
    BY <2>1, Zenon DEF Rewritten, Linked, Dead, Tracked, Live
  <2>4. RemovedInv'
    BY <2>1, <2>3, Zenon DEF StoreInv, RemovedInv, Landed
  <2>5. TagInv'
    BY <2>1, Zenon DEF StoreInv, TagInv, Landed
  <2>6. PickInv'
    BY <2>1, <2>3, Zenon DEF StoreInv, PickInv
  <2>7. LinkedFragmentsWrittenOnceExist'
    <3>1. \A p \in Place : Linked(p)' => p \in frags' \/ Rewritten(p)'
      BY <2>1, <2>3, LinkedByPlace, Zenon DEF StoreInv, StoreTypeOK
    <3> QED
      BY <2>2, <3>1, LinkedFragmentsNext, Zenon DEF StoreTypeOK
  <2>8. GarbageInv'
    BY <2>1, <2>3, Zenon DEF StoreInv, GarbageInv, JobPlace
  <2>9. NoUntrackedGarbage'
    BY <2>1, <2>3, Zenon DEF StoreInv, NoUntrackedGarbage, Tracked
  <2> QED
    BY <2>1, <2>2, <2>4, <2>5, <2>6, <2>7, <2>8, <2>9, Frame, FrameGarbage, Zenon DEF StoreInv
<1> QED
  BY <1>1, <1>2, <1>3, <1>4, Zenon DEF OsdStep

-----------------------------------------------------------------------------
(* The theorems *)

LEMMA StoreInvInit == Init => StoreInv
<1> SUFFICES ASSUME Init PROVE StoreInv
  BY Zenon
<1> USE DEF Init
<1>1. IdleJob \in Job /\ IdleGc \in GcState /\ IdleCl \in ClState
  BY Zenon DEF IdleJob, Job, Target, IdleGc, GcState, IdleCl, ClState
<1>2. /\ \A w \in Writer : job[w].pc = "idle"
      /\ \A g \in Collector : gc[g].pc = "idle" /\ gc[g].listed = {} /\ gc[g].pick = {}
      /\ \A c \in Cleaner : cl[c].pc = "idle" /\ cl[c].keys = {}
      /\ \A o \in ObjectId : ~Live(o)
  BY Zenon DEF IdleJob, IdleGc, IdleCl, Live
<1>3. StoreTypeOK
  BY <1>1, Zenon DEF StoreTypeOK, NsmTypeOK
<1>4. /\ NamesMatchObjects /\ FragmentVersionsBounded /\ EpochInv /\ SentInv /\ StoredInv
      /\ ObsoleteInv /\ LinkedInv /\ RemovedInv /\ TagInv /\ PickInv /\ RetiredInv
      /\ LinkedFragmentsWrittenOnceExist /\ NoUntrackedGarbage
  BY <1>2, SMTT(30) DEF NamesMatchObjects, FragmentVersionsBounded, EpochInv, SentInv, StoredInv,
              ObsoleteInv, LinkedInv, RemovedInv, TagInv, PickInv, RetiredInv,
              RetiredOsdsStayUnused, Landed, LinkedFragmentsWrittenOnceExist,
              NoUntrackedGarbage
<1>5. JobInv /\ GarbageInv
  BY <1>2, Zenon DEF JobInv, Uploading, GarbageInv
<1> QED
  BY <1>3, <1>4, <1>5, Zenon DEF StoreInv

LEMMA StoreInvNext == StoreInv /\ [Next]_vars => StoreInv'
<1> SUFFICES ASSUME StoreInv, [Next]_vars PROVE StoreInv'
  BY Zenon
<1>1. ASSUME NEW w \in Writer, WriterStep(w) PROVE StoreInv'
  BY <1>1, StartPutInv, CommitUploadInv, CleanupGcTagInv, EpilogueInv, StartRepairInv,
     FinishUpdateInv, AbandonInv, Zenon DEF WriterStep
<1>2. ASSUME NEW g \in Collector, CollectorStep(g) PROVE StoreInv'
  BY <1>2, GcEnableInv, GcDisableInv, GcListInv, GcReadInv, GcDeleteInv, GcAbandonInv, Zenon
  DEF CollectorStep, GcAbandon
<1>3. ASSUME NEW c \in Cleaner, CleanerStep(c) PROVE StoreInv'
  BY <1>3, CleanListInv, CleanDeleteInv, CleanMarkInv, CleanAbandonInv, Zenon DEF CleanerStep
<1>4. CASE UNCHANGED vars
  <2>1. StoreTypeOK'
    BY <1>4, Zenon DEF StoreInv, StoreTypeOK, NsmTypeOK, vars, nsmVars, storeVars
  <2> QED
    BY <1>4, <2>1, Frame, FrameGarbage, Zenon DEF StoreInv, vars, nsmVars, storeVars
<1> QED
  BY <1>1, <1>2, <1>3, <1>4, OsdWriteInv, OsdStepInv, ClientDeleteInv, Zenon DEF Next

\* StoreInv holds in every reachable state of the fragment store.
THEOREM StoreInvariant == Spec => []StoreInv
BY StoreInvInit, StoreInvNext, PTL DEF Spec

LEMMA StoreInvImplies ==
  StoreInv => /\ ListedKeysAreUnlinked
              /\ LatestEpochIsValid
              /\ CollectedEpochsAreClosed
              /\ RetiredOsdsStayUnused
<1> SUFFICES ASSUME StoreInv
             PROVE  /\ ListedKeysAreUnlinked
                    /\ LatestEpochIsValid
                    /\ CollectedEpochsAreClosed
                    /\ RetiredOsdsStayUnused
  BY Zenon
<1>1. ListedKeysAreUnlinked
  BY Zenon DEF StoreInv, ObsoleteInv, Dead, Linked, ListedKeysAreUnlinked
<1>2. LatestEpochIsValid
  BY DEF StoreInv, EpochInv, StoreTypeOK, NsmTypeOK, LatestEpochIsValid, IsValidEpoch
<1>3. CollectedEpochsAreClosed
  BY Zenon DEF StoreInv, EpochInv, CollectedEpochsAreClosed
<1> QED
  BY <1>1, <1>2, <1>3, Zenon DEF StoreInv, RetiredInv

\* Types are kept by every action of the fragment store.
THEOREM StoreTypeCorrect == Spec => []StoreTypeOK
BY StoreInvariant, PTL DEF StoreInv

\* No interleaving of uploads, rewrites, repairs, rebalances, purges, garbage
\* collections, cleanups and decommissionings, with any loss or delay of writes
\* and any crashes, deletes a fragment a live manifest links, as long as a
\* single attempt wrote that fragment key.
THEOREM LinkedFragmentsAreSafe == Spec => []LinkedFragmentsWrittenOnceExist
BY StoreInvariant, PTL DEF StoreInv

\* What the namespace manager lists for deletion, and what cleaners still
\* delete from older lists, is never linked again.
THEOREM DeletionsAreSafe == Spec => []ListedKeysAreUnlinked
BY StoreInvariant, StoreInvImplies, PTL

\* No fragment written once escapes both the cleaners and the collectors.
THEOREM GarbageIsTracked == Spec => []NoUntrackedGarbage
BY StoreInvariant, PTL DEF StoreInv

\* Racing collectors with stale caches always leave an epoch to upload with.
THEOREM EpochsStayValid == Spec => []LatestEpochIsValid
BY StoreInvariant, StoreInvImplies, PTL

\* Collectors collect closed epochs only.
THEOREM EpochsAreSafe == Spec => []CollectedEpochsAreClosed
BY StoreInvariant, StoreInvImplies, PTL

\* A retired OSD is never linked again.
THEOREM RetirementIsSafe == Spec => []RetiredOsdsStayUnused
BY StoreInvariant, StoreInvImplies, PTL
=============================================================================
