-------------------------------- MODULE Rora --------------------------------
(***************************************************************************)
(* RoraProxy_client (rora_proxy_client.cc): a client that keeps manifests   *)
(* and reads fragments itself, and goes to the proxy when it cannot.  The   *)
(* clients are threads of one process.  Each has its own proxy session and  *)
(* its own count of failures; they share the ManifestCache                  *)
(* (manifest_cache.cc, lru_cache.h) and what OsdAccess knows of the OSDs    *)
(* (osd_access.cc).  The proxy is here with its own manifest cache          *)
(* (manifest_cache.ml, alba_client_download_slices.ml), and other hosts     *)
(* write the same objects.                                                  *)
(*                                                                         *)
(* One namespace.  A manifest is that of version v of an object; a version  *)
(* is a write or a removal.  Reading from the OSDs is one step, with what   *)
(* module DirectRead shows of it: all the bytes asked for, or a failure.    *)
(***************************************************************************)
EXTENDS Slices, FiniteSets

CONSTANTS
    Client, NoClient,
    Object,
    Layouts,       \* how the versions of an object are laid out, in turn
    CacheLayout(_),\* how a fragment of some length is laid out in a cache
    AlbaLevels,    \* possible lists of alba ids: the backend, its cache
    Requests,      \* number of levels -> what reads ask for: ObjectSlices
    LocalCache,    \* number of levels -> whether the proxy has_local_fragment_cache
    Capacity,      \* _manifest_cache_capacity
    MaxFailures,   \* 100: failures in a row that switch the fast path off
    OnlyQuiet,     \* whether only invalidations count that no other call overlaps
    MaxCalls,      \* bound: calls of all clients together
    MaxWrites,     \* bound: versions of an object
    MaxEvents      \* bound: what other hosts, OSDs, the network and epilogues do to them

ASSUME RoraAssumption ==
    /\ Capacity \in Nat \ {0} /\ MaxFailures \in Nat
    /\ MaxCalls \in Nat /\ MaxWrites \in Nat /\ MaxEvents \in Nat
    /\ OnlyQuiet \in BOOLEAN /\ NoClient \notin Client

ASSUME LayoutsAssumption ==
    /\ Len(Layouts) \in Nat \ {0}
    /\ \A i \in 1..Len(Layouts) :
         /\ IsLayout(Layouts[i])
         /\ \A c \in DOMAIN Layouts[i].sizes :
              IsLayout(CacheLayout(Layouts[i].sizes[c] \div Layouts[i].k))

(* What a read asks for of one object.                                      *)
ObjectSlices ==
    [object : Object, slices : Seq([offset : Nat, size : Nat \ {0}]) \ {<<>>}]

(* There is a cache or there is none, and reads are not empty.              *)
ASSUME LevelsAssumption ==
    \A l \in AlbaLevels :
      Len(l) \in 1..2 /\ Requests[Len(l)] \subseteq Seq(ObjectSlices) \ {<<>>}

VARIABLES
    last, live,    \* the objects in the NSM: last version, and whether it is there
    blobs,         \* the versions whose fragments are still on the OSDs
    reg,           \* the OSDs there are
    known,         \* the proxy's manifest cache: object -> version, or 0
    epilogues,     \* the upload_epilogues of the proxy that have work to do
    mc,            \* the ManifestCache: its entries, the oldest first
    backend,       \* the alba ids the proxy will tell
    levels, osds,  \* _alba_levels and the OSDs of _osd_maps
    filler,        \* who holds _filling_mutex and _osd_maps_mutex
    bad, refilled, \* whether a fill failed, and whether one came after another
    th,            \* client -> its call
    calls, events, \* how many there were
    quiet, floor   \* what the properties need to know of the past

nsmVars == <<last, live, blobs, reg>>
accessVars == <<levels, osds, filler, bad, refilled>>
vars == <<nsmVars, known, epilogues, mc, backend, accessVars, th, calls, events, quiet, floor>>

(*------------------------------- the data --------------------------------*)

(* The names and ids of objects are tuples: <<object>> and                  *)
(* <<object, version>>, and for a fragment kept by a cache                  *)
(* <<object, version, chunk, fragment>> and that with a 1.                  *)
Manifest(name, id, layout) ==
    [name |-> name, id |-> id, sizes |-> layout.sizes, k |-> layout.k,
     fragments |-> layout.fragments,
     compressed |-> layout.compressed, encryption |-> layout.encryption]
Layout(v) == Layouts[((v - 1) % Len(Layouts)) + 1]
ObjectManifest(o, v) == Manifest(<<o>>, <<o, v>>, Layout(v))
CacheName(l) == <<l.id[1], l.id[2], l.chunk, l.fragment>>
FragmentLength(o, v, c) == Layout(v).sizes[c] \div Layout(v).k
CacheManifest(name) ==
    Manifest(name, Append(name, 1), CacheLayout(FragmentLength(name[1], name[2], name[3])))

(* The byte at pos of the object with this id. *)
Plain(id, pos) ==
    IF Len(id) = 2 THEN <<id[1], id[2], pos>>
    ELSE <<id[1], id[2], totals(Layout(id[2]).sizes)[id[3] - 1]
                         + (id[4] - 1) * FragmentLength(id[1], id[2], id[3]) + pos>>
ManifestOf(id) == IF Len(id) = 2 THEN ObjectManifest(id[1], id[2])
                  ELSE CacheManifest(SubSeq(id, 1, 4))
Start(mf, c, f) == totals(mf.sizes)[c - 1] + (f - 1) * (mf.sizes[c] \div mf.k)
Junk == <<>>

(* Byte i of the part at location l, read and decrypted.  Other fragments   *)
(* than those in counter mode are only decrypted whole, by the proxy.       *)
ByteAt(l, i) ==
    LET plain == Plain(l.id, Start(ManifestOf(l.id), l.chunk, l.fragment) + l.offset + i)
    IN  IF \/ l.encryption # "ctr"
           \/ partial_decrypt(l.ctr, l.offset, i) = KeyAt(l.ctr, l.offset + i)
        THEN plain ELSE Junk

(* The buffer of one ObjectSlices, filled from locations.                   *)
Size(slices) == totals([i \in DOMAIN slices |-> slices[i].size])[Len(slices)]
Filled(slices, locs) ==
    [t \in 1..Size(slices) |->
       LET covering == {i \in DOMAIN locs :
                          locs[i].target < t /\ t <= locs[i].target + locs[i].length}
           l == locs[CHOOSE i \in covering : TRUE]
       IN  IF covering = {} THEN Junk ELSE ByteAt(l, t - 1 - l.target)]

AllInside(mf, slices) ==
    \A i \in DOMAIN slices : Inside(mf.sizes, slices[i].offset + slices[i].size - 1)
(* Each slice with its place in the buffer: the buffers of the slices of an *)
(* object are one after the other.                                          *)
Targets(slices) ==
    [i \in DOMAIN slices |->
       [offset |-> slices[i].offset, size |-> slices[i].size,
        target |-> Size(SubSeq(slices, 1, i - 1))]]

(* _resolve_one_level, once the manifest is found. *)
resolve(mf, slices) ==
    LET from[i \in 0..Len(slices)] ==
          IF i = 0 THEN <<>>
          ELSE from[i - 1] \o resolve_slice(mf, slices[i], slices[i].target)
    IN  from[Len(slices)]

Elements(s) == {s[i] : i \in DOMAIN s}

(*------------------------- ManifestCache and LRU -------------------------*)

has(lru, key) == \E i \in DOMAIN lru : lru[i].key = key
at(lru, key) == CHOOSE i \in DOMAIN lru : lru[i].key = key
erase(lru, i) == [j \in 1..(Len(lru) - 1) |-> lru[IF j < i THEN j ELSE j + 1]]
without(lru, key) == IF has(lru, key) THEN erase(lru, at(lru, key)) ELSE lru
lru_find(lru, key) == lru[at(lru, key)]
(* find moves the entry to the end. *)
relocate(lru, key) ==
    IF has(lru, key) THEN Append(without(lru, key), lru_find(lru, key)) ELSE lru

(* Mutant: only a new entry makes room, and is too late by one. *)
lru_insert_late(lru, e) ==
    LET old == IF Len(lru) > Capacity THEN Tail(lru) ELSE lru
    IN  Append(without(old, e.key), e)

(* A full cache loses its oldest entry, also when the key is there already. *)
lru_insert(lru, e) ==
    LET old == IF Len(lru) >= Capacity THEN Tail(lru) ELSE lru
    IN  Append(without(old, e.key), e)

(*------------------------------- the calls -------------------------------*)

Idle == [pc |-> "idle", kind |-> "none", req |-> <<>>, cons |-> FALSE, ret |-> "none",
         lv |-> <<>>, work |-> <<>>, locs |-> <<>>, via |-> {}, infos |-> <<>>,
         mcp |-> "none", got |-> <<>>, mf |-> 0, src |-> "none", wrong |-> "nothing",
         from |-> [o \in Object |-> 0], mark |-> [o \in Object |-> 0],
         failures |-> 0, recent |-> FALSE, fc |-> FALSE]

Goes(c, rec) == th' = [th EXCEPT ![c] = rec]
To(c, pc) == Goes(c, [th[c] EXCEPT !.pc = pc])

(* What stays with a client from call to call. *)
Fresh(rec) == [Idle EXCEPT !.failures = rec.failures, !.recent = rec.recent,
                           !.fc = rec.fc]

(* The version that was read for the ith ObjectSlices, and whether its      *)
(* buffers have what was asked for, of that version.                        *)
Version(rec, i) == rec.got[i][1][2]
Right(rec) ==
    \A i \in DOMAIN rec.req :
      LET slices == Targets(rec.req[i].slices)
      IN  /\ Len(rec.got[i]) = Size(slices)
          /\ \A s \in Elements(slices) : \A n \in 0..(s.size - 1) :
               rec.got[i][s.target + n + 1]
                 = <<rec.req[i].object, Version(rec, i), s.offset + n>>
NewEnough(rec) ==
    \A i \in DOMAIN rec.req : Version(rec, i) >= rec.from[rec.req[i].object]

(* The call throws, or returns; then wrong says what is wrong with a read.  *)
Thrown(rec) == Fresh(rec)
Returned(rec) ==
    [Fresh(rec) EXCEPT !.wrong = IF ~Right(rec) THEN "bytes"
                                 ELSE IF ~NewEnough(rec) THEN "version" ELSE "nothing"]

(* The code reads what is not there, and anything may follow. *)
Undefined(c, why) == Goes(c, [Fresh(th[c]) EXCEPT !.pc = "undefined", !.wrong = why])

inFlight == {c \in Client : th[c].pc \notin {"idle", "undefined"}}
(* A call is quiet if nothing else is going on: no other call, and no       *)
(* epilogue of an earlier write.                                            *)
Starts(c) == quiet' = IF inFlight \subseteq {c} /\ epilogues = {} THEN {c} ELSE {}
Max(a, b) == IF a < b THEN b ELSE a
(* A call of c ends, and with it what it changed is what later reads have   *)
(* to see.                                                                  *)
Raise(c, mark) ==
    floor' = IF c \in quiet \/ (~OnlyQuiet /\ th[c].kind = "invalidate")
             THEN [o \in Object |-> Max(floor[o], mark[o])] ELSE floor
same == UNCHANGED <<calls, events, quiet, floor, backend, epilogues>>
sameButEvents == UNCHANGED <<calls, quiet, floor, backend, epilogues>>

(* Something happens that did not have to. *)
Happens == events < MaxEvents /\ events' = events + 1
noEvent == UNCHANGED events

(*------------------------------- OsdAccess -------------------------------*)

(* update, from its call to its return: whoever finds no fill going on      *)
(* fills, after whoever did so before it; others wait for the fill they     *)
(* saw, and do not hear whether it worked.                                  *)
returns(c, ok) ==
    IF th[c].ret = "read" \/ ok THEN [th[c] EXCEPT !.pc = th[c].ret, !.ret = "none"]
    ELSE Thrown(th[c])

Update(c) ==
    /\ th[c].pc = "update"
    /\ To(c, IF filler = NoClient THEN "fill" ELSE "wait")
    /\ UNCHANGED <<nsmVars, known, mc, accessVars>> /\ same

(* Mutant: a waiter does not wait. *)
WaitNot(c) ==
    /\ th[c].pc = "wait"
    /\ Goes(c, returns(c, TRUE))
    /\ UNCHANGED <<nsmVars, known, mc, accessVars>> /\ same

Wait(c) ==
    /\ th[c].pc = "wait" /\ filler = NoClient
    /\ Goes(c, returns(c, TRUE))
    /\ UNCHANGED <<nsmVars, known, mc, accessVars>> /\ same

Fill(c) ==
    /\ th[c].pc = "fill" /\ filler = NoClient
    /\ filler' = c
    /\ To(c, "ask")
    /\ UNCHANGED <<nsmVars, known, mc, levels, osds, bad, refilled>> /\ same

(* osd_info2: an exception is caught; an error in the answer is not looked  *)
(* at, and then there is nothing in it.                                     *)
Answer(c) ==
    /\ th[c].pc = "ask"
    /\ \/ /\ levels' = <<>> /\ osds' = {} /\ UNCHANGED bad
          /\ To(c, "push") /\ UNCHANGED filler /\ noEvent
       \/ /\ bad' = TRUE /\ UNCHANGED <<levels, osds>>
          /\ Goes(c, returns(c, FALSE)) /\ filler' = NoClient /\ Happens
       \/ /\ bad' = TRUE /\ levels' = <<>> /\ osds' = {}
          /\ Goes(c, returns(c, TRUE)) /\ filler' = NoClient /\ Happens
    /\ refilled' = (refilled \/ levels # <<>>)
    /\ UNCHANGED <<nsmVars, known, mc>> /\ sameButEvents

(* One turn of the loop that pushes the levels, and the unlocking after it. *)
Push(c) ==
    /\ th[c].pc = "push" /\ Len(levels) < Len(backend)
    /\ levels' = Append(levels, backend[Len(levels) + 1])
    /\ IF Len(levels) + 1 < Len(backend) THEN UNCHANGED <<osds, filler, th>>
       ELSE osds' = reg /\ filler' = NoClient /\ Goes(c, returns(c, TRUE))
    /\ UNCHANGED <<nsmVars, known, mc, bad, refilled>> /\ same

(*-------------------------- read_objects_slices --------------------------*)

StartRead(c, req, cons) ==
    LET many == th[c].failures > MaxFailures
        slow == (cons /\ th[c].fc) \/ (many /\ th[c].recent)
    IN  /\ th[c].pc = "idle" /\ calls < MaxCalls
        /\ calls' = calls + 1
        /\ Goes(c, [Fresh(th[c]) EXCEPT
                      !.kind = "read", !.req = req, !.cons = cons, !.from = floor,
                      !.failures = IF many /\ ~th[c].recent THEN 0 ELSE @,
                      !.got = [i \in DOMAIN req |-> <<>>],
                      !.locs = [i \in DOMAIN req |-> <<>>],
                      !.via = IF slow THEN DOMAIN req ELSE {},
                      !.pc = IF slow THEN "lookup" ELSE "levels"])
        /\ Starts(c)
        /\ UNCHANGED <<nsmVars, known, epilogues, mc, accessVars, backend, floor, events>>

(* get_alba_levels reads _alba_levels twice, without a lock, maybe between  *)
(* two turns of the loop that pushes them.                                  *)
Levels(c) ==
    /\ th[c].pc = "levels"
    /\ Goes(c, IF levels = <<>> THEN [th[c] EXCEPT !.pc = "update", !.ret = "copy"]
               ELSE [th[c] EXCEPT !.pc = "copy"])
    /\ UNCHANGED <<nsmVars, known, mc, accessVars>> /\ same

(* To copy or index them while they are cleared or pushed is a data race.   *)
Races(c) == filler # NoClient /\ Undefined(c, "race")

Copy(c) ==
    /\ th[c].pc = "copy"
    /\ \/ Races(c)
       \/ levels = <<>> /\ Undefined(c, "levels")
       \/ /\ levels # <<>>
          /\ Goes(c, [th[c] EXCEPT
                !.pc = "resolve", !.lv = levels,
                !.work = [i \in DOMAIN th[c].req |->
                            [i |-> i, level |-> 1, name |-> <<th[c].req[i].object>>,
                             slices |-> Targets(th[c].req[i].slices)]]])
    /\ UNCHANGED <<nsmVars, known, mc, accessVars>> /\ same

(* The look-ups that are left once object i is left to the proxy.           *)
others(work, i) ==
    LET from[j \in 0..Len(work)] ==
          IF j = 0 THEN <<>>
          ELSE from[j - 1] \o (IF work[j].i = i THEN <<>> ELSE <<work[j]>>)
    IN  from[Len(work)]

(* One look-up of _resolve_one_many_levels: ManifestCache::find, and the    *)
(* locations, or what to look up for them at the next level.  A manifest    *)
(* that is not there sends the whole object through the proxy.  find takes  *)
(* two locks in turn; what it finds in a cache that was dropped in between  *)
(* it would have found just before.                                         *)
Resolve(c) ==
    LET w == th[c].work[1]
        rest == Tail(th[c].work)
        key == <<th[c].lv[w.level], w.name>>
        mf == lru_find(mc, key).mf
        found == resolve(mf, w.slices)
        below == [j \in DOMAIN found |->
                    [i |-> w.i, level |-> w.level + 1, name |-> CacheName(found[j]),
                     slices |-> <<[offset |-> found[j].offset, size |-> found[j].length,
                                   target |-> found[j].target]>>]]
    IN  /\ th[c].pc = "resolve" /\ th[c].work # <<>>
        /\ mc' = relocate(mc, key)
        /\ IF ~has(mc, key)
           THEN Goes(c, [th[c] EXCEPT !.via = @ \union {w.i}, !.locs[w.i] = <<>>,
                                      !.work = others(rest, w.i)])
           ELSE IF ~AllInside(mf, w.slices) THEN Undefined(c, "outside")
           ELSE IF w.level < Len(th[c].lv)
           THEN Goes(c, [th[c] EXCEPT !.work = below \o rest])
           ELSE Goes(c, [th[c] EXCEPT !.locs[w.i] = @ \o found, !.work = rest])
        /\ UNCHANGED <<nsmVars, known, accessVars>> /\ same

proxyOnly(l) == l.osd = 0 \/ l.compressed \/ l.encryption = "cbc"
locations(locs) == UNION {Elements(locs[i]) : i \in DOMAIN locs}
needed(locs) == {l.osd : l \in locations(locs)}
(* _maybe_update_osd_infos: the OSDs OsdAccess has to hear about. *)
unknown(locs) == needed(locs) \ osds

(* Mutant: what the proxy has to read after a failure is only what it had   *)
(* to read anyway.                                                          *)
redo_rest(rec) == rec.via

(* What goes to the proxy when something failed. *)
redo(rec) == DOMAIN rec.req

(* The end of the fast path, and of the read if nothing is left for the     *)
(* proxy.                                                                   *)
FastDone(rec, rc) ==
    LET done ==
          IF rc = 0
          THEN [rec EXCEPT !.failures = 0,
                  !.got = [i \in DOMAIN @ |-> IF i \in rec.via THEN <<>>
                             ELSE Filled(rec.req[i].slices, rec.locs[i])]]
          ELSE [rec EXCEPT !.via = redo(rec), !.recent = TRUE,
                  !.failures = IF rc = -2 \/ @ > MaxFailures THEN @ ELSE @ + 1]
    IN  IF done.via = {} THEN Returned(done)
        ELSE [done EXCEPT !.pc = "lookup", !.locs = <<>>]

(* _short_path up to the reading, with _maybe_update_osd_infos. *)
ShortPath(c) ==
    LET split == {i \in DOMAIN th[c].req : \E l \in Elements(th[c].locs[i]) : proxyOnly(l)}
        locs == [i \in DOMAIN th[c].req |-> IF i \in split THEN <<>> ELSE th[c].locs[i]]
        rec == [th[c] EXCEPT !.via = @ \union split, !.locs = locs]
    IN  /\ th[c].pc = "resolve" /\ th[c].work = <<>>
        /\ needed(locs) = {} \/ filler = NoClient
        /\ IF needed(locs) = {} THEN Goes(c, FastDone(rec, 0))
           ELSE IF levels = <<>> THEN Undefined(c, "levels")
           ELSE Goes(c, IF unknown(locs) = {} THEN [rec EXCEPT !.pc = "read"]
                        ELSE [rec EXCEPT !.pc = "update", !.ret = "read"])
        /\ UNCHANGED <<nsmVars, known, mc, accessVars>> /\ same

(* OsdAccess::read_osds_slices, and whether there is something to decrypt.  *)
(* The OSDs are those of the last level: whoever copied fewer levels does   *)
(* not find on them what it looks for.                                      *)
ReadDirect(c) ==
    LET ls == locations(th[c].locs)
        can == /\ \A l \in ls : Len(l.id) = 2 => l.id \in blobs
               /\ unknown(th[c].locs) = {} /\ Len(th[c].lv) = Len(levels)
    IN  /\ th[c].pc = "read" /\ filler = NoClient
        /\ IF levels = <<>> THEN Undefined(c, "levels") /\ noEvent
           ELSE \/ /\ can /\ noEvent
                   /\ Goes(c, IF \E l \in ls : l.encryption # "none"
                              THEN [th[c] EXCEPT !.pc = "decrypt"] ELSE FastDone(th[c], 0))
                \/ /\ IF can THEN Happens ELSE noEvent
                   /\ \E rc \in {-1, -2} : Goes(c, FastDone(th[c], rc))
        /\ UNCHANGED <<nsmVars, known, mc, accessVars>> /\ sameButEvents

(* The key is asked for once; that it is not there, that it is another, or  *)
(* that decrypting fails is a failure of the fast path.                     *)
Decrypt(c) ==
    LET sealed == {l \in locations(th[c].locs) : l.encryption # "none"}
        ctrs == \A l \in sealed : l.ctr # <<>>
    IN  /\ th[c].pc = "decrypt"
        /\ \/ ctrs /\ Goes(c, FastDone(th[c], 0)) /\ noEvent
           \/ ctrs /\ Goes(c, FastDone(th[c], -1)) /\ Happens
           \/ ~ctrs /\ Goes(c, FastDone(th[c], -1)) /\ noEvent
        /\ UNCHANGED <<nsmVars, known, mc, accessVars>> /\ sameButEvents

(*------------------------------- the proxy -------------------------------*)

Infos(mfs) == [i \in DOMAIN mfs |-> [alba |-> "", mf |-> mfs[i]]]
(* The manifests of fragments in the cache, if there is one: some are told. *)
CacheInfos(ids) ==
    IF Len(backend) = 1 THEN {<<>>}
    ELSE {<<>>, [i \in DOMAIN ids |-> [alba |-> backend[2], mf |-> CacheManifest(ids[i])]]}

(* The next object of read_objects_slices: its manifest from the cache, or  *)
(* from the NSM, which takes a while.                                       *)
Lookup(c) ==
    LET i == CHOOSE i \in th[c].via : \A j \in th[c].via : i <= j
        o == th[c].req[i].object
        fast == ~th[c].cons /\ known[o] # 0 /\ th[c].src # "fast"
    IN  /\ th[c].pc = "lookup"
        /\ IF fast THEN Goes(c, [th[c] EXCEPT !.pc = "get", !.mf = known[o], !.src = "fast"])
           ELSE IF live[o]
           THEN Goes(c, [th[c] EXCEPT !.pc = "get", !.mf = last[o], !.src = "slow"])
           ELSE Goes(c, Thrown(th[c]))
        /\ UNCHANGED <<nsmVars, known, mc, accessVars>> /\ same

(* A manifest from the NSM is cached, whatever happened since it was read.  *)
(* The slices are read; if that fails with a cached manifest, it is looked  *)
(* up again.  The objects are read one after the other, as the proxy does   *)
(* for eight slices and more; below that it reads them side by side, and    *)
(* puts the answer together in the same order.                              *)
Get(c) ==
    LET i == CHOOSE i \in th[c].via : \A j \in th[c].via : i <= j
        o == th[c].req[i].object
        slices == th[c].req[i].slices
        mf == ObjectManifest(o, th[c].mf)
        ls == resolve(mf, Targets(slices))
        can == /\ AllInside(mf, slices) /\ <<o, th[c].mf>> \in blobs
               /\ \A j \in DOMAIN ls : ls[j].encryption = "ctr" => ls[j].ctr # <<>>
        Read(more) ==
          [th[c] EXCEPT !.got[i] = Filled(slices, ls), !.via = @ \ {i},
                        !.infos = more \o Infos(<<mf>>) \o @,
                        !.mf = 0, !.src = "none",
                        !.pc = IF th[c].via = {i} THEN "process" ELSE "lookup"]
    IN  /\ th[c].pc = "get"
        /\ known' = IF th[c].src = "slow" THEN [known EXCEPT ![o] = th[c].mf] ELSE known
        /\ \/ /\ can /\ noEvent
              /\ \E more \in CacheInfos([j \in DOMAIN ls |-> CacheName(ls[j])]) : Goes(c, Read(more))
           \/ /\ IF can THEN Happens ELSE noEvent
              /\ IF th[c].src = "fast" THEN To(c, "lookup") ELSE Goes(c, Thrown(th[c]))
        /\ UNCHANGED <<nsmVars, mc, accessVars>> /\ sameButEvents

(* apply_sequence with one upload, or delete_object: it takes effect in the *)
(* NSM, and then in the proxy's cache, where an error removes the entry.    *)
StartChange(c, o, kind) ==
    /\ th[c].pc = "idle" /\ calls < MaxCalls
    /\ calls' = calls + 1
    /\ Goes(c, [Fresh(th[c]) EXCEPT !.kind = kind, !.pc = "change", !.work = <<o>>])
    /\ Starts(c)
    /\ UNCHANGED <<nsmVars, known, epilogues, mc, accessVars, backend, floor, events>>

Osds(v) == {Layout(v).fragments[i][j].osd :
              i \in DOMAIN Layout(v).sizes, j \in 1..Layout(v).k} \ {0}
changes(o, alive) ==
    /\ last[o] < MaxWrites
    /\ last' = [last EXCEPT ![o] = @ + 1]
    /\ live' = [live EXCEPT ![o] = alive]
    /\ blobs' = IF alive THEN blobs \union {<<o, last[o] + 1>>} ELSE blobs
    /\ reg' = IF alive THEN reg \union Osds(last[o] + 1) ELSE reg

Change(c) ==
    LET o == th[c].work[1]
    IN  /\ th[c].pc = "change"
        /\ \/ /\ changes(o, th[c].kind = "write")
              /\ Goes(c, [th[c] EXCEPT !.pc = "changed", !.mark[o] = last[o] + 1])
              /\ UNCHANGED known
           \/ /\ Goes(c, Thrown(th[c]))
              /\ known' = [known EXCEPT ![o] = 0]
              /\ UNCHANGED nsmVars
        /\ UNCHANGED <<mc, accessVars>> /\ same

(* The names that the data fragments of a version have in a cache.          *)
FragmentNames(o, v) ==
    LET k == Layout(v).k
    IN  [j \in 1..(Len(Layout(v).sizes) * k) |->
           <<o, v, ((j - 1) \div k) + 1, ((j - 1) % k) + 1>>]
Epilogue(o, v) == [object |-> o, version |-> v, updated |-> FALSE]

(* What is left of a write whose fragments are not all there yet goes on    *)
(* after the answer.  The answer has the manifest of the object last, after *)
(* those of the fragments that were also put in a cache.                    *)
Changed(c) ==
    LET o == th[c].work[1]
        v == th[c].mark[o]
    IN  /\ th[c].pc = "changed"
        /\ \/ /\ th[c].kind = "write"
              /\ known' = [known EXCEPT ![o] = v]
              /\ \E more \in CacheInfos(FragmentNames(o, v)) :
                   Goes(c, [th[c] EXCEPT !.pc = "process", !.work = <<>>,
                              !.infos = more \o Infos(<<ObjectManifest(o, v)>>)])
              /\ \/ UNCHANGED epilogues /\ noEvent
                 \/ epilogues' = epilogues \union {Epilogue(o, v)} /\ Happens
           \/ /\ th[c].kind = "write" /\ Happens
              /\ known' = [known EXCEPT ![o] = 0] /\ Goes(c, Thrown(th[c]))
              /\ UNCHANGED epilogues
           \/ /\ th[c].kind = "delete" /\ noEvent
              /\ known' = [known EXCEPT ![o] = 0] /\ Goes(c, Returned(th[c]))
              /\ UNCHANGED epilogues
        /\ UNCHANGED <<nsmVars, mc, accessVars, calls, quiet, floor, backend>>

(* upload_epilogue, once the last fragments are there: update_manifest      *)
(* works as long as the version is the one in the NSM, and whatever fails   *)
(* is the end of it, ...                                                    *)
EpilogueUpdate(e) ==
    /\ ~e.updated
    /\ \/ /\ live[e.object] /\ last[e.object] = e.version
          /\ epilogues' = (epilogues \ {e}) \union {[e EXCEPT !.updated = TRUE]}
       \/ epilogues' = epilogues \ {e}
    /\ UNCHANGED <<nsmVars, known, mc, backend, accessVars, th, calls, events, quiet, floor>>

(* ... and then the manifest is cached again, whatever happened meanwhile.  *)
EpilogueAdd(e) ==
    /\ e.updated
    /\ known' = [known EXCEPT ![e.object] = e.version]
    /\ epilogues' = epilogues \ {e}
    /\ UNCHANGED <<nsmVars, mc, backend, accessVars, th, calls, events, quiet, floor>>

(*------------------------------- _process --------------------------------*)

(* A manifest without an alba id is of the first level, which has to be     *)
(* known.                                                                   *)
Process(c) ==
    /\ th[c].pc = "process"
    /\ Goes(c, IF th[c].infos[1].alba # "" THEN [th[c] EXCEPT !.pc = "add"]
               ELSE IF levels # <<>> THEN [th[c] EXCEPT !.pc = "first"]
               ELSE [th[c] EXCEPT !.pc = "update", !.ret = "first"])
    /\ UNCHANGED <<nsmVars, known, mc, accessVars>> /\ same

First(c) ==
    /\ th[c].pc = "first"
    /\ \/ Races(c)
       \/ levels = <<>> /\ Goes(c, Thrown(th[c]))
       \/ /\ levels # <<>>
          /\ Goes(c, [th[c] EXCEPT !.pc = "add", !.infos[1].alba = levels[1]])
    /\ UNCHANGED <<nsmVars, known, mc, accessVars>> /\ same

(* ManifestCache::add: the namespace's cache, made if there is none, ...    *)
Add(c) ==
    /\ th[c].pc = "add"
    /\ Goes(c, [th[c] EXCEPT !.pc = "insert", !.mcp = "shared"])
    /\ UNCHANGED <<nsmVars, known, mc, accessVars>> /\ same

(* ... and an insert, maybe into a cache that was dropped meanwhile.  After *)
(* the last manifest the call returns.                                      *)
Insert(c) ==
    LET info == th[c].infos[1]
        e == [key |-> <<info.alba, info.mf.name>>, mf |-> info.mf]
        rest == Tail(th[c].infos)
    IN  /\ th[c].pc = "insert"
        /\ mc' = IF th[c].mcp = "shared" THEN lru_insert(mc, e) ELSE mc
        /\ IF rest = <<>> THEN Goes(c, Returned(th[c])) /\ Raise(c, th[c].mark)
           ELSE /\ Goes(c, [th[c] EXCEPT !.pc = "process", !.mcp = "none", !.infos = rest])
                /\ UNCHANGED floor
        /\ UNCHANGED <<nsmVars, known, epilogues, accessVars, backend, calls, quiet, events>>

(*------------------------- invalidate, drop, others ----------------------*)

(* invalidate_cache erases the namespace here first. *)
StartInvalidate(c) ==
    /\ th[c].pc = "idle" /\ calls < MaxCalls
    /\ calls' = calls + 1
    /\ mc' = <<>>
    /\ th' = [d \in Client |->
                 IF d = c THEN [Fresh(th[c]) EXCEPT !.kind = "invalidate", !.pc = "invalidate"]
                 ELSE IF th[d].mcp = "shared" THEN [th[d] EXCEPT !.mcp = "dropped"]
                 ELSE th[d]]
    /\ Starts(c)
    /\ UNCHANGED <<nsmVars, known, epilogues, accessVars, backend, floor, events>>

(* drop_cache is for the proxy only. *)
StartDrop(c) ==
    /\ th[c].pc = "idle" /\ calls < MaxCalls
    /\ calls' = calls + 1
    /\ Goes(c, [Fresh(th[c]) EXCEPT !.kind = "drop", !.pc = "invalidate"])
    /\ Starts(c)
    /\ UNCHANGED <<nsmVars, known, epilogues, mc, accessVars, backend, floor, events>>

(* Mutant: the proxy keeps what it has. *)
ProxyInvalidateNot(c) ==
    /\ th[c].pc = "invalidate"
    /\ Goes(c, Returned(th[c]))
    /\ IF th[c].kind = "invalidate" THEN Raise(c, last) ELSE UNCHANGED floor
    /\ UNCHANGED <<nsmVars, known, epilogues, mc, accessVars, backend, calls, quiet, events>>

(* The proxy starts a new epoch for the namespace. *)
ProxyInvalidate(c) ==
    /\ th[c].pc = "invalidate"
    /\ known' = [o \in Object |-> 0]
    /\ Goes(c, Returned(th[c]))
    /\ IF th[c].kind = "invalidate" THEN Raise(c, last) ELSE UNCHANGED floor
    /\ UNCHANGED <<nsmVars, epilogues, mc, accessVars, backend, calls, quiet, events>>

world == Happens /\ UNCHANGED <<mc, accessVars, th>> /\ sameButEvents

(* Another host writes or removes an object, ... *)
OtherChanges(o, alive) ==
    changes(o, alive) /\ UNCHANGED known /\ world

(* ... the fragments of what is no longer there are removed, ...            *)
Collect(o, v) ==
    /\ blobs' = blobs \ {<<o, v>>}
    /\ UNCHANGED <<last, live, reg, known>> /\ world

(* ... and the proxy's cache has a limit. *)
Evict(o) ==
    /\ known[o] # 0
    /\ known' = [known EXCEPT ![o] = 0]
    /\ UNCHANGED nsmVars /\ world

(* 120 seconds pass. *)
TimePasses(c) ==
    /\ th[c].recent
    /\ noEvent
    /\ Goes(c, [th[c] EXCEPT !.recent = FALSE])
    /\ UNCHANGED <<nsmVars, known, mc, accessVars>> /\ sameButEvents

(*--------------------------- the specification ---------------------------*)

Init ==
    /\ last = [o \in Object |-> 1] /\ live = [o \in Object |-> TRUE]
    /\ blobs = {<<o, 1>> : o \in Object}
    /\ reg = Osds(1) \union {CacheLayout(1).fragments[1][1].osd}
    /\ known = [o \in Object |-> 0]
    /\ epilogues \in SUBSET {Epilogue(o, 1) : o \in Object}
    /\ mc = <<>>
    /\ backend \in AlbaLevels
    /\ levels = <<>> /\ osds = {} /\ filler = NoClient
    /\ bad = FALSE /\ refilled = FALSE
    /\ \E fc \in LocalCache[Len(backend)] : th = [c \in Client |-> [Idle EXCEPT !.fc = fc]]
    /\ calls = 0 /\ events = Cardinality(epilogues)
    /\ quiet = {} /\ floor = [o \in Object |-> 0]

(* The steps a call of c goes through. *)
Runs(c) ==
    \/ Update(c) \/ Wait(c) \/ Fill(c) \/ Answer(c) \/ Push(c)
    \/ Levels(c) \/ Copy(c) \/ Resolve(c) \/ ShortPath(c) \/ ReadDirect(c) \/ Decrypt(c)
    \/ Lookup(c) \/ Get(c) \/ Change(c) \/ Changed(c) \/ ProxyInvalidate(c)
    \/ Process(c) \/ First(c) \/ Add(c) \/ Insert(c)

Next ==
    \/ \E c \in Client :
         \/ \E req \in Requests[Len(backend)], cons \in BOOLEAN : StartRead(c, req, cons)
         \/ \E o \in Object, kind \in {"write", "delete"} : StartChange(c, o, kind)
         \/ StartInvalidate(c) \/ StartDrop(c)
         \/ Runs(c) \/ TimePasses(c)
    \/ \E o \in Object, alive \in BOOLEAN : OtherChanges(o, alive)
    \/ \E b \in blobs : (live[b[1]] => b[2] # last[b[1]]) /\ Collect(b[1], b[2])
    \/ \E o \in Object : Evict(o)
    \/ \E e \in epilogues : EpilogueUpdate(e) \/ EpilogueAdd(e)

Spec == Init /\ [][Next]_vars

(*------------------------------ properties ------------------------------*)

(* A read that returns has filled every buffer with the bytes it was asked  *)
(* for, all of one version of the object, whichever path each object took,  *)
(* however its slices fall over chunks, fragments and cached fragments, and *)
(* whatever the fast path left in the buffers before it failed              *)
(* (read_objects_slices, get_location, partial_decrypt).                    *)
ReadsAreOfOneVersion == \A c \in Client : th[c].wrong # "bytes"

(* A read is at least as new as the last invalidate_cache, and as the last  *)
(* write, that returned before it and was quiet (Starts): the manifest in   *)
(* the ManifestCache and the one in the proxy's cache are never older than  *)
(* that, whatever calls, epilogues and evictions come between.              *)
QuietChangesAreSeen == \A c \in Client : th[c].wrong # "version"

(* "invalidate_cache influences the result of read requests issued with     *)
(* consistent_read::F. after an invalidate cache request these read         *)
(* requests will be at least consistent up to the point when the            *)
(* invalidate_cache request was processed by the proxy" (proxy_client.h):   *)
(* when OnlyQuiet is FALSE, reads are compared with every invalidation that *)
(* returned before them.                                                    *)
InvalidationsAreSeen == \A c \in Client : th[c].wrong # "version"

(* No client takes the first of no alba levels, unless a fill failed or one *)
(* came after another: who waits for a fill finds them there                *)
(* (OsdAccess::update, get_alba_levels).                                    *)
LevelsAreKnown ==
    \A c \in Client : th[c].wrong = "levels" => bad \/ refilled

(* The cache never has more entries than its capacity, no two for the same  *)
(* name, and under every name the manifest of that object                   *)
(* (UnsafeLRUCache::insert, ManifestCache::add).                            *)
CacheIsSound ==
    /\ Len(mc) <= Capacity
    /\ \A i, j \in DOMAIN mc : mc[i].key = mc[j].key => i = j
    /\ \A e \in Elements(mc) : e.key[2] = e.mf.name
=============================================================================
