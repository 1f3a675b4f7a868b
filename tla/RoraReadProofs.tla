--------------------------- MODULE RoraReadProofs ---------------------------
(***************************************************************************)
(* Reads of RoraProxy_client: every read that returns has filled all its    *)
(* buffers with the bytes of one version of each object, and with a version *)
(* as new as the changes it has to see.                                     *)
(*                                                                         *)
(* The invariant is ReadInv of RoraProofs.  ReadOk says what a call has     *)
(* found so far: every location of an object is one of the same version and *)
(* has the bytes of its place in the buffers, and every byte has a location *)
(* or a look-up that is still to be made.  SeenOk says how new the          *)
(* manifests are that a call still has to store, and World the same of both *)
(* caches.  QuietInv says that a call which has the process for itself      *)
(* finds the caches as it left them.                                        *)
(***************************************************************************)
EXTENDS RoraProofs

-----------------------------------------------------------------------------
(* Reads through the proxy.                                                 *)

(* The object that is read next through the proxy.                          *)
LEMMA FirstIs ==
    ASSUME NEW r, Sound(r), r.via # {}
    PROVE  first_of(r) \in r.via /\ first_of(r) \in DOMAIN r.req /\ r.req[first_of(r)] \in ObjectSlices
<1>1. r.via \subseteq DOMAIN r.req /\ r.req \in Seq(ObjectSlices)
  BY Zenon DEF Sound
<1>2. DOMAIN r.req \subseteq Nat
  BY <1>1
<1>3. \E i \in r.via : \A j \in r.via : i <= j
  <2>1. r.via \in SUBSET Nat
    BY <1>1, <1>2, Zenon
  <2> QED
    BY <2>1, LeastExists, Zenon
<1>4. first_of(r) \in r.via
  BY <1>3, Zenon DEF first_of
<1>5. r.req[first_of(r)] \in ObjectSlices
  <2>1. first_of(r) \in DOMAIN r.req
    BY <1>1, <1>4, Zenon
  <2> QED
    BY <1>1, <2>1, OfElements, Zenon
<1> QED
  BY <1>1, <1>4, <1>5, Zenon

(* The proxy caches a manifest, or forgets it, and an epilogue that is to   *)
(* cache one is as new.                                                     *)
LEMMA KnownWorld ==
    ASSUME World, UNCHANGED <<last, floor, backend, mc>>, NEW o, NEW v \in Nat,
           v # 0 => Least(floor, o) <= v, known' = known \/ known' = [known EXCEPT ![o] = v],
           \A e \in epilogues' : e \in epilogues \/ EpilogueOk(floor, e)
    PROVE  World'
<1>1. known \in [Object -> Nat]
  BY Zenon DEF World
<1>2. \A e \in epilogues' : EpilogueOk(floor, e)
  BY Zenon DEF World
<1>3. known' \in [Object -> Nat] /\ \A p \in Object : known'[p] # 0 => Least(floor, p) <= known'[p]
  <2>1. CASE known' = known
    BY <1>1, <2>1, Zenon DEF World
  <2>2. CASE known' = [known EXCEPT ![o] = v]
    <3>1. known' \in [Object -> Nat] /\ \A p \in Object : known'[p] = IF p = o THEN v ELSE known[p]
      BY <1>1, <2>2, Zenon
    <3> QED
      BY <3>1, Zenon DEF World
  <2> QED
    BY <2>1, <2>2, Zenon
<1> QED
  BY <1>2, <1>3, Zenon DEF World

(* What comes back for a read: manifests.                                   *)
InfosOk(fl, be, s) == (\E S : s \in Seq(S)) /\ \A j \in DOMAIN s : InfoOk(fl, be, s[j])
(* ... that of the object itself, ...                                       *)
LEMMA ObjectInfos ==
    ASSUME NEW fl, NEW be, NEW o \in Object, NEW v \in Version1, Least(fl, o) <= v
    PROVE  /\ InfosOk(fl, be, Infos(<<ObjectManifest(o, v)>>))
           /\ Infos(<<ObjectManifest(o, v)>>) # <<>> /\ Len(Infos(<<ObjectManifest(o, v)>>)) = 1
           /\ Infos(<<ObjectManifest(o, v)>>)[1].mf = ObjectManifest(o, v)
<1> DEFINE mf == ObjectManifest(o, v)
           info == [alba |-> "", mf |-> mf]
           s == Infos(<<mf>>)
<1>1. Sent(fl, mf)
  BY Zenon DEF Sent
<1>2. InfoOk(fl, be, info)
  <2> HIDE DEF mf
  <2> QED
    BY <1>1, Zenon DEF InfoOk
<1> HIDE DEF mf
<1>3. s = <<info>>
  <2>1. DOMAIN <<mf>> = 1..1 /\ <<mf>>[1] = mf /\ \A i \in 1..1 : i = 1
    OBVIOUS
  <2>2. s = [i \in 1..1 |-> info]
    BY <2>1, Zenon DEF Infos
  <2> HIDE DEF info, s
  <2> QED
    BY <2>2
<1>4. info.mf = mf
  BY Zenon
<1> HIDE DEF info, s
<1>5. s \in Seq({info}) /\ DOMAIN s = {1} /\ s[1] = info /\ Len(s) = 1 /\ s # <<>>
  BY <1>3
<1> QED
  BY <1>2, <1>4, <1>5, Zenon DEF InfosOk, s, mf

(* Some and more of them, ...                                               *)
LEMMA ConcatInfos ==
    ASSUME NEW fl, NEW be, NEW s, NEW t, InfosOk(fl, be, s), InfosOk(fl, be, t)
    PROVE  /\ InfosOk(fl, be, s \o t) /\ (t # <<>> => s \o t # <<>>) /\ (s # <<>> => s \o t # <<>>)
           /\ t # <<>> => (s \o t)[Len(s \o t)] = t[Len(t)]
<1>1. PICK S, T : s \in Seq(S) /\ t \in Seq(T)
  BY Zenon DEF InfosOk
<1> DEFINE U == S \union T
<1>2. s \in Seq(U) /\ t \in Seq(U)
  BY <1>1
<1> HIDE DEF U
<1>3. /\ s \o t \in Seq(U) /\ (t # <<>> => s \o t # <<>>) /\ (s # <<>> => s \o t # <<>>)
      /\ t # <<>> => (s \o t)[Len(s \o t)] = t[Len(t)]
  BY <1>2
<1>4. Both(s, t, s \o t)
  BY <1>2, BothIs, Zenon
<1>5. ASSUME NEW j \in DOMAIN (s \o t) PROVE InfoOk(fl, be, (s \o t)[j])
  <2>1. \/ \E k \in DOMAIN s : (s \o t)[j] = s[k]
        \/ \E k \in DOMAIN t : (s \o t)[j] = t[k]
    BY <1>4, <1>5, Zenon DEF Both
  <2> QED
    BY <2>1, Zenon DEF InfosOk
<1> QED
  BY <1>3, <1>5, Zenon DEF InfosOk

(* ... and those of cached fragments.                                       *)
LEMMA CachedInfos ==
    ASSUME NEW fl, NEW o \in Object, NEW v \in Version1, NEW ids, NEW n \in Nat, DOMAIN ids = 1..n,
           \A j \in DOMAIN ids :
             \E c \in DOMAIN Layout(v).sizes, f \in 1..Layout(v).k : ids[j] = <<o, v, c, f>>,
           NEW more \in CacheInfos(ids)
    PROVE  InfosOk(fl, backend, more)
<1> DEFINE told == [i \in DOMAIN ids |-> [alba |-> backend[2], mf |-> CacheManifest(ids[i])]]
<1>1. more = <<>> \/ more = told
  BY Zenon DEF CacheInfos
<1>2. CASE more = <<>>
  <2>1. <<>> \in Seq({}) /\ DOMAIN <<>> = {}
    OBVIOUS
  <2> QED
    BY <1>2, <2>1, Zenon DEF InfosOk
<1>3. CASE more = told
  <2>1. DOMAIN told = DOMAIN ids
    BY Zenon
  <2>2. told \in Seq({told[j] : j \in DOMAIN ids})
    <3>1. told \in [1..n -> {told[j] : j \in DOMAIN ids}]
      BY <2>1, Zenon
    <3> HIDE DEF told
    <3> QED
      BY <3>1, FunctionSeq, Zenon
  <2>3. ASSUME NEW j \in DOMAIN ids PROVE InfoOk(fl, backend, told[j])
    <3>1. told[j].mf = CacheManifest(ids[j]) /\ told[j] = [alba |-> told[j].alba, mf |-> told[j].mf]
      BY Zenon
    <3> HIDE DEF told
    <3>2. PICK c \in DOMAIN Layout(v).sizes, f \in 1..Layout(v).k : ids[j] = <<o, v, c, f>>
      BY Zenon
    <3>3. told[j].mf = CacheManifest(<<o, v, c, f>>)
      BY <3>1, <3>2, Zenon
    <3>4. Sent(fl, told[j].mf)
      BY <3>3, Zenon DEF Sent
    <3>5. ASSUME NEW p \in Object, told[j].mf.name = <<p>> PROVE FALSE
      <4>1. <<o, v, c, f>> = <<p>>
        BY <3>3, <3>5, ManifestNames, Zenon
      <4> QED
        BY <4>1
    <3> QED
      BY <3>1, <3>4, <3>5, Zenon DEF InfoOk
  <2> HIDE DEF told
  <2> QED
    BY <1>3, <2>1, <2>2, <2>3, Zenon DEF InfosOk
<1> QED
  BY <1>1, <1>2, <1>3, Zenon

(* A call that has manifests to keep.                                       *)
Keeping(fl, la, be, r) ==
    /\ IsCall(r) /\ r.wrong # "bytes" /\ (OnlyQuiet => r.wrong # "version")
    /\ r.req \in Seq(ObjectSlices) /\ Fetched(r, DOMAIN r.req)
    /\ r.from \in [Object -> Nat] /\ r.mark \in [Object -> Nat]
    /\ \A o \in Object : r.from[o] <= fl[o] /\ r.mark[o] <= la[o]
    /\ InfosOk(fl, be, r.infos) /\ r.infos # <<>>
    /\ \/ Zero(r.mark)
       \/ \E o \in Object : /\ Marks(r.mark, o)
                            /\ r.infos[Len(r.infos)].mf = ObjectManifest(o, r.mark[o])
(* For a call that stores manifests, that is all the invariant says.        *)
LEMMA KeepingOk ==
    ASSUME NEW fl, NEW la, NEW be, NEW r, Phase(r) \in Storing,
           r.pc \in Updating => r.ret \in {"copy", "read", "first"},
           Phase(r) \in {"add", "insert"} =>
             \A o \in Object : r.infos[1].mf.name = <<o>> => r.infos[1].alba = be[1]
    PROVE  /\ Keeping(fl, la, be, r) => ReadOk(r) /\ SeenOk(fl, la, be, r)
           /\ IsCall(r) /\ ReadOk(r) /\ SeenOk(fl, la, be, r) => Keeping(fl, la, be, r)
<1>1. /\ Phase(r) \notin Reading /\ Phase(r) \notin Resting
      /\ Phase(r) \notin {"levels", "copy", "resolve", "read", "decrypt", "lookup", "get",
                          "change", "changed", "invalidate"}
  BY Zenon DEF Storing, Reading, Resting
<1>2. Keeping(fl, la, be, r) => ReadOk(r)
  BY <1>1, Zenon DEF Keeping, ReadOk
<1>3. Keeping(fl, la, be, r) => SeenOk(fl, la, be, r)
  BY <1>1, Zenon DEF Keeping, SeenOk, InfosOk
<1>4. IsCall(r) /\ ReadOk(r) /\ SeenOk(fl, la, be, r) => Keeping(fl, la, be, r)
  BY <1>1, Zenon DEF Keeping, ReadOk, SeenOk, InfosOk
<1> QED
  BY <1>2, <1>3, <1>4, Zenon

(* A read that was told of manifests.                                       *)
Told(r, s, i, buffer) ==
    /\ IsCall(s) /\ s.wrong = r.wrong /\ s.req = r.req /\ s.from = r.from /\ s.mark = r.mark
    /\ s.got = [r.got EXCEPT ![i] = buffer] /\ s.via = r.via \ {i}
    /\ s.pc = IF r.via = {i} THEN "process" ELSE "lookup"
(* A read through the proxy.                                                *)
LEMMA ProxyStep ==
    Base /\ ReadInv /\ (\E c \in Client : Lookup(c) \/ Get(c))
      => ReadInv'
(* A call that has the proxy's manifest of what it reads.                   *)
<1>GetOk.
    ASSUME NEW r, Sound(r), r.pc = "get", r.via # {}, Fetched(r, DOMAIN r.req \ r.via),
           NEW fl, NEW la, NEW be, Current(fl, la, be, r), r.mf \in Version1,
           Least(fl, r.req[first_of(r)].object) <= r.mf
    PROVE  ReadOk(r) /\ SeenOk(fl, la, be, r) /\ \A ca, kn, ep : QuietOk(ca, kn, ep, r)
  <2> USE <1>GetOk
  <2>1. /\ Phase(r) = "get" /\ r.pc \notin Updating /\ Phase(r) \in Reading
        /\ Phase(r) \notin Storing /\ Phase(r) \notin Resting
    BY Zenon DEF Phase, Updating, Reading, Storing, Resting
  <2>2. ReadOk(r)
    BY <2>1, Zenon DEF ReadOk, Sound
  <2>3. SeenOk(fl, la, be, r)
    BY <2>1, Zenon DEF SeenOk, Current
  <2> QED
    BY <2>1, <2>2, <2>3, CurrentIs, Zenon
(* The last version, and the one the proxy knows, are new enough.           *)
<1>LastIsLeast.
    ASSUME World, NEW o \in Object
    PROVE  /\ last[o] \in Version1 /\ Least(floor, o) <= last[o]
           /\ known[o] # 0 => known[o] \in Version1 /\ Least(floor, o) <= known[o]
  <2> USE <1>LastIsLeast
  <2>1. last[o] \in Version1 /\ known[o] \in Nat /\ floor[o] \in Nat /\ floor[o] <= last[o]
        /\ (known[o] # 0 => Least(floor, o) <= known[o])
    BY Zenon DEF World
  <2>2. 0 <= last[o]
    BY <2>1 DEF Version1
  <2>3. Least(floor, o) <= last[o]
    BY <2>1, <2>2, Zenon DEF Least
  <2>4. known[o] # 0 => known[o] \in Version1
    BY <2>1, Zenon DEF Version1
  <2> QED
    BY <2>1, <2>3, <2>4, Zenon
(* The proxy finds the manifest, in its cache or in the NSM.                *)
<1>LookupReads.
    ASSUME Base, ReadInv, NEW c \in Client, Lookup(c) PROVE ReadInv'
  <2> USE <1>LookupReads
  <2> DEFINE r == th[c]
             o == r.req[first_of(r)].object
             got(v, src) == [r EXCEPT !.pc = "get", !.mf = v, !.src = src]
  <2>1. /\ r.pc = "lookup" /\ Beside
        /\ \/ known[o] # 0 /\ Goes(c, got(known[o], "fast"))
           \/ Goes(c, got(last[o], "slow")) \/ Goes(c, Thrown(r))
    BY Zenon DEF Lookup, first_of, Beside, ReadInv, World, same, nsmVars, accessVars
  <2>2. Phase(r) = "lookup" /\ Phase(r) \in Reading /\ r.pc \notin Resting
    BY <2>1, Zenon DEF Phase, Updating, Reading, Resting
  <2>3. Sound(r) /\ Current(floor, last, backend, r) /\ ReadOk(r) /\ IsCall(r)
    BY <2>2, ReadIs, Zenon
  <2>4. r.via # {} /\ Fetched(r, DOMAIN r.req \ r.via)
    BY <2>2, <2>3, Zenon DEF ReadOk
  <2>5. o \in Object
    BY <2>3, <2>4, FirstIs, Zenon DEF ObjectSlices
  <2>6. /\ last[o] \in Version1 /\ Least(floor, o) <= last[o]
        /\ known[o] # 0 => known[o] \in Version1 /\ Least(floor, o) <= known[o]
    BY <2>5, <1>LastIsLeast, Zenon DEF ReadInv
  <2>7. ASSUME NEW v \in Version1, Least(floor, o) <= v, NEW src, Goes(c, got(v, src)) PROVE ReadInv'
    <3> DEFINE s == got(v, src)
    <3>1. /\ Keeps(r, s) /\ s.via = r.via /\ s.got = r.got /\ s.pc = "get" /\ s.mf = v
      BY <2>3, SomeFields, Zenon DEF IsCall, Keeps
    <3>2. Goes(c, s)
      BY <2>7, Zenon
    <3> HIDE DEF s
    <3>3. s.via \subseteq DOMAIN r.req /\ s.got = [i \in DOMAIN r.req |-> s.got[i]]
      BY <2>3, <3>1, Zenon DEF Sound
    <3>4. Sound(s) /\ Current(floor, last, backend, s)
      BY <2>3, <3>1, <3>3, KeepsOk, Zenon
    <3>5. s.via # {} /\ Fetched(s, DOMAIN s.req \ s.via)
      BY <2>4, <3>1, Zenon DEF Fetched, Keeps
    <3>6. s.req[first_of(s)].object = o
      BY <3>1, Zenon DEF first_of, Keeps
    <3>7. Least(floor, s.req[first_of(s)].object) <= s.mf /\ s.mf \in Version1
      BY <2>7, <3>1, <3>6, Zenon
    <3>8. ReadOk(s) /\ SeenOk(floor, last, backend, s) /\ \A ca, kn, ep : QuietOk(ca, kn, ep, s)
      BY <3>1, <3>4, <3>5, <3>7, <1>GetOk, Zenon
    <3> QED
      BY <2>1, <2>2, <3>2, <3>8, MoveBeside, Zenon
  <2> HIDE DEF got
  <2>8. CASE Goes(c, Thrown(r))
    BY <2>1, <2>2, <2>8, FreshRests, EndBeside, Zenon
  <2> QED
    BY <2>1, <2>6, <2>7, <2>8, Zenon
(* The cached fragments it read.                                            *)
<1>FragmentInfos.
    ASSUME NEW fl, NEW o \in Object, NEW v \in Version1, NEW t, NEW ls, NEW S, ls \in Seq(S),
           \A j \in DOMAIN ls : Placed(ObjectManifest(o, v), t, 0, ls[j]),
           NEW more \in CacheInfos([j \in DOMAIN ls |-> CacheName(ls[j])])
    PROVE  InfosOk(fl, backend, more)
  <2> USE <1>FragmentInfos
  <2> DEFINE ids == [j \in DOMAIN ls |-> CacheName(ls[j])]
  <2>1. DOMAIN ids = 1..Len(ls) /\ Len(ls) \in Nat
    <3>1. DOMAIN ls = 1..Len(ls) /\ Len(ls) \in Nat
      OBVIOUS
    <3> QED
      BY <3>1, Zenon
  <2>2. ASSUME NEW j \in DOMAIN ids
        PROVE  \E c \in DOMAIN Layout(v).sizes, f \in 1..Layout(v).k : ids[j] = <<o, v, c, f>>
    <3> DEFINE l == ls[j]
               w == [level |-> 2, name |-> CacheName(l),
                     slices |-> <<[offset |-> l.offset, size |-> l.length, target |-> l.target]>>]
    <3>1. Placed(ObjectManifest(o, v), t, 0, l)
      BY Zenon
    <3>2. ids[j] = CacheName(l)
      BY Zenon
    <3> HIDE DEF l, ids
    <3>3. w.level = 2 /\ w.name = CacheName(l)
          /\ w.slices = <<[offset |-> l.offset, size |-> l.length, target |-> l.target]>>
      BY Zenon
    <3> HIDE DEF w
    <3>4. Below(t, o, v, w)
      BY <3>1, <3>3, BelowIs, Zenon
    <3> QED
      BY <3>2, <3>3, <3>4, Zenon DEF Below
  <2>3. more \in CacheInfos(ids)
    BY Zenon
  <2> HIDE DEF ids
  <2> QED
    BY <2>1, <2>2, <2>3, CachedInfos, Zenon
(* The proxy has read the slices of an object.                              *)
<1>GetGot.
    ASSUME NEW q \in ObjectSlices, NEW from, NEW v \in Version1, New(from, q.object, v), NEW ls,
           ls = resolve(ObjectManifest(q.object, v), Targets(q.slices)),
           AllInside(ObjectManifest(q.object, v), q.slices),
           \A j \in DOMAIN ls : ls[j].encryption = "ctr" => ls[j].ctr # <<>>
    PROVE  /\ GotOk(q, from, Filled(q.slices, ls))
           /\ \E S : ls \in Seq(S)
           /\ \A j \in DOMAIN ls : Placed(ObjectManifest(q.object, v), Targets(q.slices), 0, ls[j])
  <2> USE <1>GetGot
  <2>1. q.slices \in Seq(Asked)
    BY Zenon DEF ObjectSlices, Asked
  <2>2. AllInside(ObjectManifest(q.object, v), Targets(q.slices))
    BY <2>1, TargetsInside, Zenon
  <2>3. Resolved(ObjectManifest(q.object, v), Targets(q.slices), 0, Targets(q.slices), ls)
    BY <2>2, TopFound, Zenon
  <2>4. LocsOk(q, v, ls) /\ \A b \in 0..(Size(q.slices) - 1) : Shows(ls, b)
    BY <2>3, TopShows, Zenon
  <2>5. Whole(q, from, ls)
    BY <2>4, Zenon DEF Whole
  <2>6. \A j \in DOMAIN ls : Readable(ls[j])
    BY Zenon DEF Readable
  <2>7. GotOk(q, from, Filled(q.slices, ls))
    BY <2>5, <2>6, WholeGot, Zenon
  <2> QED
    BY <2>3, <2>7, Zenon DEF Resolved
(* The proxy's answer for one object: the next one, or the manifests to     *)
(* store.                                                                   *)
<1>GotMoves.
    ASSUME Base, ReadInv, NEW c \in Client, th[c].pc = "get", World',
           UNCHANGED <<last, floor, backend, quiet>>, NEW s, Goes(c, s),
           NEW i, i = first_of(th[c]), NEW buffer, GotOk(th[c].req[i], th[c].from, buffer),
           Told(th[c], s, i, buffer), InfosOk(floor, backend, s.infos), s.infos # <<>>
    PROVE  ReadInv'
  <2> USE <1>GotMoves
  <2> DEFINE r == th[c]
  <2>1. Phase(r) = "get" /\ Phase(r) \in Reading /\ r.pc \notin Resting
    BY Zenon DEF Phase, Updating, Reading, Resting
  <2>2. Sound(r) /\ Current(floor, last, backend, r) /\ ReadOk(r) /\ IsCall(r)
    BY <2>1, ReadIs, Zenon
  <2>3. r.via # {} /\ Fetched(r, DOMAIN r.req \ r.via)
    BY <2>1, <2>2, Zenon DEF ReadOk
  <2>4. i \in r.via /\ i \in DOMAIN r.req
    BY <2>2, <2>3, FirstIs, Zenon
  <2>0. /\ IsCall(s) /\ s.wrong = r.wrong /\ s.req = r.req /\ s.from = r.from /\ s.mark = r.mark
        /\ s.via = r.via \ {i} /\ s.pc = IF r.via = {i} THEN "process" ELSE "lookup"
    BY Zenon DEF Told
  <2>5. r.got = [j \in DOMAIN r.req |-> r.got[j]] /\ r.via \subseteq DOMAIN r.req
    BY <2>2, Zenon DEF Sound
  <2>6. /\ s.got = [j \in DOMAIN r.req |-> s.got[j]] /\ s.got[i] = buffer
        /\ \A j \in DOMAIN r.req : j # i => s.got[j] = r.got[j]
    BY <2>4, <2>5, Zenon DEF Told
  <2>7. Fetched(s, DOMAIN s.req \ s.via)
    <3>1. ASSUME NEW j \in DOMAIN r.req \ s.via PROVE GotOk(r.req[j], r.from, s.got[j])
      BY <2>0, <2>3, <2>6, Zenon DEF Fetched
    <3> QED
      BY <2>0, <3>1, Zenon DEF Fetched
  <2>9. Sound(s)
    BY <2>0, <2>2, <2>5, <2>6, Zenon DEF Sound
  <2>10. Current(floor, last, backend, s)
    BY <2>0, <2>2, Zenon DEF Current, InfosOk
  <2>11. \A o \in Object : last[o] <= last'[o]
    <3>1. UNCHANGED last
      BY Zenon
    <3> QED
      BY <3>1, NoLater, Zenon
  <2>12. CASE r.via # {i}
    <3>1. s.pc = "lookup" /\ s.via # {}
      BY <2>0, <2>4, <2>12, Zenon
    <3>2. ReadOk(s) /\ SeenOk(floor, last, backend, s) /\ \A ca, kn, ep : QuietOk(ca, kn, ep, s)
      BY <2>7, <2>9, <2>10, <3>1, LookupOk, Zenon
    <3> QED
      BY <2>1, <2>11, <3>2, CallMoves, Zenon
  <2>13. CASE r.via = {i}
    <3>1. s.pc = "process" /\ DOMAIN s.req \ s.via = DOMAIN s.req
      BY <2>0, <2>13, Zenon
    <3>2. Phase(s) \in Storing /\ s.pc \notin Updating /\ Phase(s) = "process"
      BY <3>1, Zenon DEF Phase, Updating, Storing
    <3>3. Keeping(floor, last, backend, s)
      BY <2>7, <2>9, <2>10, <3>1, Zenon DEF Keeping, Sound, Current
    <3>4. ReadOk(s) /\ SeenOk(floor, last, backend, s)
      BY <3>2, <3>3, KeepingOk, Zenon
    <3>5. QuietOk(mc', known', epilogues', s)
      <4>1. ASSUME NEW o \in Object PROVE s.mark[o] <= known'[o]
        <5>1. s.mark[o] = 0 /\ known'[o] \in Nat
          BY <2>10, Zenon DEF Current, Zero, World
        <5> QED
          BY <5>1
      <4>2. ASSUME NEW e \in epilogues' PROVE s.mark[e.object] <= e.version
        <5>1. e.object \in Object /\ e.version \in Version1
          BY Zenon DEF World, EpilogueOk
        <5>2. s.mark[e.object] = 0
          BY <2>10, <5>1, Zenon DEF Current, Zero
        <5> QED
          BY <5>1, <5>2 DEF Version1
      <4>3. Phase(s) \notin {"change", "changed", "insert", "invalidate"}
        BY <3>2, Zenon
      <4> QED
        BY <4>1, <4>2, <4>3, Zenon DEF QuietOk
    <3> QED
      BY <2>1, <2>11, <3>4, <3>5, CallMoves, Zenon
  <2> QED
    BY <2>12, <2>13, Zenon
(* The proxy reads the object, or finds its manifest stale.                 *)
<1>GetReads.
    ASSUME Base, ReadInv, NEW c \in Client, Get(c) PROVE ReadInv'
  <2> USE <1>GetReads
  <2> DEFINE r == th[c]
             i == first_of(r)
             q == r.req[i]
             o == q.object
             mf == ObjectManifest(o, r.mf)
             ls == resolve(mf, Targets(q.slices))
             can == /\ AllInside(mf, q.slices) /\ <<o, r.mf>> \in blobs
                    /\ \A j \in DOMAIN ls : ls[j].encryption = "ctr" => ls[j].ctr # <<>>
             buffer == Filled(q.slices, ls)
             pc == IF r.via = {i} THEN "process" ELSE "lookup"
             read(more) == [r EXCEPT !.got[i] = buffer, !.via = @ \ {i},
                                     !.infos = more \o Infos(<<mf>>) \o @,
                                     !.mf = 0, !.src = "none", !.pc = pc]
  <2>1. /\ r.pc = "get" /\ UNCHANGED <<last, floor, epilogues, backend, mc, quiet>>
        /\ known' = [known EXCEPT ![o] = r.mf] \/ known' = known
        /\ \/ can /\ \E more \in CacheInfos([j \in DOMAIN ls |-> CacheName(ls[j])]) : Goes(c, read(more))
           \/ To(c, "lookup") \/ Goes(c, Thrown(r))
    BY Zenon DEF Get, first_of, sameButEvents, nsmVars, accessVars
  <2>2. Phase(r) = "get" /\ Phase(r) \in Reading /\ r.pc \notin Resting
    BY <2>1, Zenon DEF Phase, Updating, Reading, Resting
  <2>3. Sound(r) /\ Current(floor, last, backend, r) /\ ReadOk(r) /\ IsCall(r)
    BY <2>2, ReadIs, Zenon
  <2>4. r.via # {} /\ Fetched(r, DOMAIN r.req \ r.via)
    BY <2>2, <2>3, Zenon DEF ReadOk
  <2>5. q \in ObjectSlices /\ o \in Object
    <3>1. q \in ObjectSlices
      BY <2>3, <2>4, FirstIs, Zenon
    <3> QED
      BY <3>1, Zenon DEF ObjectSlices
  <2>6. r.mf \in Version1 /\ Least(floor, o) <= r.mf
    <3>1. SeenOk(floor, last, backend, r)
      BY CallOk, Zenon
    <3> QED
      BY <2>2, <3>1, Zenon DEF SeenOk
  <2>7. World'
    <3>1. r.mf \in Nat
      BY <2>6, Zenon DEF Version1
    <3> HIDE DEF o
    <3> QED
      BY <2>1, <2>6, <3>1, KnownWorld, Zenon DEF ReadInv
  <2>8. \A p \in Object : last[p] <= last'[p]
    <3>1. UNCHANGED last
      BY <2>1, Zenon
    <3> QED
      BY <3>1, NoLater, Zenon
  <2>9. ASSUME can, NEW more \in CacheInfos([j \in DOMAIN ls |-> CacheName(ls[j])]), Goes(c, read(more))
        PROVE  ReadInv'
    <3>1. New(r.from, o, r.mf)
      BY <2>3, <2>5, <2>6, LeastIsNew, Zenon DEF ReadInv
    <3>2. /\ GotOk(q, r.from, buffer)
          /\ \E S : ls \in Seq(S)
          /\ \A j \in DOMAIN ls : Placed(mf, Targets(q.slices), 0, ls[j])
      <4> HIDE DEF q
      <4> QED
        BY <2>5, <2>6, <2>9, <3>1, <1>GetGot, Zenon
    <3> HIDE DEF buffer, pc
    <3>3. InfosOk(floor, backend, more)
      <4> HIDE DEF ls, o
      <4> QED
        BY <2>5, <2>6, <2>9, <3>2, <1>FragmentInfos, Zenon
    <3>4. InfosOk(floor, backend, Infos(<<mf>>)) /\ Infos(<<mf>>) # <<>>
      <4> HIDE DEF o
      <4> QED
        BY <2>5, <2>6, ObjectInfos, Zenon
    <3>5. InfosOk(floor, backend, r.infos)
      BY <2>3, Zenon DEF Current, InfosOk
    <3> HIDE DEF mf
    <3> DEFINE s == read(more)
               a == r.infos
               b == Infos(<<mf>>)
               infos == more \o b \o a
    <3>6. InfosOk(floor, backend, infos) /\ infos # <<>>
      <4> HIDE DEF a, b
      <4>1. InfosOk(floor, backend, a) /\ InfosOk(floor, backend, b) /\ b # <<>>
        BY <3>4, <3>5, Zenon DEF a, b
      <4> DEFINE mb == more \o b
      <4>2. InfosOk(floor, backend, mb) /\ mb # <<>>
        BY <3>3, <4>1, ConcatInfos
      <4> HIDE DEF mb
      <4>3. InfosOk(floor, backend, mb \o a) /\ mb \o a # <<>>
        BY <4>1, <4>2, ConcatInfos
      <4> QED
        BY <4>3, Zenon DEF mb
    <3> HIDE DEF infos
    <3>7. /\ IsCall(s) /\ s.wrong = r.wrong /\ s.req = r.req /\ s.from = r.from /\ s.mark = r.mark
          /\ s.got = [r.got EXCEPT ![i] = buffer] /\ s.via = r.via \ {i} /\ s.infos = infos /\ s.pc = pc
      <4> HIDE DEF i
      <4> QED
        BY <2>3, SomeFields, Zenon DEF IsCall, infos
    <3>8. Goes(c, s)
      BY <2>9, Zenon
    <3> HIDE DEF s
    <3>9. s.pc = IF r.via = {i} THEN "process" ELSE "lookup"
      BY <3>7, Zenon DEF pc
    <3>10. UNCHANGED <<last, floor, backend, quiet>>
      BY <2>1, Zenon
    <3> HIDE DEF i
    <3>11. i = first_of(r) /\ GotOk(r.req[i], r.from, buffer)
      BY <3>2, Zenon DEF i
    <3>12. Told(r, s, i, buffer) /\ InfosOk(floor, backend, s.infos) /\ s.infos # <<>>
      BY <3>6, <3>7, <3>9, Zenon DEF Told
    <3> QED
      BY <2>1, <2>7, <3>8, <3>10, <3>11, <3>12, <1>GotMoves, Zenon
  <2>10. CASE To(c, "lookup")
    <3> DEFINE s == [r EXCEPT !.pc = "lookup"]
    <3>1. Keeps(r, s) /\ s.via = r.via /\ s.got = r.got /\ s.pc = "lookup"
      BY <2>3, SomeFields, Zenon DEF IsCall, Keeps
    <3>2. Goes(c, s)
      BY <2>10, Zenon DEF To
    <3> HIDE DEF s
    <3>3. s.via \subseteq DOMAIN r.req /\ s.got = [j \in DOMAIN r.req |-> s.got[j]]
      BY <2>3, <3>1, Zenon DEF Sound
    <3>4. Sound(s) /\ Current(floor, last, backend, s)
      BY <2>3, <3>1, <3>3, KeepsOk, Zenon
    <3>5. s.via # {} /\ Fetched(s, DOMAIN s.req \ s.via)
      BY <2>4, <3>1, Zenon DEF Fetched, Keeps
    <3>6. ReadOk(s) /\ SeenOk(floor, last, backend, s) /\ \A ca, kn, ep : QuietOk(ca, kn, ep, s)
      BY <3>1, <3>4, <3>5, LookupOk, Zenon
    <3> QED
      BY <2>1, <2>2, <2>7, <2>8, <3>2, <3>6, CallMoves, Zenon
  <2>11. CASE Goes(c, Thrown(r))
    BY <2>1, <2>2, <2>7, <2>8, <2>11, FreshRests, CallEnds, Zenon
  <2> HIDE DEF can, read
  <2> QED
    BY <2>1, <2>9, <2>10, <2>11, Zenon
<1> QED
  BY <1>LookupReads, <1>GetReads, Zenon

-----------------------------------------------------------------------------
(* Writes and removals.                                                     *)

(* A call that asked for nothing has what it asked for.                     *)
LEMMA ReadEmpty ==
    ASSUME NEW r, r.req = <<>> PROVE r.req \in Seq(ObjectSlices) /\ Fetched(r, DOMAIN r.req)
<1>1. <<>> \in Seq(ObjectSlices) /\ DOMAIN <<>> = {}
  OBVIOUS
<1> QED
  BY <1>1, Zenon DEF Fetched

(* A version more.                                                          *)
LEMMA LaterWorld ==
    ASSUME World, NEW o \in Object, last' = [last EXCEPT ![o] = @ + 1],
           UNCHANGED <<floor, known, epilogues, backend, mc>>
    PROVE  /\ World' /\ \A p \in Object : last[p] <= last'[p]
           /\ last'[o] = last[o] + 1 /\ last[o] + 1 \in Version1 /\ Least(floor, o) <= last[o] + 1
<1>1. last \in [Object -> Version1]
  BY Zenon DEF World
<1>2. last'[o] = last[o] + 1 /\ \A p \in Object : p # o => last'[p] = last[p]
  BY <1>1, Zenon
<1>3. ASSUME NEW p \in Object PROVE last'[p] \in Version1 /\ last[p] <= last'[p] /\ floor[p] <= last'[p]
  <2>1. last[p] \in Version1 /\ floor[p] \in Nat /\ floor[p] <= last[p]
    BY Zenon DEF World
  <2>2. last'[p] = last[p] \/ last'[p] = last[p] + 1
    BY <1>2, Zenon
  <2> QED
    BY <2>1, <2>2 DEF Version1
<1>4. last' \in [Object -> Version1]
  <2>1. last' = [p \in Object |-> last'[p]]
    BY <1>1, Zenon
  <2> QED
    BY <1>3, <2>1, Zenon
<1>5. World'
  BY <1>3, <1>4, Zenon DEF World
<1>6. last[o] + 1 \in Version1 /\ Least(floor, o) <= last[o] + 1
  <2>1. /\ last[o] \in Version1 /\ floor[o] \in Nat /\ floor[o] <= last[o]
        /\ Least(floor, o) = floor[o] \/ Least(floor, o) = 0
    BY Zenon DEF World, Least
  <2> QED
    BY <2>1 DEF Version1
<1> QED
  BY <1>2, <1>3, <1>5, <1>6, Zenon

(* The fragments of a version that may be in a cache.                       *)
LEMMA FragmentNamesAre ==
    ASSUME NEW o, NEW v \in Version1
    PROVE  /\ \E n \in Nat : DOMAIN FragmentNames(o, v) = 1..n
           /\ \A j \in DOMAIN FragmentNames(o, v) :
                \E c \in DOMAIN Layout(v).sizes, f \in 1..Layout(v).k :
                  FragmentNames(o, v)[j] = <<o, v, c, f>>
<1> DEFINE k == Layout(v).k
           m == Len(Layout(v).sizes)
<1>1. k \in Nat \ {0} /\ m \in Nat /\ DOMAIN Layout(v).sizes = 1..m
  <2>1. k \in Nat \ {0} /\ Layout(v).sizes \in Seq(Nat \ {0})
    BY LayoutIs, Zenon DEF IsLayout
  <2> QED
    BY <2>1
<1>2. DOMAIN FragmentNames(o, v) = 1..(m * k) /\ m * k \in Nat
  <2>1. DOMAIN FragmentNames(o, v) = 1..(m * k)
    BY Zenon DEF FragmentNames
  <2> HIDE DEF m, k
  <2> QED
    BY <1>1, <2>1
<1>3. ASSUME NEW j \in DOMAIN FragmentNames(o, v)
      PROVE  \E c \in DOMAIN Layout(v).sizes, f \in 1..Layout(v).k :
               FragmentNames(o, v)[j] = <<o, v, c, f>>
  <2>1. FragmentNames(o, v)[j] = <<o, v, ((j - 1) \div k) + 1, ((j - 1) % k) + 1>>
    BY <1>3, Zenon DEF FragmentNames
  <2> DEFINE a == j - 1
             x == a \div k
             y == a % k
  <2>2. j \in 1..(m * k)
    BY <1>2, Zenon
  <2> HIDE DEF m, k
  <2>3. a \in Int /\ 0 <= a /\ a < m * k
    BY <1>1, <1>2, <2>2
  <2> HIDE DEF a
  <2>4. x \in Int /\ y \in 0..(k - 1) /\ a = x * k + y
    BY <1>1, <2>3, DividedExists DEF Divided
  <2> HIDE DEF x, y
  <2>5. 0 <= x
    <3>1. SUFFICES ASSUME x <= -1 PROVE FALSE
      BY <2>4
    <3>2. x * k <= (-1) * k
      BY <1>1, <2>4, <3>1
    <3> QED
      BY <1>1, <2>3, <2>4, <3>2
  <2>6. x < m
    <3>1. SUFFICES ASSUME m <= x PROVE FALSE
      BY <1>1, <2>4
    <3>2. m * k <= x * k
      BY <1>1, <2>4, <3>1
    <3> QED
      BY <1>1, <2>3, <2>4, <3>2
  <2>7. x + 1 \in 1..m /\ y + 1 \in 1..k
    BY <1>1, <2>4, <2>5, <2>6
  <2>8. FragmentNames(o, v)[j] = <<o, v, x + 1, y + 1>>
    BY <2>1, Zenon DEF x, y, a
  <2> QED
    BY <1>1, <2>7, <2>8, Zenon DEF k
<1> QED
  BY <1>2, <1>3, Zenon

(* A write or a delete.                                                     *)
LEMMA ChangeStep ==
    Base /\ ReadInv /\ (\E c \in Client : Change(c) \/ Changed(c))
      => ReadInv'
(* The one element of a sequence of one.                                    *)
<1>HeadOfOne.
    ASSUME NEW s, NEW o, s = <<o>> PROVE s[1] = o
  BY <1>HeadOfOne
(* A write or a delete reaches the NSM, ...                                 *)
<1>ChangeReads.
    ASSUME Base, ReadInv, NEW c \in Client, Change(c) PROVE ReadInv'
  <2> USE <1>ChangeReads
  <2> DEFINE r == th[c]
             o == r.work[1]
             s == [r EXCEPT !.pc = "changed", !.mark[o] = last[o] + 1]
  <2>1. /\ r.pc = "change" /\ UNCHANGED <<floor, epilogues, backend, mc, quiet>>
        /\ \/ last' = [last EXCEPT ![o] = @ + 1] /\ Goes(c, s) /\ UNCHANGED known
           \/ Goes(c, Thrown(r)) /\ known' = [known EXCEPT ![o] = 0] /\ UNCHANGED last
    BY Zenon DEF Change, changes, same, nsmVars, accessVars
  <2>2. /\ Phase(r) = "change" /\ r.pc \notin Resting
    BY <2>1, Zenon DEF Phase, Updating, Resting
  <2>3. IsCall(r) /\ ReadOk(r) /\ SeenOk(floor, last, backend, r)
    BY CallOk, Zenon
  <2>4. Zero(r.mark) /\ r.req = <<>> /\ o \in Object /\ r.work = <<o>>
    <3>1. PICK p \in Object : r.work = <<p>>
      BY <2>2, <2>3, Zenon DEF SeenOk
    <3>2. r.work[1] = p
      BY <3>1, <1>HeadOfOne, Zenon
    <3> QED
      BY <2>2, <2>3, <3>1, <3>2, Zenon DEF ReadOk, SeenOk
  <2> HIDE DEF o
  <2>5. CASE last' = [last EXCEPT ![o] = @ + 1] /\ Goes(c, s) /\ UNCHANGED known
    <3>1. /\ World' /\ \A p \in Object : last[p] <= last'[p]
          /\ last'[o] = last[o] + 1 /\ last[o] + 1 \in Version1 /\ Least(floor, o) <= last[o] + 1
      BY <2>1, <2>4, <2>5, LaterWorld, Zenon DEF ReadInv
    <3>2. /\ IsCall(s) /\ s.pc = "changed" /\ s.wrong = r.wrong /\ s.req = r.req /\ s.from = r.from
          /\ s.infos = r.infos /\ s.work = r.work /\ s.mark = [r.mark EXCEPT ![o] = last[o] + 1]
      BY <2>3, SomeFields, Zenon DEF IsCall
    <3> HIDE DEF s
    <3>3. r.mark \in [Object -> Nat]
      BY <2>3, Zenon DEF SeenOk
    <3>4. /\ s.mark[o] = last[o] + 1 /\ \A p \in Object : p # o => s.mark[p] = 0
          /\ s.mark = [p \in Object |-> s.mark[p]]
      BY <2>4, <3>2, <3>3, Zenon DEF Zero
    <3>5. Marks(s.mark, o) /\ Least(floor, o) <= s.mark[o]
      BY <2>4, <3>1, <3>4, Zenon DEF Marks
    <3>6. ASSUME NEW p \in Object PROVE s.mark[p] \in Nat /\ s.mark[p] <= last'[p]
      <4>1. last'[p] \in Version1
        BY <3>1, Zenon DEF World
      <4>2. s.mark[p] = 0 \/ s.mark[p] = last'[p]
        BY <3>1, <3>4, Zenon
      <4> QED
        BY <4>1, <4>2 DEF Version1
    <3>7. s.mark \in [Object -> Nat]
      BY <3>4, <3>6, Zenon
    <3>8. /\ Phase(s) = "changed" /\ s.pc \notin Updating /\ Phase(s) \notin Reading
          /\ Phase(s) \notin Storing /\ Phase(s) \notin Resting
      BY <3>2, Zenon DEF Phase, Updating, Reading, Storing, Resting
    <3>9. ReadOk(s)
      <4>1. Phase(s) \notin {"levels", "copy", "read", "decrypt", "lookup", "get"}
        BY <3>8, Zenon
      <4> QED
        BY <2>3, <2>4, <3>2, <3>8, <4>1, Zenon DEF ReadOk
    <3>10. SeenOk(floor, last', backend, s)
      <4>1. \A p \in Object : s.from[p] <= floor[p] /\ s.mark[p] <= last'[p]
        BY <2>3, <3>2, <3>6, Zenon DEF SeenOk
      <4>2. \E p \in Object : s.work = <<p>> /\ Marks(s.mark, p) /\ Least(floor, p) <= s.mark[p]
        BY <2>4, <3>2, <3>5, Zenon
      <4>3. Phase(s) \notin {"add", "insert"} /\ Phase(s) # "get" /\ Phase(s) # "change"
        BY <3>8, Zenon
      <4> QED
        BY <2>3, <3>2, <3>7, <3>8, <4>1, <4>2, <4>3, Zenon DEF SeenOk
    <3>11. ASSUME c \in quiet PROVE QuietOk(mc', known', epilogues', s)
      <4>1. epilogues = {}
        BY <2>2, <3>11, CallOk, Zenon DEF QuietOk
      <4> QED
        BY <2>1, <3>8, <4>1, Zenon DEF QuietOk
    <3> QED
      BY <2>1, <2>2, <2>5, <3>1, <3>9, <3>10, <3>11, CallMoves, Zenon
  <2>6. CASE Goes(c, Thrown(r)) /\ known' = [known EXCEPT ![o] = 0] /\ UNCHANGED last
    <3>1. World'
      BY <2>1, <2>6, 0 \in Nat, KnownWorld, Zenon DEF ReadInv
    <3> QED
      BY <2>1, <2>2, <2>6, <3>1, NoLater, FreshRests, CallEnds, Zenon
  <2> QED
    BY <2>1, <2>5, <2>6, Zenon
(* ... and the proxy answers with the new manifest, or with none.           *)
<1>ChangedReads.
    ASSUME Base, ReadInv, NEW c \in Client, Changed(c) PROVE ReadInv'
  <2> USE <1>ChangedReads
  <2> DEFINE r == th[c]
             o == r.work[1]
             v == r.mark[o]
             own == Infos(<<ObjectManifest(o, v)>>)
             told(more) == [r EXCEPT !.pc = "process", !.work = <<>>, !.infos = more \o own]
  <2>1. /\ r.pc = "changed" /\ UNCHANGED <<last, floor, backend, mc, quiet>>
        /\ \/ /\ known' = [known EXCEPT ![o] = v]
              /\ \E more \in CacheInfos(FragmentNames(o, v)) : Goes(c, told(more))
              /\ epilogues' = epilogues \/ epilogues' = epilogues \union {Epilogue(o, v)}
           \/ /\ known' = [known EXCEPT ![o] = 0] /\ UNCHANGED epilogues
              /\ Goes(c, Thrown(r)) \/ Goes(c, Returned(r))
    BY Zenon DEF Changed, nsmVars, accessVars
  <2>2. /\ Phase(r) = "changed" /\ r.pc \notin Resting
    BY <2>1, Zenon DEF Phase, Updating, Resting
  <2>3. IsCall(r) /\ ReadOk(r) /\ SeenOk(floor, last, backend, r)
    BY CallOk, Zenon
  <2>4. r.req = <<>> /\ Marks(r.mark, o) /\ Least(floor, o) <= v
    <3>1. PICK p \in Object : r.work = <<p>> /\ Marks(r.mark, p) /\ Least(floor, p) <= r.mark[p]
      BY <2>2, <2>3, Zenon DEF SeenOk
    <3>2. r.work[1] = p
      BY <3>1, <1>HeadOfOne, Zenon
    <3> QED
      BY <2>2, <2>3, <3>1, <3>2, Zenon DEF ReadOk
  <2>5. o \in Object /\ v \in Version1 /\ v \in Nat
    BY <2>4, Zenon DEF Marks, Version1
  <2>6. UNCHANGED last /\ \A p \in Object : last[p] <= last'[p]
    BY <2>1, NoLater, Zenon
  <2>7. ASSUME known' = [known EXCEPT ![o] = v],
               NEW more \in CacheInfos(FragmentNames(o, v)), Goes(c, told(more)),
               epilogues' = epilogues \/ epilogues' = epilogues \union {Epilogue(o, v)}
        PROVE  ReadInv'
    <3> DEFINE infos == more \o own
               s == told(more)
    <3>0. \A e \in epilogues' : e \in epilogues \/ (e = Epilogue(o, v) /\ EpilogueOk(floor, e))
      <4> HIDE DEF o, v
      <4> DEFINE e == Epilogue(o, v)
      <4>1. e.object = o /\ e.version = v /\ e = [x \in {"object", "version", "updated"} |-> e[x]]
        BY Zenon DEF Epilogue
      <4> HIDE DEF e
      <4>2. EpilogueOk(floor, e)
        BY <2>4, <2>5, <4>1, Zenon DEF EpilogueOk
      <4> QED
        BY <2>7, <4>2, Zenon DEF e
    <3>1. World'
      <4> HIDE DEF o, v
      <4> QED
        BY <2>1, <2>4, <2>5, <2>7, <3>0, KnownWorld, Zenon DEF ReadInv
    <3>2. /\ InfosOk(floor, backend, infos) /\ infos # <<>>
          /\ infos[Len(infos)].mf = ObjectManifest(o, v)
      <4> HIDE DEF o, v
      <4>1. /\ InfosOk(floor, backend, own) /\ own # <<>> /\ Len(own) = 1
            /\ own[1].mf = ObjectManifest(o, v)
        BY <2>4, <2>5, ObjectInfos, Zenon
      <4>2. InfosOk(floor, backend, more)
        <5>1. PICK ids : ids = FragmentNames(o, v)
          BY Zenon
        <5>2. PICK n \in Nat : DOMAIN ids = 1..n
          BY <2>5, <5>1, FragmentNamesAre, Zenon
        <5>3. \A j \in DOMAIN ids :
                \E x \in DOMAIN Layout(v).sizes, f \in 1..Layout(v).k : ids[j] = <<o, v, x, f>>
          BY <2>5, <5>1, FragmentNamesAre, Zenon
        <5>4. more \in CacheInfos(ids)
          BY <5>1, Zenon
        <5> QED
          BY <2>5, <5>2, <5>3, <5>4, CachedInfos, Zenon
      <4> HIDE DEF own
      <4>3. InfosOk(floor, backend, infos) /\ infos # <<>> /\ infos[Len(infos)] = own[Len(own)]
        <5>1. PICK a, b : a = more /\ b = own
          BY Zenon
        <5>2. InfosOk(floor, backend, a) /\ InfosOk(floor, backend, b) /\ b # <<>>
          BY <4>1, <4>2, <5>1, Zenon
        <5>3. /\ InfosOk(floor, backend, a \o b) /\ a \o b # <<>>
              /\ (a \o b)[Len(a \o b)] = b[Len(b)]
          BY <5>2, ConcatInfos
        <5> QED
          BY <5>1, <5>3, Zenon
      <4> HIDE DEF infos
      <4> QED
        BY <4>1, <4>3, Zenon
    <3> HIDE DEF infos
    <3>3. /\ IsCall(s) /\ s.pc = "process" /\ s.wrong = r.wrong /\ s.req = r.req /\ s.from = r.from
          /\ s.infos = infos /\ s.mark = r.mark
      BY <2>3, SomeFields, Zenon DEF IsCall, infos
    <3>9. Goes(c, s)
      BY <2>7, Zenon
    <3> HIDE DEF s, o
    <3>4. Phase(s) \in Storing /\ s.pc \notin Updating /\ Phase(s) = "process"
      BY <3>3, Zenon DEF Phase, Updating, Storing
    <3>5. Keeping(floor, last, backend, s)
      <4>1. s.req \in Seq(ObjectSlices) /\ Fetched(s, DOMAIN s.req)
        BY <2>4, <3>3, ReadEmpty, Zenon
      <4>2. \E p \in Object : /\ Marks(s.mark, p)
                              /\ s.infos[Len(s.infos)].mf = ObjectManifest(p, s.mark[p])
        BY <2>4, <2>5, <3>2, <3>3, Zenon
      <4>3. /\ s.wrong # "bytes" /\ (OnlyQuiet => s.wrong # "version")
        BY <2>3, <3>3, Zenon DEF ReadOk
      <4>4. /\ s.from \in [Object -> Nat] /\ s.mark \in [Object -> Nat]
            /\ \A p \in Object : s.from[p] <= floor[p] /\ s.mark[p] <= last[p]
        BY <2>3, <3>3, Zenon DEF SeenOk
      <4>5. InfosOk(floor, backend, s.infos) /\ s.infos # <<>> /\ IsCall(s)
        BY <3>2, <3>3, Zenon
      <4> QED
        BY <4>1, <4>2, <4>3, <4>4, <4>5, Zenon DEF Keeping
    <3>6. ReadOk(s) /\ SeenOk(floor, last, backend, s)
      BY <3>4, <3>5, KeepingOk, Zenon
    <3>7. ASSUME c \in quiet PROVE QuietOk(mc', known', epilogues', s)
      <4>1. known \in [Object -> Nat]
        BY Zenon DEF ReadInv, World
      <4>2. ASSUME NEW p \in Object PROVE s.mark[p] <= known'[p]
        <5>1. known'[p] \in Nat
          BY <3>1, Zenon DEF World
        <5>2. CASE p = o
          <6>1. s.mark[p] = known'[p]
            BY <2>7, <3>3, <4>1, <5>2, Zenon
          <6> QED
            BY <5>1, <6>1
        <5>3. CASE p # o
          <6>1. s.mark[p] = 0
            BY <2>4, <3>3, <5>3, Zenon DEF Marks
          <6> QED
            BY <5>1, <6>1
        <5> QED
          BY <5>2, <5>3, Zenon
      <4>3. ASSUME NEW e \in epilogues' PROVE s.mark[e.object] <= e.version
        <5>1. epilogues = {}
          BY <2>2, <3>7, CallOk, Zenon DEF QuietOk
        <5>2. e = Epilogue(o, v)
          BY <3>0, <4>3, <5>1, Zenon
        <5>3. e.object = o /\ e.version = v
          BY <5>2, Zenon DEF Epilogue
        <5>4. s.mark[e.object] = v /\ e.version = v
          BY <3>3, <5>3, Zenon
        <5> QED
          BY <2>5, <5>4
      <4>4. Phase(s) \notin {"change", "changed", "insert", "invalidate"}
        BY <3>4, Zenon
      <4> QED
        BY <4>2, <4>3, <4>4, Zenon DEF QuietOk
    <3> QED
      BY <2>1, <2>2, <2>6, <3>1, <3>6, <3>7, <3>9, CallMoves, Zenon
  <2>8. CASE /\ known' = [known EXCEPT ![o] = 0] /\ UNCHANGED epilogues
             /\ Goes(c, Thrown(r)) \/ Goes(c, Returned(r))
    <3>1. World'
      <4> HIDE DEF o
      <4> QED
        BY <2>1, <2>8, 0 \in Nat, KnownWorld, Zenon DEF ReadInv
    <3>2. Rests(Thrown(r)) /\ Rests(Returned(r))
      BY <2>4, ReadEmpty, ReturnedRests, FreshRests, Zenon
    <3> QED
      BY <2>1, <2>2, <2>6, <2>8, <3>1, <3>2, CallEnds, Zenon
  <2> HIDE DEF told
  <2> QED
    BY <2>1, <2>7, <2>8, Zenon
<1> QED
  BY <1>ChangeReads, <1>ChangedReads, Zenon

-----------------------------------------------------------------------------
(* _process, the ends of calls, and what is not a call's doing.             *)

(* What the invariant says of a call that stores manifests.                 *)
LEMMA StoreIs ==
    ASSUME Base, ReadInv, NEW c \in Client, Phase(th[c]) \in Storing
    PROVE  /\ IsCall(th[c]) /\ Keeping(floor, last, backend, th[c])
           /\ c \in quiet => QuietOk(mc, known, epilogues, th[c])
<1>1. /\ IsCall(th[c]) /\ ReadOk(th[c]) /\ SeenOk(floor, last, backend, th[c])
      /\ c \in quiet => QuietOk(mc, known, epilogues, th[c])
  BY CallOk, Zenon
<1>2. /\ th[c].pc \in Updating => th[c].ret \in {"copy", "read", "first"}
      /\ Phase(th[c]) \in {"add", "insert"} =>
           \A o \in Object : th[c].infos[1].mf.name = <<o>> => th[c].infos[1].alba = backend[1]
  BY <1>1, Zenon DEF ReadOk, SeenOk
<1> QED
  BY <1>1, <1>2, KeepingOk, Zenon

(* The first of some manifests gets the alba it is of.                      *)
Stamped(s, alba) == [s EXCEPT ![1].alba = alba]
Stamps(fl, be, s, t) ==
    /\ InfosOk(fl, be, t) /\ t # <<>> /\ t[Len(t)].mf = s[Len(s)].mf
    /\ t[1].mf = s[1].mf /\ t[1].alba = be[1]
(* The manifests a call has got are on their way to the cache.              *)
LEMMA StoreStep ==
    Base /\ ReadInv /\ (\E c \in Client : Process(c) \/ First(c) \/ Add(c))
      => ReadInv'
(* A step of a call that has manifests to keep, and goes on keeping them.   *)
<1>StoreMoves.
    ASSUME Base, ReadInv, NEW c \in Client, Phase(th[c]) \in Storing, th[c].pc \notin Resting, Beside,
           NEW s, Goes(c, s), Phase(s) \in Storing, s.pc \in Updating => s.ret = "first",
           Phase(s) \in {"add", "insert"} =>
             \A o \in Object : s.infos[1].mf.name = <<o>> => s.infos[1].alba = backend[1],
           Phase(s) = "insert" => s.mcp = "shared",
           Keeping(floor, last, backend, s), s.mark = th[c].mark
    PROVE  ReadInv'
  <2> USE <1>StoreMoves
  <2>1. ReadOk(s) /\ SeenOk(floor, last, backend, s)
    BY KeepingOk, Zenon
  <2>2. ASSUME c \in quiet PROVE QuietOk(mc, known, epilogues, s)
    <3>1. QuietOk(mc, known, epilogues, th[c])
      BY <2>2, StoreIs, Zenon
    <3>2. Phase(s) \notin {"change", "changed", "invalidate"}
      BY Zenon DEF Storing
    <3> QED
      BY <3>1, <3>2, Zenon DEF QuietOk
  <2> QED
    BY <2>1, <2>2, MoveBeside, Zenon
(* Such a call, elsewhere in storing them.                                  *)
<1>SameKeeping.
    ASSUME NEW fl, NEW la, NEW be, NEW r, Keeping(fl, la, be, r), NEW s, Keeps(r, s), s.got = r.got
    PROVE  Keeping(fl, la, be, s)
  BY <1>SameKeeping, Zenon DEF Keeping, Keeps, Fetched
(* All of storing but the insert changes nothing but the call.              *)
<1>StoreBeside.
    ASSUME ReadInv, NEW c, Process(c) \/ First(c) \/ Add(c) PROVE Beside
  BY <1>StoreBeside, Zenon DEF Process, First, Add, Beside, ReadInv, World, same, nsmVars, accessVars
(* A sequence that is not empty has a first element.                        *)
<1>FirstOfSeq.
    ASSUME NEW S, NEW s \in Seq(S), s # <<>> PROVE 1 \in DOMAIN s
  BY <1>FirstOfSeq
(* process: the alba a manifest is of is known, or the first of the levels, *)
(* which may have to be asked for.                                          *)
<1>ProcessReads.
    ASSUME Base, ReadInv, NEW c \in Client, Process(c) PROVE ReadInv'
  <2> USE <1>ProcessReads
  <2> DEFINE r == th[c]
             add == [r EXCEPT !.pc = "add"]
             first == [r EXCEPT !.pc = "first"]
             update == [r EXCEPT !.pc = "update", !.ret = "first"]
  <2>1. /\ r.pc = "process" /\ Beside
        /\ (r.infos[1].alba # "" /\ Goes(c, add)) \/ Goes(c, first) \/ Goes(c, update)
    <3>1. Beside
      BY <1>StoreBeside, Zenon
    <3> QED
      BY <3>1, Zenon DEF Process
  <2>2. /\ Phase(r) \in Storing /\ r.pc \notin Resting
    BY <2>1, Zenon DEF Phase, Updating, Resting, Storing
  <2>3. IsCall(r) /\ Keeping(floor, last, backend, r)
    BY <2>2, StoreIs, Zenon
  <2>4. /\ Keeps(r, add) /\ add.got = r.got /\ add.pc = "add"
        /\ Keeps(r, first) /\ first.got = r.got /\ first.pc = "first"
        /\ Keeps(r, update) /\ update.got = r.got /\ update.pc = "update" /\ update.ret = "first"
    BY <2>3, SomeFields, Zenon DEF IsCall, Keeps
  <2> HIDE DEF add, first, update
  <2>5. /\ Keeping(floor, last, backend, add) /\ Keeping(floor, last, backend, first)
        /\ Keeping(floor, last, backend, update)
        /\ add.mark = r.mark /\ first.mark = r.mark /\ update.mark = r.mark
    BY <2>3, <2>4, <1>SameKeeping, Zenon DEF Keeps
  <2>6. /\ Phase(add) = "add" /\ Phase(first) = "first" /\ Phase(update) = "first"
        /\ add.pc \notin Updating /\ first.pc \notin Updating
    BY <2>4, Zenon DEF Phase, Updating
  <2>7. "add" \in Storing /\ "first" \in Storing
    BY Zenon DEF Storing
  <2>8. CASE r.infos[1].alba # "" /\ Goes(c, add)
    <3>1. InfoOk(floor, backend, r.infos[1])
      <4>1. InfosOk(floor, backend, r.infos) /\ r.infos # <<>>
        BY <2>3, Zenon DEF Keeping
      <4>2. 1 \in DOMAIN r.infos
        BY <4>1, <1>FirstOfSeq, Zenon DEF InfosOk
      <4> QED
        BY <4>1, <4>2, Zenon DEF InfosOk
    <3>2. \A o \in Object : add.infos[1].mf.name = <<o>> => add.infos[1].alba = backend[1]
      BY <2>4, <2>8, <3>1, Zenon DEF InfoOk, Keeps
    <3> QED
      BY <2>1, <2>2, <2>5, <2>6, <2>7, <2>8, <3>2, <1>StoreMoves, Zenon
  <2>9. CASE Goes(c, first)
    BY <2>1, <2>2, <2>5, <2>6, <2>7, <2>9, <1>StoreMoves, Zenon
  <2>10. CASE Goes(c, update)
    BY <2>1, <2>2, <2>4, <2>5, <2>6, <2>7, <2>10, <1>StoreMoves, Zenon
  <2> QED
    BY <2>1, <2>8, <2>9, <2>10, Zenon
(* It is then as good as it was, and has the backend's alba.                *)
<1>AlbaInfos.
    ASSUME NEW fl, NEW be, NEW s, InfosOk(fl, be, s), s # <<>>, NEW t, t = Stamped(s, be[1])
    PROVE  Stamps(fl, be, s, t)
  <2> USE <1>AlbaInfos
  <2>1. PICK S : s \in Seq(S)
    BY Zenon DEF InfosOk
  <2>2. DOMAIN s = 1..Len(s) /\ Len(s) \in Nat /\ 1 \in DOMAIN s /\ s = [j \in 1..Len(s) |-> s[j]]
    BY <2>1
  <2>3. InfoOk(fl, be, s[1])
    BY <2>2, Zenon DEF InfosOk
  <2> DEFINE x == [s[1] EXCEPT !.alba = be[1]]
  <2>4. x = [alba |-> x.alba, mf |-> x.mf] /\ x.mf = s[1].mf /\ x.alba = be[1]
    <3>1. s[1] = [alba |-> s[1].alba, mf |-> s[1].mf]
      BY <2>3, Zenon DEF InfoOk
    <3>2. PICK a, m : s[1] = [alba |-> a, mf |-> m]
      BY <3>1, Zenon
    <3> QED
      BY <3>2
  <2>5. InfoOk(fl, be, x)
    <3> HIDE DEF x
    <3> QED
      BY <2>3, <2>4, Zenon DEF InfoOk
  <2>6. t = [j \in 1..Len(s) |-> IF j = 1 THEN x ELSE s[j]]
    BY <2>2, Zenon DEF Stamped
  <2> HIDE DEF x
  <2>7. t \in [1..Len(s) -> {t[j] : j \in 1..Len(s)}]
    BY <2>6, Zenon
  <2>8. t \in Seq({t[j] : j \in 1..Len(s)})
    BY <2>2, <2>7, FunctionSeq, Zenon
  <2>9. Len(t) = Len(s) /\ DOMAIN t = 1..Len(s)
    BY <2>2, <2>7
  <2>10. t # <<>>
    BY <2>1, <2>9
  <2>11. ASSUME NEW j \in DOMAIN t PROVE InfoOk(fl, be, t[j])
    BY <2>2, <2>5, <2>6, <2>9, Zenon DEF InfosOk
  <2>12. t[1] = x
    BY <2>2, <2>6, Zenon
  <2>13. t[Len(t)].mf = s[Len(s)].mf
    <3>1. Len(s) \in 1..Len(s)
      BY <2>2
    <3> QED
      BY <2>4, <2>6, <2>9, <3>1, Zenon
  <2> QED
    BY <2>4, <2>8, <2>10, <2>11, <2>12, <2>13, Zenon DEF InfosOk, Stamps
(* The second read of the levels, without a lock.                           *)
<1>FirstReads.
    ASSUME Base, ReadInv, NEW c \in Client, First(c) PROVE ReadInv'
  <2> USE <1>FirstReads
  <2> DEFINE r == th[c]
             s == [r EXCEPT !.pc = "add", !.infos[1].alba = levels[1]]
  <2>1. /\ r.pc = "first" /\ Beside
        /\ Undefined(c, "race") \/ Goes(c, Thrown(r)) \/ (levels # <<>> /\ Goes(c, s))
    <3>1. Beside
      BY <1>StoreBeside, Zenon
    <3> QED
      BY <3>1, Zenon DEF First, Races
  <2>2. /\ Phase(r) \in Storing /\ r.pc \notin Resting
    BY <2>1, Zenon DEF Phase, Updating, Resting, Storing
  <2>3. IsCall(r) /\ Keeping(floor, last, backend, r)
    BY <2>2, StoreIs, Zenon
  <2>4. CASE Undefined(c, "race") \/ Goes(c, Thrown(r))
    BY <2>1, <2>2, <2>4, FreshRests, EndBeside, Zenon DEF Undefined
  <2>5. CASE levels # <<>> /\ Goes(c, s)
    <3>1. levels[1] = backend[1]
      BY <2>5, PushedIs, Zenon DEF Base, RoraInv
    <3> DEFINE infos == [r.infos EXCEPT ![1].alba = backend[1]]
    <3>2. /\ InfosOk(floor, backend, infos) /\ infos # <<>>
          /\ infos[Len(infos)].mf = r.infos[Len(r.infos)].mf
          /\ infos[1].mf = r.infos[1].mf /\ infos[1].alba = backend[1]
      <4>1. InfosOk(floor, backend, r.infos) /\ r.infos # <<>>
        BY <2>3, Zenon DEF Keeping
      <4>2. PICK t : t = infos
        BY Zenon
      <4>3. Stamps(floor, backend, r.infos, t)
        <5>1. t = Stamped(r.infos, backend[1])
          BY <4>2, Zenon DEF Stamped
        <5> HIDE DEF r, infos
        <5> QED
          BY <4>1, <5>1, <1>AlbaInfos, Zenon
      <4> QED
        BY <4>2, <4>3, Zenon DEF Stamps
    <3>3. /\ IsCall(s) /\ s.pc = "add" /\ s.wrong = r.wrong /\ s.req = r.req /\ s.from = r.from
          /\ s.infos = infos /\ s.mark = r.mark /\ s.got = r.got
      BY <2>3, <3>1, SomeFields, Zenon DEF IsCall
    <3> HIDE DEF s, infos
    <3>4. Keeping(floor, last, backend, s)
      BY <2>3, <3>2, <3>3, Zenon DEF Keeping, Fetched
    <3>5. Phase(s) = "add" /\ Phase(s) \in Storing /\ s.pc \notin Updating
      BY <3>3, Zenon DEF Phase, Updating, Storing
    <3> QED
      BY <2>1, <2>2, <2>5, <3>2, <3>3, <3>4, <3>5, <1>StoreMoves, Zenon
  <2> QED
    BY <2>1, <2>4, <2>5, Zenon
(* ManifestCache::add finds or makes the namespace's cache.                 *)
<1>AddReads.
    ASSUME Base, ReadInv, NEW c \in Client, Add(c) PROVE ReadInv'
  <2> USE <1>AddReads
  <2> DEFINE r == th[c]
             s == [r EXCEPT !.pc = "insert", !.mcp = "shared"]
  <2>1. r.pc = "add" /\ Beside /\ Goes(c, s)
    <3>1. Beside
      BY <1>StoreBeside, Zenon
    <3> QED
      BY <3>1, Zenon DEF Add
  <2>2. Phase(r) \in Storing /\ r.pc \notin Resting /\ Phase(r) = "add"
    BY <2>1, Zenon DEF Phase, Updating, Resting, Storing
  <2>3. IsCall(r) /\ Keeping(floor, last, backend, r)
    BY <2>2, StoreIs, Zenon
  <2>4. Keeps(r, s) /\ s.got = r.got /\ s.pc = "insert" /\ s.mcp = "shared"
    BY <2>3, SomeFields, Zenon DEF IsCall, Keeps
  <2> HIDE DEF s
  <2>5. Keeping(floor, last, backend, s) /\ s.mark = r.mark
    BY <2>3, <2>4, <1>SameKeeping, Zenon DEF Keeps
  <2>6. Phase(s) = "insert" /\ Phase(s) \in Storing /\ s.pc \notin Updating
    BY <2>4, Zenon DEF Phase, Updating, Storing
  <2>7. \A o \in Object : s.infos[1].mf.name = <<o>> => s.infos[1].alba = backend[1]
    <3>1. SeenOk(floor, last, backend, r)
      BY CallOk, Zenon
    <3> QED
      BY <2>2, <2>4, <3>1, Zenon DEF SeenOk, Keeps
  <2> QED
    BY <2>1, <2>2, <2>4, <2>5, <2>6, <2>7, <1>StoreMoves, Zenon
<1> QED
  BY <1>ProcessReads, <1>FirstReads, <1>AddReads, Zenon

(* What a call relies on, when more has to be seen: nothing less, or the    *)
(* call has ended.                                                          *)
SameLeast(fl, gl) == \A o : Least(gl, o) = Least(fl, o)
(* A manifest that is new enough stays so when nothing more has to be seen. *)
LEMMA SentSame ==
    ASSUME NEW fl, NEW gl, SameLeast(fl, gl), NEW mf, Sent(fl, mf) PROVE Sent(gl, mf)
BY Zenon DEF SameLeast, Sent

(* The steps with which a call ends that later reads have to see.           *)
LEMMA EndStep ==
    Base /\ ReadInv /\ (\E c \in Client : Insert(c) \/ ProxyInvalidate(c))
      => ReadInv'
(* And so does all that a call relies on.                                   *)
<1>SeenRises.
    ASSUME NEW fl \in [Object -> Nat], NEW gl \in [Object -> Nat], NEW la, NEW be, NEW r,
           \A o \in Object : fl[o] <= gl[o], SeenOk(fl, la, be, r),
           SameLeast(fl, gl) \/ (r.pc \in Resting /\ r.infos = <<>>)
    PROVE  SeenOk(gl, la, be, r)
  <2> USE <1>SeenRises
  <2>1. ASSUME NEW o \in Object PROVE r.from[o] <= gl[o]
    <3>1. r.from[o] \in Nat /\ r.from[o] <= fl[o]
      BY Zenon DEF SeenOk
    <3>2. fl[o] \in Nat /\ gl[o] \in Nat /\ fl[o] <= gl[o]
      BY Zenon
    <3> QED
      BY <3>1, <3>2
  <2>2. CASE SameLeast(fl, gl)
    <3>1. ASSUME NEW j \in DOMAIN r.infos PROVE InfoOk(gl, be, r.infos[j])
      <4>1. InfoOk(fl, be, r.infos[j])
        BY Zenon DEF SeenOk
      <4>2. Sent(fl, r.infos[j].mf)
        BY <4>1, Zenon DEF InfoOk
      <4>3. Sent(gl, r.infos[j].mf)
        BY <2>2, <4>2, SentSame, Zenon
      <4> QED
        BY <4>1, <4>3, Zenon DEF InfoOk
    <3>2. \A o : Least(gl, o) = Least(fl, o)
      BY <2>2, Zenon DEF SameLeast
    <3>3. Phase(r) = "get" => r.mf \in Version1 /\ Least(gl, r.req[first_of(r)].object) <= r.mf
      <4>1. Least(gl, r.req[first_of(r)].object) = Least(fl, r.req[first_of(r)].object)
        BY <3>2, Zenon
      <4> QED
        BY <4>1, Zenon DEF SeenOk
    <3>4. ASSUME Phase(r) = "changed"
          PROVE  \E o \in Object : r.work = <<o>> /\ Marks(r.mark, o) /\ Least(gl, o) <= r.mark[o]
      <4>1. PICK o \in Object : r.work = <<o>> /\ Marks(r.mark, o) /\ Least(fl, o) <= r.mark[o]
        BY <3>4, Zenon DEF SeenOk
      <4>2. Least(gl, o) = Least(fl, o)
        BY <3>2, Zenon
      <4> QED
        BY <4>1, <4>2, Zenon
    <3> QED
      BY <2>1, <3>1, <3>3, <3>4, Zenon DEF SeenOk
  <2>3. CASE r.pc \in Resting /\ r.infos = <<>>
    <3>1. DOMAIN r.infos = {}
      BY <2>3
    <3>2. /\ Phase(r) \notin {"add", "insert"} /\ Phase(r) # "get" /\ Phase(r) \notin Reading
          /\ Phase(r) # "change" /\ Phase(r) # "changed" /\ Phase(r) \notin Storing
      BY <2>3, Zenon DEF Phase, Resting, Updating, Reading, Storing
    <3> QED
      BY <2>1, <3>1, <3>2, Zenon DEF SeenOk
  <2> QED
    BY <2>2, <2>3, Zenon
(* A call ends, and later reads may have to see more.                       *)
<1>FloorRises.
    ASSUME Base, ReadInv, NEW c \in Client, NEW r, Goes(c, r), th[c].pc \notin Resting, Rests(r),
           World', UNCHANGED last, UNCHANGED backend, UNCHANGED quiet,
           \A o \in Object : floor[o] <= floor'[o],
           SameLeast(floor, floor') \/ c \in quiet
    PROVE  ReadInv'
  <2> USE <1>FloorRises
  <2>1. \A d \in Client : th'[d] = IF d = c THEN r ELSE th[d]
    BY GoesIs, Zenon DEF Base
  <2>2. quiet' \subseteq {c}
    BY OnlyItself, Zenon
  <2>3. floor \in [Object -> Nat] /\ floor' \in [Object -> Nat] /\ last' \in [Object -> Version1]
    BY Zenon DEF World, ReadInv
  <2>4. ReadOk(r) /\ SeenOk(floor', last', backend, r) /\ \A ca, kn, ep : QuietOk(ca, kn, ep, r)
    BY <2>3, RestsOk, Zenon
  <2>5. ASSUME NEW d \in Client
        PROVE  ReadOk(th'[d]) /\ SeenOk(floor', last', backend', th'[d])
    <3>1. CASE d = c
      BY <2>1, <2>4, <3>1, Zenon
    <3>2. CASE d # c
      <4>1. ReadOk(th[d]) /\ SeenOk(floor, last, backend, th[d])
        BY Zenon DEF ReadInv
      <4>2. SameLeast(floor, floor') \/ (th[d].pc \in Resting /\ th[d].infos = <<>>)
        <5>1. ASSUME c \in quiet PROVE th[d].pc \in Resting /\ th[d].infos = <<>>
          <6>1. th[d].pc \in Resting
            BY <3>2, <5>1, Zenon DEF ReadInv, QuietInv
          <6>2. Phase(th[d]) \in Resting
            BY <6>1, Zenon DEF Phase, Resting, Updating
          <6> QED
            BY <4>1, <6>1, <6>2, Zenon DEF ReadOk
        <5> QED
          BY <5>1, Zenon
      <4>3. SeenOk(floor', last, backend, th[d])
        BY <2>3, <4>1, <4>2, <1>SeenRises, Zenon
      <4> QED
        BY <2>1, <3>2, <4>1, <4>3, Zenon
    <3> QED
      BY <3>1, <3>2, Zenon
  <2>6. QuietInv'
    <3>1. ASSUME NEW e \in quiet'
          PROVE  /\ e \in Client /\ QuietOk(mc', known', epilogues', th'[e])
                 /\ \A d \in Client : d # e => th'[d].pc \in Resting
      <4>1. e = c /\ c \in quiet
        BY <2>2, <3>1, Zenon
      <4>2. \A d \in Client : d # c => th[d].pc \in Resting
        BY <4>1, Zenon DEF ReadInv, QuietInv
      <4> QED
        BY <2>1, <2>4, <4>1, <4>2, Zenon
    <3> QED
      BY <3>1, Zenon DEF QuietInv
  <2> QED
    BY <2>5, <2>6, Zenon DEF ReadInv
(* What later reads have to see, when call c ends having changed mark.      *)
<1>RaiseIs.
    ASSUME ReadInv, NEW c, NEW mark \in [Object -> Nat], Raise(c, mark),
           \A o \in Object : mark[o] <= last[o]
    PROVE  /\ floor' \in [Object -> Nat]
           /\ \A o \in Object : floor[o] <= floor'[o] /\ floor'[o] <= last[o]
           /\ SameLeast(floor, floor') \/ c \in quiet
           /\ \A o \in Object : mark[o] = 0 \/ mark[o] <= floor[o] => floor'[o] = floor[o]
           /\ \A o \in Object : floor'[o] \in {floor[o], mark[o]}
  <2> USE <1>RaiseIs
  <2>1. floor \in [Object -> Nat] /\ last \in [Object -> Version1] /\ \A o \in Object : floor[o] <= last[o]
    BY Zenon DEF ReadInv, World
  <2>2. CASE floor' = floor
    <3>1. SameLeast(floor, floor')
      BY <2>2, Zenon DEF SameLeast, Least
    <3>2. \A o \in Object : floor[o] <= floor[o]
      BY <2>1
    <3> QED
      BY <2>1, <2>2, <3>1, <3>2, Zenon
  <2>3. CASE /\ c \in quiet \/ (~OnlyQuiet /\ th[c].kind = "invalidate")
             /\ floor' = [o \in Object |-> Max(floor[o], mark[o])]
    <3>1. ASSUME NEW o \in Object
          PROVE  /\ floor'[o] \in Nat /\ floor[o] <= floor'[o] /\ floor'[o] <= last[o]
                 /\ mark[o] = 0 \/ mark[o] <= floor[o] => floor'[o] = floor[o]
                 /\ floor'[o] \in {floor[o], mark[o]}
      <4>1. floor[o] \in Nat /\ last[o] \in Version1 /\ floor[o] <= last[o] /\ mark[o] \in Nat /\ mark[o] <= last[o]
        BY <2>1, Zenon
      <4>2. floor'[o] = Max(floor[o], mark[o])
        BY <2>3, Zenon
      <4> QED
        BY <4>1, <4>2 DEF Max, Version1
    <3>2. floor' \in [Object -> Nat]
      BY <2>3, <3>1, Zenon
    <3>3. SameLeast(floor, floor') \/ c \in quiet
      BY <2>3, Zenon DEF SameLeast, Least
    <3> QED
      BY <3>1, <3>2, <3>3, Zenon
  <2> QED
    BY <2>2, <2>3, Zenon DEF Raise
(* What the manifest cache holds of other names is as good, when only what  *)
(* is to be seen of object o is more.                                       *)
<1>SentElse.
    ASSUME NEW fl, NEW gl, NEW o, \A p \in Object : p # o => gl[p] = fl[p],
           NEW mf, Sent(fl, mf), mf.name # <<o>>
    PROVE  Sent(gl, mf)
  <2> USE <1>SentElse
  <2>1. ASSUME NEW p \in Object, NEW v \in Version1, mf = ObjectManifest(p, v), Least(fl, p) <= v
        PROVE  Sent(gl, mf)
    <3>1. mf.name = <<p>>
      BY <2>1, ManifestNames, Zenon
    <3>2. Least(gl, p) = Least(fl, p)
      BY <3>1, Zenon DEF Least
    <3> QED
      BY <2>1, <3>2, Zenon DEF Sent
  <2> QED
    BY <2>1, Zenon DEF Sent
(* UnsafeLRUCache::insert leaves no other entry with the new one's key.     *)
<1>InsertFrom.
    ASSUME CacheInv, NEW e, NEW j \in DOMAIN lru_insert(mc, e)
    PROVE  \/ lru_insert(mc, e)[j] = e
           \/ \E i \in DOMAIN mc : lru_insert(mc, e)[j] = mc[i] /\ mc[i].key # e.key
  <2> USE <1>InsertFrom
  <2>1. mc \in Seq(Elements(mc)) /\ Keyed(mc) /\ Named(mc) /\ Capacity \in Nat \ {0}
    BY ElementsSeq, RoraAssumption, Zenon DEF CacheInv
  <2> DEFINE old == IF Len(mc) >= Capacity THEN Tail(mc) ELSE mc
             t == without(old, e.key)
  <2>2. lru_insert(mc, e) = Append(t, e)
    BY Zenon DEF lru_insert
  <2>3. old \in Seq(Elements(mc)) /\ Keyed(old) /\ Named(old)
    <3>1. CASE Len(mc) >= Capacity
      <4>1. mc # <<>>
        BY <2>1, <3>1
      <4> QED
        BY <2>1, <3>1, <4>1, TailIs, Zenon
    <3> QED
      BY <2>1, <3>1, Zenon
  <2> HIDE DEF old
  <2>4. t \in Seq(Elements(mc)) /\ \A i \in DOMAIN t : t[i].key # e.key
    BY <2>3, WithoutIs, Zenon
  <2> HIDE DEF t
  <2>5. Append(t, e)[j] = e \/ (j \in DOMAIN t /\ Append(t, e)[j] = t[j] /\ t[j] \in Elements(mc))
    <3>1. j \in DOMAIN Append(t, e)
      BY <2>2, Zenon
    <3>2. Append(t, e)[j] = e \/ (j \in DOMAIN t /\ Append(t, e)[j] = t[j])
      BY <2>4, <3>1, AppendElements
    <3>3. ASSUME j \in DOMAIN t PROVE t[j] \in Elements(mc)
      BY <2>4, <3>3, OfElements, Zenon
    <3> QED
      BY <3>2, <3>3, Zenon
  <2>6. CASE Append(t, e)[j] = e
    BY <2>2, <2>6, Zenon
  <2>7. CASE Append(t, e)[j] # e
    <3>1. PICK i \in DOMAIN mc : t[j] = mc[i]
      BY <2>5, <2>7, Zenon DEF Elements
    <3> QED
      BY <2>2, <2>4, <2>5, <2>7, <3>1, Zenon
  <2> QED
    BY <2>6, <2>7, Zenon
(* An insert: the new entry and what has another key.                       *)
<1>InsertWorld.
    ASSUME CacheInv, World, NEW e,
           UNCHANGED last, UNCHANGED known, UNCHANGED backend, UNCHANGED epilogues,
           floor' \in [Object -> Nat], \A o \in Object : floor'[o] <= last[o],
           \A o \in Object : known[o] # 0 => Least(floor', o) <= known[o],
           \A f \in epilogues : Least(floor', f.object) <= f.version,
           EntryOk(floor', backend, e),
           \/ mc' = mc /\ \A i \in DOMAIN mc : EntryOk(floor', backend, mc[i])
           \/ /\ mc' = lru_insert(mc, e)
              /\ \A i \in DOMAIN mc : mc[i].key # e.key => EntryOk(floor', backend, mc[i])
    PROVE  World'
  <2> USE <1>InsertWorld
  <2>1. ASSUME NEW j \in DOMAIN mc' PROVE EntryOk(floor', backend, mc'[j])
    <3>1. CASE mc' = mc /\ \A i \in DOMAIN mc : EntryOk(floor', backend, mc[i])
      BY <2>1, <3>1, Zenon
    <3>2. CASE /\ mc' = lru_insert(mc, e)
               /\ \A i \in DOMAIN mc : mc[i].key # e.key => EntryOk(floor', backend, mc[i])
      <4>1. mc'[j] = e \/ \E i \in DOMAIN mc : mc'[j] = mc[i] /\ mc[i].key # e.key
        BY <2>1, <3>2, <1>InsertFrom, Zenon
      <4> QED
        BY <3>2, <4>1, Zenon
    <3> QED
      BY <3>1, <3>2, Zenon
  <2>2. \A f \in epilogues : EpilogueOk(floor', f)
    BY Zenon DEF World, EpilogueOk
  <2> QED
    BY <2>1, <2>2, Zenon DEF World
(* What later reads have to see of it is what they find.                    *)
<1>MarkedOnly.
    ASSUME NEW fl \in [Object -> Nat], NEW o \in Object, NEW v \in Version1,
           Sent(fl, ObjectManifest(o, v)), OnlyQuiet
    PROVE  fl[o] <= v
  <2> USE <1>MarkedOnly
  <2>1. ObjectManifest(o, v).name = <<o>>
    BY ManifestNames, Zenon
  <2>2. PICK w \in Version1 : ObjectManifest(o, v) = ObjectManifest(o, w) /\ Least(fl, o) <= w
    BY <2>1, NamedObject, Zenon
  <2>3. <<o, v>> = <<o, w>>
    <3>1. \A x : ObjectManifest(o, x).id = <<o, x>>
      BY Zenon DEF ObjectManifest, Manifest
    <3> QED
      BY <2>2, <3>1, Zenon
  <2>4. v = w
    BY <2>3
  <2> QED
    BY <2>2, <2>4, Zenon DEF Least
(* An insert into the manifest cache, in its two cases: nothing more has to *)
(* be seen after it, ...                                                    *)
<1>InsertSame.
    ASSUME CacheInv, World, NEW e, mc' = lru_insert(mc, e) \/ mc' = mc,
           UNCHANGED last, UNCHANGED known, UNCHANGED backend, UNCHANGED epilogues,
           floor' \in [Object -> Nat], \A o \in Object : floor'[o] <= last[o],
           SameLeast(floor, floor'), EntryOk(floor, backend, e)
    PROVE  World'
  <2> USE <1>InsertSame
  <2>1. ASSUME NEW f, EntryOk(floor, backend, f) PROVE EntryOk(floor', backend, f)
    <3>1. Sent(floor, f.mf)
      BY <2>1, Zenon DEF EntryOk
    <3>2. Sent(floor', f.mf)
      BY <3>1, SentSame, Zenon
    <3> QED
      BY <2>1, <3>2, Zenon DEF EntryOk
  <2>2. ASSUME NEW o \in Object, known[o] # 0 PROVE Least(floor', o) <= known[o]
    <3>1. Least(floor', o) = Least(floor, o)
      BY Zenon DEF SameLeast
    <3> QED
      BY <2>2, <3>1, Zenon DEF World
  <2>3. \A i \in DOMAIN mc : EntryOk(floor', backend, mc[i])
    BY <2>1, Zenon DEF World
  <2>4. EntryOk(floor', backend, e)
    BY <2>1, Zenon
  <2>5. ASSUME NEW f \in epilogues PROVE Least(floor', f.object) <= f.version
    <3>1. Least(floor', f.object) = Least(floor, f.object)
      BY Zenon DEF SameLeast
    <3> QED
      BY <3>1, Zenon DEF World, EpilogueOk
  <2> QED
    BY <2>2, <2>3, <2>4, <2>5, <1>InsertWorld, Zenon
(* ... or version v of object o, which is what is inserted.                 *)
<1>InsertMore.
    ASSUME CacheInv, World, OnlyQuiet, NEW e, mc' = lru_insert(mc, e),
           UNCHANGED last, UNCHANGED known, UNCHANGED backend, UNCHANGED epilogues,
           floor' \in [Object -> Nat], \A o \in Object : floor'[o] <= last[o],
           NEW o \in Object, NEW v \in Version1, e.mf = ObjectManifest(o, v),
           e.key = <<backend[1], <<o>>>>,
           floor'[o] <= v, known[o] = 0 \/ v <= known[o], known[o] \in Nat,
           \A f \in epilogues : f.object = o => v <= f.version,
           \A p \in Object : p # o => floor'[p] = floor[p]
    PROVE  World'
  <2> USE <1>InsertMore
  <2>1. e.mf.name = <<o>> /\ floor'[o] \in Nat
    BY ManifestNames, Zenon
  <2>2. EntryOk(floor', backend, e)
    <3>1. Sent(floor', e.mf)
      <4>1. Least(floor', o) <= v
        BY Zenon DEF Least
      <4> QED
        BY <4>1, Zenon DEF Sent
    <3>2. e.key = <<e.key[1], e.key[2]>> /\ e.key[1] = backend[1]
      <4>1. PICK k : k = e.key
        BY Zenon
      <4>2. k = <<backend[1], <<o>>>>
        BY <4>1, Zenon
      <4>3. k = <<k[1], k[2]>> /\ k[1] = backend[1]
        BY <4>2
      <4> QED
        BY <4>1, <4>3, Zenon
    <3> QED
      BY <3>1, <3>2, Zenon DEF EntryOk
  <2>3. ASSUME NEW i \in DOMAIN mc, mc[i].key # e.key PROVE EntryOk(floor', backend, mc[i])
    <3>1. EntryOk(floor, backend, mc[i]) /\ mc[i].key[2] = mc[i].mf.name
      BY Zenon DEF World, CacheInv, Named
    <3>2. mc[i].mf.name # <<o>>
      <4>1. SUFFICES ASSUME mc[i].mf.name = <<o>> PROVE FALSE
        BY Zenon
      <4>2. mc[i].key[1] = backend[1] /\ mc[i].key[2] = <<o>>
        BY <3>1, <4>1, Zenon DEF EntryOk
      <4>3. mc[i].key = <<mc[i].key[1], mc[i].key[2]>>
        BY <3>1, Zenon DEF EntryOk
      <4>4. mc[i].key = <<backend[1], <<o>>>>
        BY <4>2, <4>3, Zenon
      <4> QED
        BY <2>3, <4>4, Zenon
    <3>3. Sent(floor, mc[i].mf)
      BY <3>1, Zenon DEF EntryOk
    <3>4. Sent(floor', mc[i].mf)
      BY <3>2, <3>3, <1>SentElse, Zenon
    <3> QED
      BY <3>1, <3>4, Zenon DEF EntryOk
  <2>4. ASSUME NEW p \in Object, known[p] # 0 PROVE Least(floor', p) <= known[p]
    <3>1. CASE p = o
      <4>1. v <= known[o] /\ v \in Nat
        BY <2>4, <3>1 DEF Version1
      <4>2. floor'[o] <= known[o]
        BY <2>1, <4>1
      <4> QED
        BY <3>1, <4>2, Zenon DEF Least
    <3>2. CASE p # o
      <4>1. Least(floor', p) = Least(floor, p)
        BY <3>2, Zenon DEF Least
      <4> QED
        BY <2>4, <4>1, Zenon DEF World
    <3> QED
      BY <3>1, <3>2, Zenon
  <2>5. ASSUME NEW f \in epilogues PROVE Least(floor', f.object) <= f.version
    <3>0. EpilogueOk(floor, f)
      BY Zenon DEF World
    <3>1. CASE f.object = o
      <4>1. v <= f.version /\ v \in Nat /\ f.version \in Nat
        BY <3>0, <3>1 DEF Version1, EpilogueOk
      <4>2. floor'[o] <= f.version
        BY <2>1, <4>1
      <4> QED
        BY <3>1, <4>2, Zenon DEF Least
    <3>2. CASE f.object # o
      <4>1. Least(floor', f.object) = Least(floor, f.object)
        BY <3>0, <3>2, Zenon DEF Least, EpilogueOk
      <4> QED
        BY <3>0, <4>1, Zenon DEF EpilogueOk
    <3> QED
      BY <3>1, <3>2, Zenon
  <2> QED
    BY <2>2, <2>3, <2>4, <2>5, <1>InsertWorld, Zenon
(* The manifests that are left to store.                                    *)
<1>TailInfos.
    ASSUME NEW fl, NEW be, NEW s, InfosOk(fl, be, s), s # <<>>
    PROVE  /\ InfosOk(fl, be, Tail(s)) /\ (Tail(s) = <<>> => Len(s) = 1)
           /\ Tail(s) # <<>> => Tail(s)[Len(Tail(s))] = s[Len(s)]
  <2> USE <1>TailInfos
  <2>1. PICK S : s \in Seq(S)
    BY Zenon DEF InfosOk
  <2>2. /\ Tail(s) \in Seq(S) /\ (Tail(s) = <<>> => Len(s) = 1)
        /\ Tail(s) # <<>> => Tail(s)[Len(Tail(s))] = s[Len(s)]
        /\ \A j \in DOMAIN Tail(s) : j + 1 \in DOMAIN s /\ Tail(s)[j] = s[j + 1]
    <3>1. Len(s) \in Nat \ {0} /\ DOMAIN s = 1..Len(s)
      BY <2>1
    <3>2. Tail(s) \in Seq(S) /\ Len(Tail(s)) = Len(s) - 1
      BY <2>1
    <3>3. DOMAIN Tail(s) = 1..Len(s) - 1
      BY <3>2
    <3>4. Tail(s) = <<>> => Len(s) = 1
      BY <3>1, <3>2
    <3>5. ASSUME NEW j \in 1..Len(s) - 1 PROVE j + 1 \in DOMAIN s /\ Tail(s)[j] = s[j + 1]
      BY <2>1, <3>1
    <3>6. Tail(s) # <<>> => Tail(s)[Len(Tail(s))] = s[Len(s)]
      <4>1. Tail(s) # <<>> => Len(s) # 1
        BY <3>2
      <4>2. Len(s) # 1 => Len(s) - 1 \in 1..Len(s) - 1 /\ (Len(s) - 1) + 1 = Len(s)
        BY <3>1
      <4> QED
        BY <3>2, <3>5, <4>1, <4>2, Zenon
    <3> QED
      BY <3>2, <3>3, <3>4, <3>5, <3>6, Zenon
  <2>3. ASSUME NEW j \in DOMAIN Tail(s) PROVE InfoOk(fl, be, Tail(s)[j])
    BY <2>2, Zenon DEF InfosOk
  <2> QED
    BY <2>2, <2>3, Zenon DEF InfosOk
(* The insert, and the end of the call with the last one.                   *)
<1>InsertReads.
    ASSUME Base, ReadInv, NEW c \in Client, Insert(c) PROVE ReadInv'
  <2> USE <1>InsertReads
  <2> DEFINE r == th[c]
             info == r.infos[1]
             e == [key |-> <<info.alba, info.mf.name>>, mf |-> info.mf]
             rest == Tail(r.infos)
             s == [r EXCEPT !.pc = "process", !.mcp = "none", !.infos = rest]
  <2>1. /\ r.pc = "insert" /\ mc' = (IF r.mcp = "shared" THEN lru_insert(mc, e) ELSE mc)
        /\ \/ rest = <<>> /\ Goes(c, Returned(r)) /\ Raise(c, r.mark)
           \/ rest # <<>> /\ Goes(c, s) /\ UNCHANGED floor
        /\ UNCHANGED last /\ UNCHANGED known /\ UNCHANGED backend /\ UNCHANGED epilogues /\ UNCHANGED quiet
    BY Zenon DEF Insert, nsmVars, accessVars
  <2>2. Phase(r) = "insert" /\ Phase(r) \in Storing /\ r.pc \notin Resting
    BY <2>1, Zenon DEF Phase, Updating, Resting, Storing
  <2>3. /\ IsCall(r) /\ Keeping(floor, last, backend, r) /\ SeenOk(floor, last, backend, r)
        /\ c \in quiet => QuietOk(mc, known, epilogues, r)
    BY <2>2, StoreIs, CallOk, Zenon
  <2>4. InfosOk(floor, backend, r.infos) /\ r.infos # <<>>
    BY <2>3, Zenon DEF Keeping
  <2>5. InfoOk(floor, backend, info)
    <3>1. PICK S : r.infos \in Seq(S)
      BY <2>4, Zenon DEF InfosOk
    <3>2. 1 \in DOMAIN r.infos
      BY <2>4, <3>1
    <3> QED
      BY <2>4, <3>2, Zenon DEF InfosOk
  <2>6. /\ e.key = <<info.alba, info.mf.name>> /\ e.mf = info.mf
        /\ e.key = <<e.key[1], e.key[2]>> /\ e.key[1] = info.alba
    <3>1. \A a, b : <<a, b>>[1] = a /\ <<a, b>>[2] = b
      OBVIOUS
    <3>2. e.key = <<info.alba, info.mf.name>> /\ e.mf = info.mf
      BY Zenon
    <3> QED
      BY <3>1, <3>2, Zenon
  <2>7. \A o \in Object : info.mf.name = <<o>> => info.alba = backend[1]
    BY <2>2, <2>3, Zenon DEF SeenOk
  <2> HIDE DEF e, info
  <2>8. EntryOk(floor, backend, e)
    BY <2>5, <2>6, <2>7, Zenon DEF InfoOk, EntryOk
  <2>9. CacheInv /\ World
    BY Zenon DEF Base, ReadInv
  <2>10. mc' = lru_insert(mc, e) \/ mc' = mc
    BY <2>1, Zenon
  <2>11. CASE rest # <<>> /\ Goes(c, s) /\ UNCHANGED floor
    <3>1. floor' \in [Object -> Nat] /\ (\A o \in Object : floor'[o] <= last[o]) /\ SameLeast(floor, floor')
      BY <2>9, <2>11, Zenon DEF World, SameLeast
    <3>2. World'
      BY <2>1, <2>8, <2>9, <2>10, <3>1, <1>InsertSame, Zenon
    <3>3. /\ IsCall(s) /\ s.pc = "process" /\ s.wrong = r.wrong /\ s.req = r.req /\ s.from = r.from
          /\ s.infos = rest /\ s.mark = r.mark /\ s.got = r.got
      BY <2>3, SomeFields, Zenon DEF IsCall
    <3> HIDE DEF s
    <3>4. InfosOk(floor, backend, rest) /\ rest[Len(rest)] = r.infos[Len(r.infos)]
      BY <2>4, <2>11, <1>TailInfos, Zenon
    <3>5. Keeping(floor, last, backend, s)
      <4>1. s.infos[Len(s.infos)] = r.infos[Len(r.infos)]
        BY <3>3, <3>4, Zenon
      <4> QED
        BY <2>3, <2>11, <3>3, <3>4, <4>1, Zenon DEF Keeping, Fetched
    <3>6. /\ Phase(s) = "process" /\ Phase(s) \in Storing /\ s.pc \notin Updating
          /\ Phase(s) \notin {"add", "insert", "change", "changed", "invalidate"}
      BY <3>3, Zenon DEF Phase, Updating, Storing
    <3>7. ReadOk(s) /\ SeenOk(floor, last, backend, s)
      BY <3>5, <3>6, KeepingOk, Zenon
    <3>8. ASSUME c \in quiet PROVE QuietOk(mc', known', epilogues', s)
      <4>1. /\ \A o \in Object : known[o] = 0 \/ r.mark[o] <= known[o]
            /\ \A f \in epilogues : r.mark[f.object] <= f.version
        BY <2>2, <2>3, <3>8, Zenon DEF QuietOk
      <4> QED
        BY <2>1, <3>3, <3>6, <4>1, Zenon DEF QuietOk
    <3>9. \A o \in Object : last[o] <= last'[o]
      <4>1. ASSUME NEW o \in Object PROVE last[o] <= last[o]
        <5>1. last[o] \in Version1
          BY <2>9, Zenon DEF World
        <5> QED
          BY <5>1 DEF Version1
      <4> QED
        BY <2>1, <4>1, Zenon
    <3> QED
      BY <2>1, <2>2, <2>11, <3>2, <3>7, <3>8, <3>9, CallMoves, Zenon
  <2>12. CASE rest = <<>> /\ Goes(c, Returned(r)) /\ Raise(c, r.mark)
    <3>1. r.mark \in [Object -> Nat] /\ \A o \in Object : r.mark[o] <= last[o]
      BY <2>3, Zenon DEF SeenOk
    <3>2. /\ floor' \in [Object -> Nat]
          /\ \A o \in Object : floor[o] <= floor'[o] /\ floor'[o] <= last[o]
          /\ SameLeast(floor, floor') \/ c \in quiet
          /\ \A o \in Object : r.mark[o] = 0 \/ r.mark[o] <= floor[o] => floor'[o] = floor[o]
          /\ \A o \in Object : floor'[o] \in {floor[o], r.mark[o]}
      <4> HIDE DEF r
      <4> QED
        BY <2>12, <3>1, <1>RaiseIs, Zenon
    <3>3. World'
      <4>1. CASE SameLeast(floor, floor')
        BY <2>1, <2>8, <2>9, <2>10, <3>2, <4>1, <1>InsertSame, Zenon
      <4>2. CASE ~SameLeast(floor, floor')
        <5>1. c \in quiet /\ OnlyQuiet
          BY <3>2, <4>2, Zenon DEF SameLeast, Least
        <5>2. /\ \A o \in Object : known[o] = 0 \/ r.mark[o] <= known[o]
              /\ \A f \in epilogues : r.mark[f.object] <= f.version
              /\ mc' = lru_insert(mc, e)
          BY <2>1, <2>2, <2>3, <5>1, Zenon DEF QuietOk
        <5>3. floor \in [Object -> Nat] /\ known \in [Object -> Nat]
          BY <2>9, Zenon DEF World
        <5>4. ~Zero(r.mark)
          <6>1. SUFFICES ASSUME Zero(r.mark) PROVE FALSE
            BY Zenon
          <6>2. \A o \in Object : floor'[o] = floor[o]
            BY <3>2, <6>1, Zenon DEF Zero
          <6>3. floor' = floor
            <7>1. floor' \in [Object -> Nat] /\ floor \in [Object -> Nat]
              BY <3>2, <5>3, Zenon
            <7> QED
              BY <6>2, <7>1
          <6>4. SameLeast(floor, floor')
            BY <6>3, Zenon DEF SameLeast, Least
          <6> QED
            BY <4>2, <6>4, Zenon
        <5>5. PICK o \in Object : Marks(r.mark, o) /\ info.mf = ObjectManifest(o, r.mark[o])
          <6>1. Len(r.infos) = 1
            BY <2>4, <2>12, <1>TailInfos, Zenon
          <6> QED
            BY <2>3, <5>4, <6>1, Zenon DEF Keeping, info
        <5>6. /\ r.mark[o] \in Version1 /\ \A p \in Object : p # o => floor'[p] = floor[p]
          BY <3>2, <5>5, Zenon DEF Marks
        <5>7. e.mf = ObjectManifest(o, r.mark[o]) /\ info.mf.name = <<o>>
          BY <2>6, <5>5, ManifestNames, Zenon
        <5>8. e.key = <<backend[1], <<o>>>>
          BY <2>6, <2>7, <5>7, Zenon
        <5>9. floor[o] <= r.mark[o]
          <6>1. Sent(floor, ObjectManifest(o, r.mark[o]))
            BY <2>5, <5>5, Zenon DEF InfoOk
          <6> QED
            BY <5>1, <5>3, <5>6, <6>1, <1>MarkedOnly, Zenon
        <5>10. floor'[o] <= r.mark[o]
          <6>1. floor'[o] \in {floor[o], r.mark[o]}
            BY <3>2, Zenon
          <6>2. r.mark[o] <= r.mark[o]
            BY <5>6 DEF Version1
          <6> QED
            BY <5>9, <6>1, <6>2, Zenon
        <5>11. known[o] \in Nat /\ (known[o] = 0 \/ r.mark[o] <= known[o])
          BY <5>2, <5>3, Zenon
        <5>12. \A p \in Object : floor'[p] <= last[p]
          BY <3>2, Zenon
        <5>13. \A f \in epilogues : f.object = o => r.mark[o] <= f.version
          BY <5>2, Zenon
        <5>14. PICK v : v = r.mark[o]
          BY Zenon
        <5>15. /\ v \in Version1 /\ e.mf = ObjectManifest(o, v) /\ floor'[o] <= v
               /\ known[o] = 0 \/ v <= known[o]
               /\ \A f \in epilogues : f.object = o => v <= f.version
          BY <5>6, <5>7, <5>10, <5>11, <5>13, <5>14, Zenon
        <5>16. /\ UNCHANGED last /\ UNCHANGED known /\ UNCHANGED backend /\ UNCHANGED epilogues
               /\ mc' = lru_insert(mc, e) /\ floor' \in [Object -> Nat] /\ known[o] \in Nat
          BY <2>1, <3>2, <5>2, <5>11, Zenon
        <5> HIDE DEF r
        <5> QED
          BY <2>9, <5>1, <5>6, <5>8, <5>12, <5>15, <5>16, <1>InsertMore, Zenon
      <4> QED
        BY <4>1, <4>2, Zenon
    <3>4. Rests(Returned(r))
      <4>1. r.req \in Seq(ObjectSlices) /\ Fetched(r, DOMAIN r.req)
        BY <2>3, Zenon DEF Keeping
      <4> HIDE DEF r
      <4> QED
        BY <4>1, ReturnedRests, Zenon
    <3>5. \A o \in Object : floor[o] <= floor'[o]
      BY <3>2, Zenon
    <3> QED
      BY <2>1, <2>2, <2>12, <3>2, <3>3, <3>4, <3>5, <1>FloorRises, Zenon
  <2> QED
    BY <2>1, <2>11, <2>12, Zenon
(* The proxy starts a new epoch: it knows of no manifest, and after an      *)
(* invalidate_cache there is none here either.                              *)
<1>ProxyInvalidateReads.
    ASSUME Base, ReadInv, NEW c \in Client, ProxyInvalidate(c) PROVE ReadInv'
  <2> USE <1>ProxyInvalidateReads
  <2> DEFINE r == th[c]
  <2>1. /\ r.pc = "invalidate" /\ known' = [o \in Object |-> 0] /\ Goes(c, Returned(r))
        /\ \/ r.kind = "invalidate" /\ Raise(c, last)
           \/ UNCHANGED floor
        /\ UNCHANGED last /\ UNCHANGED mc /\ UNCHANGED backend /\ UNCHANGED epilogues /\ UNCHANGED quiet
    BY Zenon DEF ProxyInvalidate, nsmVars, accessVars
  <2>2. Phase(r) = "invalidate" /\ r.pc \notin Resting
    BY <2>1, Zenon DEF Phase, Updating, Resting
  <2>3. r.req = <<>> /\ (c \in quiet => QuietOk(mc, known, epilogues, r))
    <3>1. ReadOk(r)
      BY CallOk, Zenon
    <3>2. c \in quiet => QuietOk(mc, known, epilogues, r)
      BY CallOk, Zenon
    <3> QED
      BY <2>2, <3>1, <3>2, Zenon DEF ReadOk
  <2>4. Rests(Returned(r))
    <3>1. r.req \in Seq(ObjectSlices) /\ Fetched(r, DOMAIN r.req)
      BY <2>3, ReadEmpty, Zenon
    <3> HIDE DEF r
    <3> QED
      BY <3>1, ReturnedRests, Zenon
  <2>5. /\ last \in [Object -> Version1] /\ floor \in [Object -> Nat] /\ World
        /\ \A o \in Object : floor[o] <= last[o]
    BY Zenon DEF ReadInv, World
  <2>6. /\ floor' \in [Object -> Nat]
        /\ \A o \in Object : floor[o] <= floor'[o] /\ floor'[o] <= last[o]
        /\ SameLeast(floor, floor') \/ (c \in quiet /\ r.kind = "invalidate")
    <3>1. CASE UNCHANGED floor
      <4>1. SameLeast(floor, floor')
        BY <3>1, Zenon DEF SameLeast, Least
      <4>2. \A o \in Object : floor[o] <= floor[o]
        BY <2>5
      <4> QED
        BY <2>5, <3>1, <4>1, <4>2, Zenon
    <3>2. CASE r.kind = "invalidate" /\ Raise(c, last)
      <4>1. last \in [Object -> Nat]
        BY <2>5 DEF Version1
      <4>2. \A o \in Object : last[o] <= last[o]
        BY <4>1
      <4> QED
        BY <3>2, <4>1, <4>2, <1>RaiseIs, Zenon
    <3> QED
      BY <2>1, <3>1, <3>2, Zenon
  <2>7. ASSUME NEW j \in DOMAIN mc PROVE EntryOk(floor', backend, mc[j])
    <3>1. CASE SameLeast(floor, floor')
      <4>1. EntryOk(floor, backend, mc[j])
        BY <2>5, Zenon DEF World
      <4>2. Sent(floor, mc[j].mf)
        BY <4>1, Zenon DEF EntryOk
      <4>3. Sent(floor', mc[j].mf)
        BY <3>1, <4>2, SentSame, Zenon
      <4> QED
        BY <4>1, <4>3, Zenon DEF EntryOk
    <3>2. CASE c \in quiet /\ r.kind = "invalidate"
      <4>1. mc = <<>>
        BY <2>2, <2>3, <3>2, Zenon DEF QuietOk
      <4>2. DOMAIN mc = {}
        BY <4>1
      <4> QED
        BY <4>2, Zenon
    <3> QED
      BY <2>6, <3>1, <3>2, Zenon
  <2>8. known' \in [Object -> Nat] /\ \A o \in Object : known'[o] = 0
    BY <2>1
  <2>12. ASSUME NEW e \in epilogues PROVE EpilogueOk(floor', e)
    <3>1. CASE SameLeast(floor, floor')
      <4>1. EpilogueOk(floor, e) /\ Least(floor', e.object) = Least(floor, e.object)
        BY <2>5, <3>1, Zenon DEF World, SameLeast
      <4> QED
        BY <4>1, Zenon DEF EpilogueOk
    <3>2. CASE c \in quiet /\ r.kind = "invalidate"
      BY <2>2, <2>3, <2>12, <3>2, Zenon DEF QuietOk
    <3> QED
      BY <2>6, <3>1, <3>2, Zenon
  <2>9. World'
    BY <2>1, <2>5, <2>6, <2>7, <2>8, <2>12, Zenon DEF World
  <2>10. \A o \in Object : floor[o] <= floor'[o]
    BY <2>6, Zenon
  <2>11. SameLeast(floor, floor') \/ c \in quiet
    BY <2>6, Zenon
  <2> QED
    BY <2>1, <2>2, <2>4, <2>9, <2>10, <2>11, <1>FloorRises, Zenon
<1> QED
  BY <1>InsertReads, <1>ProxyInvalidateReads, Zenon

(* A call starts.                                                           *)
LEMMA StartStep ==
    /\ Base /\ ReadInv
    /\ \E c \in Client :
         \/ \E req \in Requests[Len(backend)], cons \in BOOLEAN : StartRead(c, req, cons)
         \/ \E o \in Object, kind \in {"write", "delete"} : StartChange(c, o, kind)
         \/ StartInvalidate(c) \/ StartDrop(c)
    => ReadInv'
(* A call starts; it has the process for itself if no other is under way.   *)
<1>DroppedOk.
    ASSUME NEW r, IsCall(r), NEW s, s = r \/ s = [r EXCEPT !.mcp = "dropped"], NEW fl, NEW la, NEW be,
           ReadOk(r), SeenOk(fl, la, be, r)
    PROVE  ReadOk(s) /\ SeenOk(fl, la, be, s) /\ s.pc = r.pc
  <2> USE <1>DroppedOk
  <2>1. CASE s = r
    BY <2>1, Zenon
  <2>2. CASE s = [r EXCEPT !.mcp = "dropped"]
    <3>1. /\ s.pc = r.pc /\ s.ret = r.ret /\ s.wrong = r.wrong /\ s.req = r.req /\ s.via = r.via
          /\ s.locs = r.locs /\ s.got = r.got /\ s.lv = r.lv /\ s.work = r.work /\ s.from = r.from
          /\ s.mark = r.mark /\ s.infos = r.infos /\ s.mf = r.mf
      BY <2>2, SomeFields, Zenon DEF IsCall
    <3>2. Phase(s) = Phase(r) /\ first_of(s) = first_of(r)
      BY <3>1, Zenon DEF Phase, first_of
    <3>3. ReadOk(s)
      BY <3>1, <3>2, Zenon DEF ReadOk, Resolving, Located, Fetched
    <3>4. SeenOk(fl, la, be, s)
      BY <3>1, <3>2, Zenon DEF SeenOk
    <3> QED
      BY <3>1, <3>3, <3>4, Zenon
  <2> QED
    BY <2>1, <2>2, Zenon
(* A call starts with what it needs, and the others lose no more than the   *)
(* cache that was dropped.                                                  *)
<1>StartsOk.
    ASSUME Base, ReadInv, NEW c \in Client, Starts(c), World',
           UNCHANGED last, UNCHANGED floor, UNCHANGED backend,
           \A d \in Client : d # c => th'[d] = th[d] \/ th'[d] = [th[d] EXCEPT !.mcp = "dropped"],
           ReadOk(th'[c]), SeenOk(floor, last, backend, th'[c]),
           epilogues = {} => QuietOk(mc', known', epilogues', th'[c])
    PROVE  ReadInv'
  <2> USE <1>StartsOk
  <2>1. ASSUME NEW d \in Client, d # c
        PROVE  ReadOk(th'[d]) /\ SeenOk(floor, last, backend, th'[d]) /\ th'[d].pc = th[d].pc
    <3>1. IsCall(th[d]) /\ ReadOk(th[d]) /\ SeenOk(floor, last, backend, th[d])
      BY CallOk, Zenon
    <3>2. th'[d] = th[d] \/ th'[d] = [th[d] EXCEPT !.mcp = "dropped"]
      BY <2>1, Zenon
    <3> QED
      BY <3>1, <3>2, <1>DroppedOk, Zenon
  <2>2. \A d \in Client : ReadOk(th'[d]) /\ SeenOk(floor', last', backend', th'[d])
    BY <2>1, Zenon
  <2>3. ASSUME NEW e \in quiet'
        PROVE  /\ e \in Client /\ QuietOk(mc', known', epilogues', th'[e])
               /\ \A d \in Client : d # e => th'[d].pc \in Resting
    <3>1. e = c /\ inFlight \subseteq {c} /\ epilogues = {}
      BY <2>3, Zenon DEF Starts
    <3>2. \A d \in Client : d # c => th[d].pc \in Resting
      BY <3>1, Zenon DEF inFlight, Resting
    <3> QED
      BY <2>1, <3>1, <3>2, Zenon
  <2>4. QuietInv'
    BY <2>3, Zenon DEF QuietInv
  <2> QED
    BY <2>2, <2>4, Zenon DEF ReadInv
(* What a call has when it starts.                                          *)
<1>NothingRead.
    ASSUME NEW r, r.mark = [o \in Object |-> 0], r.infos = <<>>,
           NEW fl \in [Object -> Nat], NEW la \in [Object -> Version1],
           r.from = fl \/ r.from = [o \in Object |-> 0]
    PROVE  /\ r.from \in [Object -> Nat] /\ r.mark \in [Object -> Nat] /\ Zero(r.mark)
           /\ \A o \in Object : r.from[o] <= fl[o] /\ r.mark[o] <= la[o]
           /\ (\E S : r.infos \in Seq(S)) /\ DOMAIN r.infos = {}
  <2> USE <1>NothingRead
  <2>1. ASSUME NEW o \in Object
        PROVE  r.from[o] <= fl[o] /\ r.mark[o] <= la[o] /\ r.mark[o] = 0
    <3>1. r.mark[o] = 0 /\ (r.from[o] = fl[o] \/ r.from[o] = 0)
      BY Zenon
    <3>2. fl[o] \in Nat /\ la[o] \in Version1
      BY Zenon
    <3> QED
      BY <3>1, <3>2 DEF Version1
  <2>2. r.from \in [Object -> Nat] /\ r.mark \in [Object -> Nat]
    OBVIOUS
  <2>3. <<>> \in Seq({}) /\ DOMAIN <<>> = {}
    OBVIOUS
  <2> QED
    BY <2>1, <2>2, <2>3, Zenon DEF Zero
(* read_objects_slices begins, on the fast path or not.                     *)
<1>StartReadReads.
    ASSUME Base, ReadInv, NEW c \in Client, NEW req \in Requests[Len(backend)], NEW cons,
           StartRead(c, req, cons)
    PROVE  ReadInv'
  <2> USE <1>StartReadReads
  <2> DEFINE many == th[c].failures > MaxFailures
             slow == (cons /\ th[c].fc) \/ (many /\ th[c].recent)
             r == [Fresh(th[c]) EXCEPT
                     !.kind = "read", !.req = req, !.cons = cons, !.from = floor,
                     !.failures = IF many /\ ~th[c].recent THEN 0 ELSE @,
                     !.got = [i \in DOMAIN req |-> <<>>],
                     !.locs = [i \in DOMAIN req |-> <<>>],
                     !.via = IF slow THEN DOMAIN req ELSE {},
                     !.pc = IF slow THEN "lookup" ELSE "levels"]
  <2>1. /\ Goes(c, r) /\ Starts(c) /\ UNCHANGED last /\ UNCHANGED floor /\ UNCHANGED backend
        /\ UNCHANGED known /\ UNCHANGED mc /\ UNCHANGED epilogues
    BY Zenon DEF StartRead, nsmVars, accessVars
  <2>2. Rests(Fresh(th[c])) /\ IsCall(Fresh(th[c])) /\ Fresh(th[c]).wrong = "nothing"
    BY FreshRests, FreshIs, Zenon
  <2>3. /\ r.req = req /\ r.from = floor /\ r.got = [i \in DOMAIN req |-> <<>>]
        /\ r.locs = [i \in DOMAIN req |-> <<>>] /\ r.wrong = "nothing" /\ r.infos = <<>>
        /\ r.mark = [o \in Object |-> 0]
        /\ (r.via = DOMAIN req /\ r.pc = "lookup") \/ (r.via = {} /\ r.pc = "levels")
    <3> DEFINE f == Fresh(th[c])
    <3>1. IsCall(f) /\ f.wrong = "nothing" /\ f.infos = <<>> /\ f.mark = [o \in Object |-> 0]
      BY <2>2, Zenon DEF Rests
    <3> HIDE DEF f, slow, many
    <3>2. r = [f EXCEPT
                     !.kind = "read", !.req = req, !.cons = cons, !.from = floor,
                     !.failures = IF many /\ ~th[c].recent THEN 0 ELSE @,
                     !.got = [i \in DOMAIN req |-> <<>>],
                     !.locs = [i \in DOMAIN req |-> <<>>],
                     !.via = IF slow THEN DOMAIN req ELSE {},
                     !.pc = IF slow THEN "lookup" ELSE "levels"]
      BY Zenon DEF f
    <3> HIDE DEF r
    <3> QED
      BY <3>1, <3>2, SomeFields, Zenon DEF IsCall
  <2> HIDE DEF r
  <2>4. req \in Seq(ObjectSlices) /\ req # <<>> /\ DOMAIN req # {}
    <3>1. backend \in AlbaLevels
      BY Zenon DEF Base, RoraInv
    <3>2. Requests[Len(backend)] \subseteq Seq(ObjectSlices) \ {<<>>}
      BY <3>1, LevelsAssumption, Zenon
    <3>3. req \in Seq(ObjectSlices) /\ req # <<>>
      BY <3>2, Zenon
    <3>4. 1 \in DOMAIN req
      BY <3>3
    <3> QED
      BY <3>3, <3>4, Zenon
  <2>5. /\ Phase(r) \in {"lookup", "levels"} /\ Phase(r) = r.pc /\ Phase(r) \in Reading /\ r.pc \notin Updating
        /\ Phase(r) \notin Storing /\ Phase(r) \notin Resting
        /\ Phase(r) \notin {"resolve", "read", "decrypt", "get", "change", "changed", "invalidate", "add", "insert"}
    BY <2>3, Zenon DEF Phase, Updating, Reading, Storing, Resting
  <2>6. floor \in [Object -> Nat] /\ last \in [Object -> Version1] /\ World
    BY Zenon DEF ReadInv, World
  <2>7. ReadOk(r)
    <3>1. Fetched(r, {}) /\ DOMAIN r.req \ DOMAIN r.req = {} /\ DOMAIN r.req \subseteq DOMAIN r.req
      BY Zenon DEF Fetched
    <3>2. r.got = [i \in DOMAIN r.req |-> r.got[i]]
      BY <2>3, Zenon
    <3>3. r.via \subseteq DOMAIN r.req
      BY <2>3, Zenon
    <3>4. r.pc = "lookup" => r.via # {} /\ Fetched(r, DOMAIN r.req \ r.via)
      BY <2>3, <2>4, <3>1, Zenon
    <3> QED
      BY <2>3, <2>4, <2>5, <3>2, <3>3, <3>4, Zenon DEF ReadOk
  <2>8. SeenOk(floor, last, backend, r)
    <3>1. /\ r.from \in [Object -> Nat] /\ r.mark \in [Object -> Nat] /\ Zero(r.mark)
          /\ \A o \in Object : r.from[o] <= floor[o] /\ r.mark[o] <= last[o]
          /\ (\E S : r.infos \in Seq(S)) /\ DOMAIN r.infos = {}
      BY <2>3, <2>6, <1>NothingRead, Zenon
    <3> QED
      BY <2>5, <3>1, Zenon DEF SeenOk
  <2>9. QuietOk(mc', known', epilogues', r)
    BY <2>5, Zenon DEF QuietOk
  <2>10. World'
    BY <2>1, <2>6, WorldSame, Zenon
  <2>11. \A d \in Client : th'[d] = IF d = c THEN r ELSE th[d]
    BY <2>1, GoesIs, Zenon DEF Base
  <2>12. th'[c] = r /\ \A d \in Client : d # c => th'[d] = th[d]
    BY <2>11, Zenon
  <2> QED
    BY <2>1, <2>7, <2>8, <2>9, <2>10, <2>12, <1>StartsOk, Zenon
(* A write or a delete begins.                                              *)
<1>StartChangeReads.
    ASSUME Base, ReadInv, NEW c \in Client, NEW o \in Object, NEW kind, StartChange(c, o, kind)
    PROVE  ReadInv'
  <2> USE <1>StartChangeReads
  <2> DEFINE f == Fresh(th[c])
             r == [f EXCEPT !.kind = kind, !.pc = "change", !.work = <<o>>]
  <2>1. /\ Goes(c, r) /\ Starts(c) /\ UNCHANGED last /\ UNCHANGED floor /\ UNCHANGED backend
        /\ UNCHANGED known /\ UNCHANGED mc /\ UNCHANGED epilogues
    BY Zenon DEF StartChange, nsmVars, accessVars
  <2>2. /\ IsCall(f) /\ f.wrong = "nothing" /\ f.infos = <<>> /\ f.mark = [x \in Object |-> 0]
        /\ f.from = [x \in Object |-> 0] /\ f.req = <<>>
    BY FreshRests, FreshIs, Zenon DEF Rests
  <2> HIDE DEF f
  <2>3. /\ r.pc = "change" /\ r.work = <<o>> /\ r.wrong = "nothing" /\ r.infos = <<>>
        /\ r.mark = [x \in Object |-> 0] /\ r.from = [x \in Object |-> 0] /\ r.req = <<>>
    BY <2>2, SomeFields, Zenon DEF IsCall
  <2> HIDE DEF r
  <2>4. /\ Phase(r) = "change" /\ Phase(r) \notin Reading /\ r.pc \notin Updating
        /\ Phase(r) \notin Storing /\ Phase(r) \notin Resting
        /\ Phase(r) \notin {"levels", "copy", "resolve", "read", "decrypt", "lookup", "get", "changed",
                            "add", "insert"}
    BY <2>3, Zenon DEF Phase, Updating, Reading, Storing, Resting
  <2>5. floor \in [Object -> Nat] /\ last \in [Object -> Version1] /\ World
    BY Zenon DEF ReadInv, World
  <2>6. ReadOk(r)
    BY <2>3, <2>4, ReadEmpty, Zenon DEF ReadOk
  <2>7. SeenOk(floor, last, backend, r)
    <3>1. /\ r.from \in [Object -> Nat] /\ r.mark \in [Object -> Nat] /\ Zero(r.mark)
          /\ \A x \in Object : r.from[x] <= floor[x] /\ r.mark[x] <= last[x]
          /\ (\E S : r.infos \in Seq(S)) /\ DOMAIN r.infos = {}
      BY <2>3, <2>5, <1>NothingRead, Zenon
    <3>2. \E x \in Object : r.work = <<x>>
      BY <2>3, Zenon
    <3> QED
      BY <2>4, <3>1, <3>2, Zenon DEF SeenOk
  <2>8. epilogues = {} => QuietOk(mc', known', epilogues', r)
    BY <2>1, <2>4, Zenon DEF QuietOk
  <2>9. World'
    BY <2>1, <2>5, WorldSame, Zenon
  <2>10. \A d \in Client : th'[d] = IF d = c THEN r ELSE th[d]
    BY <2>1, GoesIs, Zenon DEF Base
  <2>11. th'[c] = r /\ \A d \in Client : d # c => th'[d] = th[d]
    BY <2>10, Zenon
  <2> QED
    BY <2>1, <2>6, <2>7, <2>8, <2>9, <2>11, <1>StartsOk, Zenon
(* invalidate_cache and drop_cache: for the proxy, and the first has erased *)
(* what is here.                                                            *)
<1>InvalidatingOk.
    ASSUME NEW f, Rests(f), f.wrong = "nothing", NEW kind, NEW r,
           r = [f EXCEPT !.kind = kind, !.pc = "invalidate"],
           NEW fl \in [Object -> Nat], NEW la \in [Object -> Version1], NEW be, NEW ca, NEW kn,
           kind = "invalidate" => ca = <<>>, NEW ep
    PROVE  ReadOk(r) /\ SeenOk(fl, la, be, r) /\ (ep = {} => QuietOk(ca, kn, ep, r))
  <2> USE <1>InvalidatingOk
  <2>1. /\ r.pc = "invalidate" /\ r.kind = kind /\ r.wrong = "nothing" /\ r.infos = <<>>
        /\ r.mark = [x \in Object |-> 0] /\ r.from = [x \in Object |-> 0] /\ r.req = <<>>
    BY SomeFields, Zenon DEF Rests, IsCall
  <2>2. /\ Phase(r) = "invalidate" /\ Phase(r) \notin Reading /\ r.pc \notin Updating
        /\ Phase(r) \notin Storing /\ Phase(r) \notin Resting
        /\ Phase(r) \notin {"levels", "copy", "resolve", "read", "decrypt", "lookup", "get", "change",
                            "changed", "add", "insert"}
    BY <2>1, Zenon DEF Phase, Updating, Reading, Storing, Resting
  <2>3. ReadOk(r)
    BY <2>1, <2>2, ReadEmpty, Zenon DEF ReadOk
  <2>4. SeenOk(fl, la, be, r)
    <3>1. /\ r.from \in [Object -> Nat] /\ r.mark \in [Object -> Nat] /\ Zero(r.mark)
          /\ \A x \in Object : r.from[x] <= fl[x] /\ r.mark[x] <= la[x]
          /\ (\E S : r.infos \in Seq(S)) /\ DOMAIN r.infos = {}
      BY <2>1, <1>NothingRead, Zenon
    <3> QED
      BY <2>2, <3>1, Zenon DEF SeenOk
  <2>5. ep = {} => QuietOk(ca, kn, ep, r)
    BY <2>1, <2>2, Zenon DEF QuietOk
  <2> QED
    BY <2>3, <2>4, <2>5, Zenon
(* drop_cache is for the proxy only.                                        *)
<1>StartDropReads.
    ASSUME Base, ReadInv, NEW c \in Client, StartDrop(c) PROVE ReadInv'
  <2> USE <1>StartDropReads
  <2> DEFINE f == Fresh(th[c])
             r == [f EXCEPT !.kind = "drop", !.pc = "invalidate"]
  <2>1. /\ Goes(c, r) /\ Starts(c) /\ UNCHANGED last /\ UNCHANGED floor /\ UNCHANGED backend
        /\ UNCHANGED known /\ UNCHANGED mc /\ UNCHANGED epilogues
    BY Zenon DEF StartDrop, nsmVars, accessVars
  <2>2. Rests(f) /\ f.wrong = "nothing"
    BY FreshRests, FreshIs, Zenon
  <2>3. floor \in [Object -> Nat] /\ last \in [Object -> Version1] /\ World
    BY Zenon DEF ReadInv, World
  <2> HIDE DEF f
  <2>4. PICK s : s = r
    BY Zenon
  <2>5. /\ ReadOk(s) /\ SeenOk(floor, last, backend, s)
        /\ epilogues = {} => QuietOk(mc', known', epilogues', s)
    <3>1. "drop" = "invalidate" => mc' = <<>>
      BY Zenon
    <3> QED
      BY <2>1, <2>2, <2>3, <2>4, <3>1, <1>InvalidatingOk, Zenon
  <2> HIDE DEF r
  <2>6. World'
    BY <2>1, <2>3, WorldSame, Zenon
  <2>7. \A d \in Client : th'[d] = IF d = c THEN r ELSE th[d]
    BY <2>1, GoesIs, Zenon DEF Base
  <2>8. th'[c] = s /\ \A d \in Client : d # c => th'[d] = th[d]
    BY <2>4, <2>7, Zenon
  <2> QED
    BY <2>1, <2>5, <2>6, <2>8, <1>StartsOk, Zenon
(* invalidate_cache erases what is here, under the feet of who was about to *)
(* insert.                                                                  *)
<1>StartInvalidateReads.
    ASSUME Base, ReadInv, NEW c \in Client, StartInvalidate(c) PROVE ReadInv'
  <2> USE <1>StartInvalidateReads
  <2> DEFINE f == Fresh(th[c])
             r == [f EXCEPT !.kind = "invalidate", !.pc = "invalidate"]
  <2>1. /\ th' = [d \in Client |-> IF d = c THEN r
                                   ELSE IF th[d].mcp = "shared" THEN [th[d] EXCEPT !.mcp = "dropped"]
                                   ELSE th[d]]
        /\ Starts(c) /\ UNCHANGED last /\ UNCHANGED floor /\ UNCHANGED backend
        /\ UNCHANGED known /\ mc' = <<>> /\ UNCHANGED epilogues
    BY Zenon DEF StartInvalidate, nsmVars, accessVars
  <2>2. Rests(f) /\ f.wrong = "nothing"
    BY FreshRests, FreshIs, Zenon
  <2>3. floor \in [Object -> Nat] /\ last \in [Object -> Version1] /\ World
    BY Zenon DEF ReadInv, World
  <2> HIDE DEF f
  <2>4. PICK s : s = r
    BY Zenon
  <2>5. /\ ReadOk(s) /\ SeenOk(floor, last, backend, s)
        /\ epilogues = {} => QuietOk(mc', known', epilogues', s)
    BY <2>1, <2>2, <2>3, <2>4, <1>InvalidatingOk, Zenon
  <2> HIDE DEF r
  <2>6. World'
    <3>1. DOMAIN mc' = {}
      BY <2>1
    <3> QED
      BY <2>1, <2>3, <3>1, Zenon DEF World
  <2>7. /\ th'[c] = s
        /\ \A d \in Client : d # c => th'[d] = th[d] \/ th'[d] = [th[d] EXCEPT !.mcp = "dropped"]
    BY <2>1, <2>4, Zenon
  <2> QED
    BY <2>1, <2>5, <2>6, <2>7, <1>StartsOk, Zenon
<1> QED
  BY <1>StartReadReads, <1>StartChangeReads, <1>StartDropReads, <1>StartInvalidateReads, Zenon

(* What is no step of a call.                                               *)
LEMMA WorldStep ==
    /\ Base /\ ReadInv
    /\ \/ UNCHANGED vars
       \/ \E c \in Client : TimePasses(c)
       \/ \E o \in Object, alive \in BOOLEAN : OtherChanges(o, alive)
       \/ \E o, v : Collect(o, v)
       \/ \E o \in Object : Evict(o)
       \/ \E e \in epilogues : EpilogueUpdate(e) \/ EpilogueAdd(e)
    => ReadInv'
(* A step that is not one of a call.                                        *)
<1>Elsewhere.
    ASSUME Base, ReadInv, World', UNCHANGED floor, UNCHANGED backend, UNCHANGED quiet,
           \A o \in Object : last[o] <= last'[o],
           \A d \in Client : Alike(th[d], th'[d]) /\ th'[d].pc = th[d].pc /\ th'[d].ret = th[d].ret,
           UNCHANGED mc,
           \A o \in Object : \/ known'[o] \in {0, known[o]}
                             \/ \E f \in epilogues : f.object = o /\ known'[o] = f.version,
           \A g \in epilogues' :
             \E f \in epilogues : g.object = f.object /\ g.version = f.version
    PROVE  ReadInv'
  <2> USE <1>Elsewhere
  <2>1. last \in [Object -> Version1] /\ last' \in [Object -> Version1]
    BY Zenon DEF World, ReadInv
  <2>2. ASSUME NEW d \in Client
        PROVE  ReadOk(th'[d]) /\ SeenOk(floor', last', backend', th'[d])
    <3>1. ReadOk(th[d]) /\ SeenOk(floor, last, backend, th[d])
      BY Zenon DEF ReadInv
    <3>2. th'[d].pc \in Updating => th'[d].ret \in {"copy", "read", "first"}
      BY <3>1, Zenon DEF ReadOk
    <3>3. SeenOk(floor, last', backend, th[d])
      BY <2>1, <3>1, SeenMore, Zenon
    <3>4. Alike(th[d], th'[d])
      BY Zenon
    <3> QED
      BY <3>1, <3>2, <3>3, <3>4, AlikeOk, Zenon
  <2>3. ASSUME NEW e \in quiet'
        PROVE  /\ e \in Client /\ QuietOk(mc', known', epilogues', th'[e])
               /\ \A d \in Client : d # e => th'[d].pc \in Resting
    <3>1. /\ e \in Client /\ QuietOk(mc, known, epilogues, th[e])
          /\ \A d \in Client : d # e => th[d].pc \in Resting
      BY <2>3, Zenon DEF ReadInv, QuietInv
    <3>2. Alike(th[e], th'[e])
      BY <3>1, Zenon
    <3>3. QuietOk(mc, known', epilogues', th[e])
      <4>1. ASSUME Phase(th[e]) \in Storing
            PROVE  /\ \A o \in Object : known'[o] = 0 \/ th[e].mark[o] <= known'[o]
                   /\ \A g \in epilogues' : th[e].mark[g.object] <= g.version
        <5>1. /\ \A o \in Object : known[o] = 0 \/ th[e].mark[o] <= known[o]
              /\ \A f \in epilogues : th[e].mark[f.object] <= f.version
          BY <3>1, <4>1, Zenon DEF QuietOk
        <5>2. ASSUME NEW o \in Object PROVE known'[o] = 0 \/ th[e].mark[o] <= known'[o]
          <6>1. CASE known'[o] \in {0, known[o]}
            BY <5>1, <6>1, Zenon
          <6>2. CASE \E f \in epilogues : f.object = o /\ known'[o] = f.version
            BY <5>1, <6>2, Zenon
          <6> QED
            BY <6>1, <6>2, Zenon
        <5>3. ASSUME NEW g \in epilogues' PROVE th[e].mark[g.object] <= g.version
          <6>1. PICK f \in epilogues : g.object = f.object /\ g.version = f.version
            BY Zenon
          <6> QED
            BY <5>1, <6>1, Zenon
        <5> QED
          BY <5>2, <5>3, Zenon
      <4>2. epilogues = {} => epilogues' = {}
        BY Zenon
      <4> QED
        BY <3>1, <4>1, <4>2, Zenon DEF QuietOk
    <3>4. QuietOk(mc, known', epilogues', th'[e])
      BY <3>2, <3>3, Zenon DEF Alike, QuietOk
    <3> QED
      BY <3>1, <3>4, Zenon
  <2>4. QuietInv'
    BY <2>3, Zenon DEF QuietInv
  <2> QED
    BY <2>2, <2>4, Zenon DEF ReadInv
(* Calls that do not move are alike.                                        *)
<1>SameAlike.
    ASSUME UNCHANGED th
    PROVE  \A d \in Client : Alike(th[d], th'[d]) /\ th'[d].pc = th[d].pc /\ th'[d].ret = th[d].ret
  BY <1>SameAlike, Zenon DEF Alike
(* 120 seconds pass, and no step at all.                                    *)
<1>TimePassesReads.
    ASSUME Base, ReadInv, \/ UNCHANGED vars
                          \/ \E c \in Client : TimePasses(c)
    PROVE  ReadInv'
  <2> USE <1>TimePassesReads
  <2>1. /\ UNCHANGED last /\ UNCHANGED floor /\ UNCHANGED backend /\ UNCHANGED known /\ UNCHANGED mc
        /\ UNCHANGED epilogues /\ UNCHANGED quiet
    BY Zenon DEF TimePasses, vars, nsmVars, accessVars, sameButEvents
  <2>2. \A d \in Client : Alike(th[d], th'[d]) /\ th'[d].pc = th[d].pc /\ th'[d].ret = th[d].ret
    <3>1. CASE UNCHANGED vars
      <4>1. UNCHANGED th
        BY <3>1, Zenon DEF vars
      <4> QED
        BY <4>1, <1>SameAlike, Zenon
    <3>2. CASE \E c \in Client : TimePasses(c)
      <4>1. PICK c \in Client : TimePasses(c)
        BY <3>2, Zenon
      <4> DEFINE r == [th[c] EXCEPT !.recent = FALSE]
      <4>2. Goes(c, r)
        BY <4>1, Zenon DEF TimePasses
      <4>3. IsCall(th[c])
        BY CallOk, Zenon
      <4>4. Alike(th[c], r) /\ r.pc = th[c].pc /\ r.ret = th[c].ret
        BY <4>3, SomeFields, Zenon DEF IsCall, Alike, Phase
      <4> HIDE DEF r
      <4>5. \A d \in Client : th'[d] = IF d = c THEN r ELSE th[d]
        BY <4>2, GoesIs, Zenon DEF Base
      <4>6. \A d \in Client : Alike(th[d], th[d])
        BY Zenon DEF Alike
      <4> QED
        BY <4>4, <4>5, <4>6, Zenon
    <3> QED
      BY <3>1, <3>2, Zenon
  <2>3. World'
    BY <2>1, WorldSame, Zenon DEF ReadInv
  <2>4. \A o \in Object : known'[o] \in {0, known[o]}
    BY <2>1, Zenon
  <2>5. \A o \in Object : last[o] <= last'[o]
    BY <2>1, NoLater, Zenon
  <2> QED
    BY <2>1, <2>2, <2>3, <2>4, <2>5, <1>Elsewhere, Zenon
(* What happens on other hosts and in the proxy.                            *)
<1>WorldReads.
    ASSUME Base, ReadInv,
           \/ \E o \in Object, alive \in BOOLEAN : OtherChanges(o, alive)
           \/ \E o, v : Collect(o, v)
           \/ \E o \in Object : Evict(o)
    PROVE  ReadInv'
  <2> USE <1>WorldReads
  <2>1. /\ UNCHANGED floor /\ UNCHANGED backend /\ UNCHANGED mc /\ UNCHANGED epilogues
        /\ UNCHANGED quiet /\ UNCHANGED th
    BY Zenon DEF OtherChanges, Collect, Evict, world, accessVars, sameButEvents
  <2>2. \A d \in Client : Alike(th[d], th'[d]) /\ th'[d].pc = th[d].pc /\ th'[d].ret = th[d].ret
    BY <2>1, <1>SameAlike, Zenon
  <2>3. World
    BY Zenon DEF ReadInv
  <2>4. CASE \E o \in Object, alive \in BOOLEAN : OtherChanges(o, alive)
    <3>1. PICK o \in Object, alive \in BOOLEAN : OtherChanges(o, alive)
      BY <2>4, Zenon
    <3>2. last' = [last EXCEPT ![o] = @ + 1] /\ UNCHANGED known
      BY <3>1, Zenon DEF OtherChanges, changes
    <3>3. World' /\ \A p \in Object : last[p] <= last'[p]
      BY <2>1, <2>3, <3>2, LaterWorld, Zenon
    <3>4. \A p \in Object : known'[p] \in {0, known[p]}
      BY <3>2, Zenon
    <3> QED
      BY <2>1, <2>2, <3>3, <3>4, <1>Elsewhere, Zenon
  <2>5. CASE \E o, v : Collect(o, v)
    <3>1. UNCHANGED last /\ UNCHANGED known
      BY <2>5, Zenon DEF Collect
    <3>2. World'
      BY <2>1, <2>3, <3>1, WorldSame, Zenon
    <3>3. \A p \in Object : known'[p] \in {0, known[p]}
      BY <3>1, Zenon
    <3>4. \A p \in Object : last[p] <= last'[p]
      BY <3>1, NoLater, Zenon
    <3> QED
      BY <2>1, <2>2, <3>2, <3>3, <3>4, <1>Elsewhere, Zenon
  <2>6. CASE \E o \in Object : Evict(o)
    <3>1. PICK o \in Object : Evict(o)
      BY <2>6, Zenon
    <3>2. known' = [known EXCEPT ![o] = 0] /\ UNCHANGED last
      BY <3>1, Zenon DEF Evict, nsmVars
    <3>3. World'
      <4>1. 0 \in Nat /\ (0 # 0 => Least(floor, o) <= 0)
        BY SMT
      <4> QED
        BY <2>1, <2>3, <3>2, <4>1, KnownWorld, Zenon
    <3>4. \A p \in Object : known'[p] \in {0, known[p]}
      <4>1. known \in [Object -> Nat]
        BY <2>3, Zenon DEF World
      <4> QED
        BY <3>2, <4>1, Zenon
    <3>5. \A p \in Object : last[p] <= last'[p]
      BY <3>2, NoLater, Zenon
    <3> QED
      BY <2>1, <2>2, <3>3, <3>4, <3>5, <1>Elsewhere, Zenon
  <2> QED
    BY <2>4, <2>5, <2>6, Zenon
(* The epilogue of an upload, which caches a manifest after the answer.     *)
<1>EpilogueReads.
    ASSUME Base, ReadInv, NEW e \in epilogues, EpilogueUpdate(e) \/ EpilogueAdd(e) PROVE ReadInv'
  <2> USE <1>EpilogueReads
  <2>1. /\ UNCHANGED last /\ UNCHANGED floor /\ UNCHANGED backend /\ UNCHANGED mc
        /\ UNCHANGED quiet /\ UNCHANGED th
        /\ UNCHANGED known \/ known' = [known EXCEPT ![e.object] = e.version]
        /\ epilogues' \subseteq epilogues \union {[e EXCEPT !.updated = TRUE]}
    BY Zenon DEF EpilogueUpdate, EpilogueAdd, nsmVars
  <2>2. World /\ EpilogueOk(floor, e) /\ known \in [Object -> Nat]
    BY Zenon DEF ReadInv, World
  <2> DEFINE f == [e EXCEPT !.updated = TRUE]
  <2>3. f.object = e.object /\ f.version = e.version /\ EpilogueOk(floor, f)
    <3>1. e = [x \in {"object", "version", "updated"} |-> e[x]]
      BY <2>2, Zenon DEF EpilogueOk
    <3>2. f = [x \in {"object", "version", "updated"} |-> f[x]]
          /\ f.object = e.object /\ f.version = e.version
      BY <3>1, Zenon
    <3> HIDE DEF f
    <3> QED
      BY <2>2, <3>2, Zenon DEF EpilogueOk
  <2> HIDE DEF f
  <2>4. \A g \in epilogues' : g \in epilogues \/ g = f
    BY <2>1, Zenon DEF f
  <2>5. World'
    <3>1. e.version \in Nat /\ Least(floor, e.object) <= e.version
      BY <2>2, Zenon DEF EpilogueOk, Version1
    <3>2. \A g \in epilogues' : g \in epilogues \/ EpilogueOk(floor, g)
      BY <2>3, <2>4, Zenon
    <3> QED
      BY <2>1, <2>2, <3>1, <3>2, KnownWorld, Zenon
  <2>6. \A o \in Object : \/ known'[o] \in {0, known[o]}
                          \/ \E g \in epilogues : g.object = o /\ known'[o] = g.version
    BY <2>1, <2>2, Zenon
  <2>7. \A g \in epilogues' : \E h \in epilogues : g.object = h.object /\ g.version = h.version
    BY <2>3, <2>4, Zenon
  <2>8. \A d \in Client : Alike(th[d], th'[d]) /\ th'[d].pc = th[d].pc /\ th'[d].ret = th[d].ret
    BY <2>1, <1>SameAlike, Zenon
  <2>9. \A o \in Object : last[o] <= last'[o]
    BY <2>1, NoLater, Zenon
  <2> QED
    BY <2>1, <2>5, <2>6, <2>7, <2>8, <2>9, <1>Elsewhere, Zenon
<1> QED
  BY <1>TimePassesReads, <1>WorldReads, <1>EpilogueReads, Zenon

(* Every step keeps the invariant, ...                                      *)
LEMMA StepReads ==
    ASSUME Base, ReadInv, [Next]_vars PROVE ReadInv'
<1>1. ASSUME NEW c \in Client, Runs(c) PROVE ReadInv'
  <2>1. CASE Update(c) \/ Wait(c) \/ Fill(c) \/ Answer(c) \/ Push(c)
    BY <2>1, UpdateStep, Zenon
  <2>2. CASE Levels(c) \/ Copy(c)
    BY <2>2, LevelsStep, Zenon
  <2>3. CASE Resolve(c)
    BY <2>3, ResolveStep, Zenon
  <2>4. CASE ShortPath(c) \/ ReadDirect(c) \/ Decrypt(c)
    BY <2>4, DirectStep, Zenon
  <2>5. CASE Lookup(c) \/ Get(c)
    BY <2>5, ProxyStep, Zenon
  <2>6. CASE Change(c) \/ Changed(c)
    BY <2>6, ChangeStep, Zenon
  <2>7. CASE Process(c) \/ First(c) \/ Add(c)
    BY <2>7, StoreStep, Zenon
  <2>8. CASE Insert(c) \/ ProxyInvalidate(c)
    BY <2>8, EndStep, Zenon
  <2> QED
    BY <1>1, <2>1, <2>2, <2>3, <2>4, <2>5, <2>6, <2>7, <2>8, Zenon DEF Runs
<1>2. ASSUME NEW c \in Client,
             \/ \E req \in Requests[Len(backend)], cons \in BOOLEAN : StartRead(c, req, cons)
             \/ \E o \in Object, kind \in {"write", "delete"} : StartChange(c, o, kind)
             \/ StartInvalidate(c) \/ StartDrop(c)
      PROVE  ReadInv'
  BY <1>2, StartStep, Zenon
<1>3. ASSUME \/ UNCHANGED vars \/ \E c \in Client : TimePasses(c)
             \/ \E o \in Object, alive \in BOOLEAN : OtherChanges(o, alive)
             \/ \E b \in blobs : Collect(b[1], b[2])
             \/ \E o \in Object : Evict(o)
             \/ \E e \in epilogues : EpilogueUpdate(e) \/ EpilogueAdd(e)
      PROVE  ReadInv'
  BY <1>3, WorldStep, Zenon
<1> QED
  BY <1>1, <1>2, <1>3, Zenon DEF Next

(* ... it holds at first, ...                                               *)
LEMMA InitReads == ASSUME Init PROVE ReadInv
<1>1. PICK fc : th = [c \in Client |-> [Idle EXCEPT !.fc = fc]]
  BY Zenon DEF Init
<1> DEFINE r == [Idle EXCEPT !.fc = fc]
<1>2. Rests(r)
  <2>1. /\ IsCall(r) /\ r.pc = "idle" /\ r.wrong = "nothing" /\ r.req = <<>>
        /\ r.infos = <<>> /\ r.mcp = "none" /\ r.from = [o \in Object |-> 0]
        /\ r.mark = [o \in Object |-> 0]
    BY Zenon DEF IsCall, Fields, Idle
  <2> HIDE DEF r
  <2> QED
    BY <2>1, Zenon DEF Rests, Resting
<1>3. /\ last = [o \in Object |-> 1] /\ floor = [o \in Object |-> 0] /\ known = [o \in Object |-> 0]
      /\ mc = <<>> /\ quiet = {} /\ epilogues \subseteq {Epilogue(o, 1) : o \in Object}
  BY Zenon DEF Init
<1>4. last \in [Object -> Version1] /\ floor \in [Object -> Nat] /\ known \in [Object -> Nat]
  BY <1>3 DEF Version1
<1>5. \A o \in Object : floor[o] <= last[o] /\ known[o] = 0
  BY <1>3
<1>6. DOMAIN mc = {}
  BY <1>3
<1>11. ASSUME NEW e \in epilogues PROVE EpilogueOk(floor, e)
  <2>1. PICK o \in Object : e = Epilogue(o, 1)
    BY <1>3, Zenon
  <2>2. /\ e.object = o /\ e.version = 1
        /\ e = [x \in {"object", "version", "updated"} |-> e[x]]
    BY <2>1, Zenon DEF Epilogue
  <2>3. 1 \in Version1 /\ 0 <= 1
    BY DEF Version1
  <2>4. Least(floor, o) = 0
    BY <1>3, Zenon DEF Least
  <2> QED
    BY <2>2, <2>3, <2>4, Zenon DEF EpilogueOk
<1>7. World
  BY <1>4, <1>5, <1>6, <1>11, Zenon DEF World
<1>8. \A c \in Client : th[c] = r
  BY <1>1, Zenon
<1> HIDE DEF r
<1>9. ReadOk(r) /\ SeenOk(floor, last, backend, r)
  BY <1>2, <1>4, RestsOk, Zenon
<1>10. QuietInv
  BY <1>3, Zenon DEF QuietInv
<1> QED
  BY <1>7, <1>8, <1>9, <1>10, Zenon DEF ReadInv

(* ... and so always, given what is proved of the levels and the cache.     *)
LEMMA ReadInvHolds == Spec => []ReadInv
<1>1. Init => ReadInv
  BY InitReads, Zenon
<1>2. Spec => []Base
  BY RoraInvHolds, CacheInvHolds, PTL DEF Base
<1>3. Base /\ ReadInv /\ [Next]_vars => ReadInv'
  BY StepReads, Zenon
<1> QED
  BY <1>1, <1>2, <1>3, PTL DEF Spec

(* Every read that read_objects_slices returns has all the bytes that were  *)
(* asked for, of one version of each object: for all layouts of objects and *)
(* cached fragments, all requests, one or two levels, any number of threads,*)
(* objects, versions and calls, and any capacity of the manifest cache.     *)
THEOREM RoraReadsAreOfOneVersion == Spec => []ReadsAreOfOneVersion
<1>1. ReadInv => ReadsAreOfOneVersion
  BY Zenon DEF ReadInv, ReadOk, ReadsAreOfOneVersion
<1> QED
  BY <1>1, ReadInvHolds, PTL

(* No read is older than a write or an invalidate_cache that returned       *)
(* before it and that no other call of the process overlapped.              *)
THEOREM RoraQuietChangesAreSeen == ASSUME OnlyQuiet PROVE Spec => []QuietChangesAreSeen
<1>1. ReadInv => QuietChangesAreSeen
  BY Zenon DEF ReadInv, ReadOk, QuietChangesAreSeen
<1> QED
  BY <1>1, ReadInvHolds, PTL

=============================================================================
