-------------------------- MODULE DirectReadProofs --------------------------
(***************************************************************************)
(* Proofs about DirectRead, for any number of threads, ASDs, connections,   *)
(* plans, capacities, failures and restarts: ReadInv is inductive, and the  *)
(* properties of the module follow from it.                                 *)
(***************************************************************************)
EXTENDS DirectRead, TLAPS

(*------------------------------- sequences -------------------------------*)

(* The elements of a sequence are those at its positions. *)
LEMMA ElementsAre ==
    ASSUME NEW S, NEW s \in Seq(S)
    PROVE  /\ Elements(s) \subseteq S
           /\ \A i \in 1..Len(s) : s[i] \in Elements(s)
           /\ \A x \in Elements(s) : \E i \in 1..Len(s) : x = s[i]
<1>1. DOMAIN s = 1..Len(s) OBVIOUS
<1> QED BY <1>1 DEF Elements

(* What is left of a sequence after its first element is taken. *)
LEMMA TailIs ==
    ASSUME NEW S, NEW s \in Seq(S), s # <<>>
    PROVE  /\ Tail(s) \in Seq(S) /\ Len(s) > 0 /\ s[1] \in S
           /\ Len(Tail(s)) = Len(s) - 1
           /\ \A i \in 1..Len(Tail(s)) : Tail(s)[i] = s[i + 1]
           /\ Elements(s) = {s[1]} \union Elements(Tail(s))
<1>1. /\ Tail(s) \in Seq(S) /\ Len(s) > 0 /\ s[1] \in S
      /\ Len(Tail(s)) = Len(s) - 1
      /\ \A i \in 1..Len(Tail(s)) : Tail(s)[i] = s[i + 1]
  OBVIOUS
<1>2. ASSUME NEW x \in Elements(s) PROVE x \in {s[1]} \union Elements(Tail(s))
  <2>1. PICK i \in 1..Len(s) : x = s[i] BY ElementsAre, Zenon
  <2>2. CASE i = 1 BY <2>1, <2>2, Zenon
  <2>3. CASE i # 1
    <3>1. i - 1 \in 1..Len(Tail(s)) /\ Tail(s)[i - 1] = x BY <1>1, <2>1, <2>3
    <3>2. Tail(s)[i - 1] \in Elements(Tail(s)) BY <1>1, <3>1, ElementsAre, Zenon
    <3> QED BY <3>1, <3>2, Zenon
  <2> QED BY <2>2, <2>3, Zenon
<1>3. ASSUME NEW x \in Elements(Tail(s)) PROVE x \in Elements(s)
  <2>1. PICK i \in 1..Len(Tail(s)) : x = Tail(s)[i] BY <1>1, ElementsAre, Zenon
  <2>2. i + 1 \in 1..Len(s) /\ x = s[i + 1] BY <1>1, <2>1
  <2> QED BY <2>2, ElementsAre, Zenon
<1>4. s[1] \in Elements(s) BY <1>1, ElementsAre
<1> QED BY <1>1, <1>2, <1>3, <1>4, Zenon

(* The sequence with an element in front. *)
LEMMA ConsIs ==
    ASSUME NEW S, NEW s \in Seq(S), NEW x \in S
    PROVE  /\ <<x>> \o s \in Seq(S) /\ Len(<<x>> \o s) = Len(s) + 1
           /\ (<<x>> \o s)[1] = x
           /\ \A i \in 1..Len(s) : (<<x>> \o s)[i + 1] = s[i]
           /\ \A i \in 2..(Len(s) + 1) : (<<x>> \o s)[i] = s[i - 1]
           /\ Elements(<<x>> \o s) = {x} \union Elements(s)
<1>1. /\ <<x>> \o s \in Seq(S) /\ Len(<<x>> \o s) = Len(s) + 1
      /\ (<<x>> \o s)[1] = x
      /\ \A i \in 1..Len(s) : (<<x>> \o s)[i + 1] = s[i]
      /\ \A i \in 2..(Len(s) + 1) : (<<x>> \o s)[i] = s[i - 1]
  OBVIOUS
<1>2. ASSUME NEW y \in Elements(<<x>> \o s) PROVE y \in {x} \union Elements(s)
  <2>1. PICK i \in 1..(Len(s) + 1) : y = (<<x>> \o s)[i] BY <1>1, ElementsAre, ZenonT(30)
  <2>2. CASE i = 1 BY <1>1, <2>1, <2>2, Zenon
  <2>3. CASE i # 1
    <3>1. i - 1 \in 1..Len(s) /\ y = s[i - 1] BY <1>1, <2>1, <2>3
    <3> QED BY <3>1, ElementsAre, Zenon
  <2> QED BY <2>2, <2>3, Zenon
<1>3. ASSUME NEW y \in Elements(s) PROVE y \in Elements(<<x>> \o s)
  <2>1. PICK i \in 1..Len(s) : y = s[i] BY ElementsAre, Zenon
  <2>2. i + 1 \in 1..Len(<<x>> \o s) /\ y = (<<x>> \o s)[i + 1] BY <1>1, <2>1
  <2> QED BY <2>2, <1>1, ElementsAre, Zenon
<1>4. x \in Elements(<<x>> \o s)
  <2>1. 1 \in 1..Len(<<x>> \o s) BY <1>1
  <2>2. (<<x>> \o s)[1] \in Elements(<<x>> \o s) BY <1>1, <2>1, ElementsAre, Zenon
  <2> QED BY <1>1, <2>2, Zenon
<1> QED BY <1>1, <1>2, <1>3, <1>4, Zenon

(* What a smaller capacity leaves of a pool. *)
LEMMA KeptIs ==
    ASSUME NEW S, NEW s \in Seq(S), NEW cap \in Nat
    PROVE  /\ kept(s, cap) \in Seq(S) /\ Len(kept(s, cap)) <= cap
           /\ Len(kept(s, cap)) <= Len(s)
           /\ \/ kept(s, cap) = s
              \/ \A i \in 1..Len(kept(s, cap)) :
                   /\ Len(kept(s, cap)) + 1 - i \in 1..Len(s)
                   /\ kept(s, cap)[i] = s[Len(kept(s, cap)) + 1 - i]
<1>1. CASE Len(s) > cap
  <2> DEFINE k == [i \in 1..cap |-> s[cap + 1 - i]]
  <2>1. kept(s, cap) = k BY <1>1, Zenon DEF kept
  <2>2. \A i \in 1..cap : cap + 1 - i \in 1..Len(s) BY <1>1
  <2>3. k \in Seq(S) /\ Len(k) = cap
    <3>1. \A i \in 1..cap : s[cap + 1 - i] \in S BY <2>2
    <3> QED BY <3>1
  <2> QED BY <2>1, <2>2, <2>3, <1>1
<1>2. CASE ~(Len(s) > cap) BY <1>2 DEF kept
<1> QED BY <1>1, <1>2, Zenon

(* What is wanted is what the first slice and the others ask for. *)
LEMMA WantedStep ==
    ASSUME NEW o, NEW s \in Seq(Slice), s # <<>>
    PROVE  Wanted(o, s) = {[osd |-> o, slice |-> s[1], bytes |-> Bytes(o, s[1])]}
                          \union Wanted(o, Tail(s))
<1>1. Elements(s) = {s[1]} \union Elements(Tail(s)) BY TailIs, Zenon
<1> QED BY <1>1, Zenon DEF Wanted

(* The same of the ASDs of a plan. *)
LEMMA WantedOfStep ==
    ASSUME NEW plan \in PerOsd, plan # <<>>
    PROVE  WantedOf(plan) = Wanted(plan[1].osd, plan[1].slices) \union WantedOf(Tail(plan))
<1>1. Elements(plan) = {plan[1]} \union Elements(Tail(plan)) BY TailIs, Zenon DEF PerOsd
<1> QED BY <1>1, Zenon DEF WantedOf

(* Nothing is wanted where nothing is left. *)
LEMMA NothingWanted == WantedOf(<<>>) = {} /\ \A o : Wanted(o, <<>>) = {}
<1>1. Elements(<<>>) = {} BY DEF Elements
<1> QED BY <1>1, Zenon DEF WantedOf, Wanted

(* The bytes of a slice. *)
LEMMA BytesAre ==
    ASSUME NEW o \in Osd, NEW s \in Slice
    PROVE  /\ s.len \in Nat /\ Bytes(o, s) \in Seq(OneByte) /\ Len(Bytes(o, s)) = s.len
           /\ \A i \in 1..s.len : Bytes(o, s)[i] = Byte(o, s.key, s.offset + i)
<1>1. s.len \in Nat /\ \A i \in 1..s.len : Byte(o, s.key, s.offset + i) \in OneByte
  BY DEF Slice, OneByte, Byte
<1>2. Bytes(o, s) \in Seq(OneByte) BY <1>1 DEF Bytes
<1>3. DOMAIN Bytes(o, s) = 1..s.len BY Zenon DEF Bytes
<1>4. Len(Bytes(o, s)) = s.len BY <1>1, <1>2, <1>3
<1>5. \A i \in 1..s.len : Bytes(o, s)[i] = Byte(o, s.key, s.offset + i) BY Zenon DEF Bytes
<1> QED BY <1>1, <1>2, <1>4, <1>5, Zenon

(*--------------------------- what steps leave alone ---------------------------*)

(* Ownership depends only on who holds what and on what exists. *)
LEMMA SameOwners ==
    ASSUME ConnectionsHaveOneOwner,
           \A t \in Thread : th'[t].conn = th[t].conn,
           \A o \in Osd : pool'[o].conns = pool[o].conns,
           \A c \in Conn : conn'[c].st = "free" <=> conn[c].st = "free"
    PROVE  ConnectionsHaveOneOwner'
<1>1. \A t, u \in Thread : th'[t].conn = th'[u].conn /\ th'[t].conn # NoConn => t = u
  BY DEF ConnectionsHaveOneOwner
<1>2. \A o, p \in Osd : \A i \in DOMAIN pool'[o].conns, j \in DOMAIN pool'[p].conns :
         pool'[o].conns[i] = pool'[p].conns[j] => o = p /\ i = j
  BY DEF ConnectionsHaveOneOwner
<1>3. \A t \in Thread, o \in Osd : th'[t].conn \notin Elements(pool'[o].conns)
  BY Zenon DEF ConnectionsHaveOneOwner
<1>4. \A c \in Conn :
         conn'[c].st # "free" <=> \/ \E t \in Thread : th'[t].conn = c
                                 \/ \E o \in Osd : c \in Elements(pool'[o].conns)
  BY Zenon DEF ConnectionsHaveOneOwner
<1> QED BY <1>1, <1>2, <1>3, <1>4, Zenon DEF ConnectionsHaveOneOwner

(* A pool fits while neither its connections nor its capacity change. *)
LEMMA SamePools ==
    ASSUME PoolsFitCapacity,
           \A o \in Osd : pool'[o].conns = pool[o].conns /\ pool'[o].capacity = pool[o].capacity
    PROVE  PoolsFitCapacity'
BY Zenon DEF PoolsFitCapacity

(* A thread is undisturbed by steps that touch neither it nor its connection. *)
LEMMA SameThread ==
    ASSUME NEW t \in Thread, HoldInv(t), ExchangeInv(t), ProgressInv(t),
           th'[t] = th[t],
           th[t].conn # NoConn => conn'[th[t].conn] = conn[th[t].conn]
    PROVE  HoldInv(t)' /\ ExchangeInv(t)' /\ ProgressInv(t)'
<1>1. HoldInv(t)' BY Zenon DEF HoldInv, osd
<1>2. ProgressInv(t)' BY Zenon DEF ProgressInv, osd
<1>3. ExchangeInv(t)'
  <2>1. th[t].pc \in {"slice", "head", "bytes"} => conn'[th[t].conn] = conn[th[t].conn]
    BY Zenon DEF HoldInv, Holding
  <2>2. PICK r, o, s : r = conn[th[t].conn] /\ o = osd(t) /\ s = th[t].todo[1] BY Zenon
  <2>3. osd(t)' = o /\ th'[t].todo[1] = s BY <2>2, Zenon DEF osd
  <2>4. th[t].pc = "slice" => Quiet(th[t].conn)' BY <2>1, Zenon DEF ExchangeInv, Quiet
  <2>5. th[t].pc = "head" => Awaited(r, o, s) BY <2>2, Zenon DEF ExchangeInv
  <2>6. th[t].pc = "bytes" => r.req = <<>> /\ Arrived(r, o, s, 0) BY <2>2, Zenon DEF ExchangeInv
  <2> QED BY <2>1, <2>2, <2>3, <2>4, <2>5, <2>6, Zenon DEF ExchangeInv
<1> QED BY <1>1, <1>2, <1>3, Zenon

(* Two threads hold different connections, and neither is in a pool. *)
LEMMA HeldApart ==
    ASSUME ReadInv, NEW t \in Thread, th[t].pc \in Holding
    PROVE  /\ th[t].conn \in Conn /\ conn[th[t].conn].st # "free"
           /\ conn[th[t].conn] \in ConnRecord
           /\ \A u \in Thread : u # t => th[u].conn # th[t].conn
           /\ \A o \in Osd : th[t].conn \notin Elements(pool[o].conns)
           /\ osd(t) \in Osd /\ conn[th[t].conn].osd = osd(t)
<1>1. th[t].conn # NoConn /\ th[t].conn \in Conn \union {NoConn}
  BY Zenon DEF ReadInv, HoldInv, ReadTypeOK, ThreadRecord
<1>2. th[t].plan \in PerOsd /\ th[t].plan # <<>> /\ conn[th[t].conn].osd = osd(t)
  BY Zenon DEF ReadInv, HoldInv, ReadTypeOK, ThreadRecord, Busy
<1>3. th[t].plan[1] \in [osd : Osd, slices : Seq(Slice)] BY <1>2, TailIs, Zenon DEF PerOsd
<1>4. osd(t) \in Osd BY <1>3, Zenon DEF osd
<1> QED BY <1>1, <1>2, <1>4, Zenon DEF ReadInv, ConnectionsHaveOneOwner, ReadTypeOK

(* The records of a thread, a pool and a connection. *)
LEMMA Records ==
    ASSUME ReadTypeOK
    PROVE  /\ \A t \in Thread : th[t] \in ThreadRecord
           /\ \A o \in Osd : pool[o] \in PoolRecord
           /\ \A c \in Conn : conn[c] \in ConnRecord
BY Zenon DEF ReadTypeOK

(* The ASD a busy thread reads from. *)
LEMMA BusyOsd ==
    ASSUME ReadTypeOK, NEW t \in Thread, th[t].plan # <<>>
    PROVE  osd(t) \in Osd /\ th[t].plan[1].slices \in Seq(Slice)
<1>1. th[t].plan \in PerOsd BY Records, Zenon DEF ThreadRecord
<1>2. th[t].plan[1] \in [osd : Osd, slices : Seq(Slice)] BY <1>1, TailIs, Zenon DEF PerOsd
<1> QED BY <1>2, Zenon DEF osd

(* A step of one thread that leaves every connection where it is, and       *)
(* touches at most its own, keeps ReadInv if it keeps the thread's part.    *)
LEMMA StepInv ==
    ASSUME ReadInv, NEW t \in Thread, NEW rec \in ThreadRecord, Goes(t, rec),
           rec.conn = th[t].conn,
           pool' \in [Osd -> PoolRecord],
           \A o \in Osd : pool'[o].conns = pool[o].conns /\ pool'[o].capacity = pool[o].capacity,
           conn' \in [Conn -> ConnRecord],
           \A c \in Conn : c # th[t].conn => conn'[c] = conn[c],
           \A c \in Conn : conn'[c].st = "free" <=> conn[c].st = "free",
           \A c \in Conn : Len(conn'[c].req) <= 1,
           HoldInv(t)', ExchangeInv(t)', ProgressInv(t)'
    PROVE  ReadInv'
<1>1. th' = [th EXCEPT ![t] = rec] /\ th \in [Thread -> ThreadRecord]
  BY Zenon DEF Goes, ReadInv, ReadTypeOK
<1>2. th' \in [Thread -> ThreadRecord] /\ \A u \in Thread : u # t => th'[u] = th[u]
  BY <1>1, Zenon
<1>3. \A u \in Thread : th'[u].conn = th[u].conn BY <1>1, Zenon
<1>4. ConnectionsHaveOneOwner' BY <1>3, SameOwners, Zenon DEF ReadInv
<1>5. PoolsFitCapacity' BY SamePools, Zenon DEF ReadInv
<1>6. PooledConnectionsAreIdle'
  <2>1. ASSUME NEW o \in Osd, NEW c \in Elements(pool'[o].conns)
        PROVE  /\ conn'[c].osd = o /\ conn'[c].req = <<>> /\ conn'[c].inp = <<>>
               /\ conn'[c].job.left = <<>>
    <3>1. c \in Elements(pool[o].conns) BY <2>1, Zenon
    <3>2. c \in Conn BY <3>1, Records, ElementsAre, Zenon DEF ReadInv, PoolRecord
    <3>3. c # th[t].conn BY <3>1 DEF ReadInv, ConnectionsHaveOneOwner
    <3> QED BY <3>1, <3>2, <3>3 DEF ReadInv, PooledConnectionsAreIdle
  <2> QED BY <2>1, Zenon DEF PooledConnectionsAreIdle
<1>7. ASSUME NEW u \in Thread, u # t PROVE HoldInv(u)' /\ ExchangeInv(u)' /\ ProgressInv(u)'
  <2>1. th'[u] = th[u] BY <1>2, <1>7, Zenon
  <2>2. th[u].conn \in Conn \union {NoConn} BY Records, Zenon DEF ReadInv, ThreadRecord
  <2>3. th[u].conn # NoConn => conn'[th[u].conn] = conn[th[u].conn]
    BY <2>2, <1>7, Zenon DEF ReadInv, ConnectionsHaveOneOwner
  <2> QED BY <2>1, <2>3, SameThread, Zenon DEF ReadInv
<1>8. ReadTypeOK' BY <1>2, Zenon DEF ReadTypeOK
<1> QED BY <1>4, <1>5, <1>6, <1>7, <1>8, Zenon DEF ReadInv

(* A step of the ASDs, which knows no owners, keeps ReadInv if it keeps     *)
(* what is on the connections: those at rest stay so, and a thread gets     *)
(* what it waits for.                                                       *)
LEMMA AsdStepInv ==
    ASSUME ReadInv, UNCHANGED <<pool, th>>,
           conn' \in [Conn -> ConnRecord],
           \A c \in Conn : conn'[c].st = "free" <=> conn[c].st = "free",
           \A c \in Conn : conn'[c].osd = conn[c].osd,
           \A c \in Conn : Len(conn'[c].req) <= 1,
           \A c \in Conn : Quiet(c) => Quiet(c)',
           \A t \in Thread : ExchangeInv(t)'
    PROVE  ReadInv'
<1>1. ReadTypeOK' BY Zenon DEF ReadInv, ReadTypeOK
<1>2. ConnectionsHaveOneOwner' BY SameOwners, Zenon DEF ReadInv
<1>3. PoolsFitCapacity' BY SamePools, Zenon DEF ReadInv
<1>4. PooledConnectionsAreIdle'
  <2>1. ASSUME NEW o \in Osd, NEW c \in Elements(pool[o].conns)
        PROVE  conn'[c].osd = o /\ Quiet(c)'
    <3>1. c \in Conn BY Records, ElementsAre, Zenon DEF ReadInv, PoolRecord
    <3> QED BY <3>1, Zenon DEF ReadInv, PooledConnectionsAreIdle, Quiet
  <2> QED BY <2>1, Zenon DEF PooledConnectionsAreIdle, Quiet
<1>5. ASSUME NEW t \in Thread PROVE HoldInv(t)' /\ ProgressInv(t)'
  <2>1. HoldInv(t) /\ ProgressInv(t) BY Zenon DEF ReadInv
  <2>2. ProgressInv(t)' BY <2>1, Zenon DEF ProgressInv, osd
  <2>3. th[t].pc \in Holding => th[t].conn \in Conn BY HeldApart, Zenon
  <2>4. HoldInv(t)' BY <2>1, <2>3, Zenon DEF HoldInv, osd
  <2> QED BY <2>2, <2>4, Zenon
<1> QED BY <1>1, <1>2, <1>3, <1>4, <1>5, Zenon DEF ReadInv

(*------------------------- the steps of a thread -------------------------*)

(* What a step of a thread makes of its own record, and of no other. *)
LEMMA GoesTo ==
    ASSUME ReadInv, NEW t \in Thread, NEW rec, Goes(t, rec)
    PROVE  th'[t] = rec
BY Zenon DEF Goes, ReadInv, ReadTypeOK

(* Nothing is a plan, and no slices. *)
LEMMA EmptyTyped == <<>> \in PerOsd /\ <<>> \in Seq(Slice) /\ {} \in SUBSET Result
BY DEF PerOsd

(* The conjuncts of StepInv about pools and connections that stay. *)
LEMMA StaysAsIs ==
    ASSUME ReadInv
    PROVE  /\ pool' = pool =>
                /\ pool' \in [Osd -> PoolRecord]
                /\ \A o \in Osd : pool'[o].conns = pool[o].conns
                                  /\ pool'[o].capacity = pool[o].capacity
           /\ conn' = conn =>
                /\ conn' \in [Conn -> ConnRecord]
                /\ \A c \in Conn : conn'[c] = conn[c]
                /\ \A c \in Conn : conn'[c].st = "free" <=> conn[c].st = "free"
                /\ \A c \in Conn : Len(conn'[c].req) <= 1
BY Zenon DEF ReadInv, ReadTypeOK, PooledConnectionsAreIdle

(* A read that ends with an error holds no connection and promises nothing. *)
LEMMA EndsInv ==
    ASSUME ReadInv, NEW t \in Thread, th[t].conn = NoConn, NEW rc \in {-1, -2}, Ends(t, rc),
           UNCHANGED <<pool, conn>>
    PROVE  ReadInv'
<1> DEFINE rec == [th[t] EXCEPT !.pc = "idle", !.plan = <<>>, !.todo = <<>>,
                                !.conn = NoConn, !.rc = rc]
<1>1. th[t] \in ThreadRecord BY Records, Zenon DEF ReadInv
<1>2. rec \in ThreadRecord /\ rec.conn = th[t].conn BY <1>1, EmptyTyped, Zenon DEF ThreadRecord
<1>3. Goes(t, rec) /\ th'[t] = rec BY GoesTo, Zenon DEF Ends
<1>4. th'[t].pc = "idle" /\ th'[t].rc # 0 /\ th'[t].conn = NoConn
  BY <1>1, <1>3 DEF ThreadRecord
<1>5. HoldInv(t)' /\ ExchangeInv(t)' /\ ProgressInv(t)'
  BY <1>4, Zenon DEF HoldInv, ExchangeInv, ProgressInv, Holding, Busy
<1> HIDE DEF rec
<1> QED BY <1>2, <1>3, <1>5, StepInv, StaysAsIs, Zenon

(* read_osds_slices begins with everything still to be read. *)
LEMMA StartReadInv ==
    ASSUME ReadInv, NEW t \in Thread, NEW plan \in Plans, StartRead(t, plan)
    PROVE  ReadInv'
<1> DEFINE rec == [Idle EXCEPT !.pc = "osd", !.plan = plan, !.asked = plan,
                               !.reads = th[t].reads + 1]
<1>1. th[t] \in ThreadRecord /\ th[t].conn = NoConn
  BY Records, Zenon DEF ReadInv, HoldInv, StartRead, Holding
<1>2. plan \in PerOsd BY ReadAssumption, Zenon DEF PerOsd, Slice
<1>3. rec \in ThreadRecord /\ rec.conn = th[t].conn
  <2>1. th[t].reads + 1 \in Nat BY <1>1 DEF ThreadRecord
  <2>2. Idle \in ThreadRecord /\ Idle.conn = NoConn BY EmptyTyped, Zenon DEF ThreadRecord, Idle
  <2> QED BY <1>1, <1>2, <2>1, <2>2, Zenon DEF ThreadRecord
<1>4. Goes(t, rec) /\ th'[t] = rec /\ UNCHANGED <<pool, conn>> BY GoesTo, Zenon DEF StartRead
<1>5. /\ th'[t].pc = "osd" /\ th'[t].conn = NoConn /\ th'[t].asked = plan
      /\ th'[t].plan = plan /\ th'[t].got = {}
  BY <1>4, Zenon DEF Idle
<1>6. HoldInv(t)' /\ ExchangeInv(t)' /\ ProgressInv(t)'
  BY <1>5, Zenon DEF HoldInv, ExchangeInv, ProgressInv, Holding, Busy
<1> HIDE DEF rec
<1> QED BY <1>3, <1>4, <1>6, StepInv, StaysAsIs, Zenon

(* The next ASD: all of its slices are to be read. *)
LEMMA NextOsdInv ==
    ASSUME ReadInv, NEW t \in Thread, NextOsd(t)
    PROVE  ReadInv'
<1>1. /\ th[t] \in ThreadRecord /\ th[t].conn = NoConn /\ th[t].pc = "osd"
      /\ WantedOf(th[t].asked) = th[t].got \union WantedOf(th[t].plan)
      /\ conn' = conn
  BY Records, Zenon DEF ReadInv, HoldInv, ProgressInv, NextOsd, Holding
<1>2. CASE th[t].plan = <<>>
  <2> DEFINE rec == [th[t] EXCEPT !.pc = "idle", !.plan = <<>>, !.todo = <<>>,
                                  !.conn = NoConn, !.rc = 0]
  <2>1. rec \in ThreadRecord /\ rec.conn = th[t].conn BY <1>1, EmptyTyped, Zenon DEF ThreadRecord
  <2>2. Goes(t, rec) /\ th'[t] = rec /\ UNCHANGED pool BY <1>2, GoesTo, Zenon DEF NextOsd, Ends
  <2>3. /\ th'[t].pc = "idle" /\ th'[t].conn = NoConn /\ th'[t].asked = th[t].asked
        /\ th'[t].got = th[t].got
    BY <2>2, <1>1, Zenon DEF ThreadRecord
  <2>4. th[t].got = WantedOf(th[t].asked) BY <1>1, <1>2, NothingWanted, Zenon
  <2>5. HoldInv(t)' /\ ExchangeInv(t)' /\ ProgressInv(t)'
    BY <2>3, <2>4, Zenon DEF HoldInv, ExchangeInv, ProgressInv, Holding, Busy
  <2> HIDE DEF rec
  <2> QED BY <1>1, <2>1, <2>2, <2>5, StepInv, StaysAsIs, Zenon
<1>3. CASE th[t].plan # <<>> /\ info[osd(t)] # "asd"
  <2>1. Ends(t, -1) /\ UNCHANGED <<pool, conn>> BY <1>3, Zenon DEF NextOsd
  <2> QED BY <1>1, <2>1, EndsInv, Zenon
<1>4. CASE th[t].plan # <<>> /\ info[osd(t)] = "asd"
  <2> DEFINE rec == [th[t] EXCEPT !.pc = "get", !.todo = th[t].plan[1].slices]
  <2>1. osd(t) \in Osd /\ th[t].plan[1].slices \in Seq(Slice) /\ th[t].plan \in PerOsd
    BY <1>1, <1>4, BusyOsd, Zenon DEF ReadInv, ThreadRecord
  <2>2. rec \in ThreadRecord /\ rec.conn = th[t].conn BY <1>1, <2>1, Zenon DEF ThreadRecord
  <2>3. Goes(t, rec) /\ th'[t] = rec
        /\ pool' = [pool EXCEPT ![osd(t)] = get_connection_pool(osd(t))]
    BY <1>4, GoesTo, Zenon DEF NextOsd
  <2>4. /\ th'[t].pc = "get" /\ th'[t].conn = NoConn /\ th'[t].asked = th[t].asked
        /\ th'[t].got = th[t].got /\ th'[t].plan = th[t].plan
        /\ th'[t].todo = th[t].plan[1].slices
    BY <2>3, <1>1, Zenon DEF ThreadRecord
  <2>5. pool \in [Osd -> PoolRecord] BY Zenon DEF ReadInv, ReadTypeOK
  <2>6. /\ pool' \in [Osd -> PoolRecord]
        /\ \A o \in Osd : pool'[o].conns = pool[o].conns /\ pool'[o].capacity = pool[o].capacity
    BY <2>1, <2>3, <2>5, Zenon DEF get_connection_pool, PoolRecord
  <2>7. WantedOf(th[t].plan) = Wanted(osd(t), th[t].plan[1].slices)
                               \union WantedOf(Tail(th[t].plan))
    BY <2>1, <1>4, WantedOfStep, Zenon DEF osd
  <2>8. WantedOf(th[t].asked) = th[t].got \union Wanted(osd(t), th[t].plan[1].slices)
                                          \union WantedOf(Tail(th[t].plan))
    BY <1>1, <2>7, Zenon
  <2>9. HoldInv(t)' /\ ExchangeInv(t)'
    BY <2>4, <1>4, Zenon DEF HoldInv, ExchangeInv, Holding, Busy
  <2>10. ProgressInv(t)'
    BY <2>4, <2>8, Zenon DEF ProgressInv, Holding, Busy, osd
  <2> HIDE DEF rec
  <2> QED BY <1>1, <2>2, <2>3, <2>6, <2>9, <2>10, StepInv, StaysAsIs, Zenon
<1> QED BY <1>2, <1>3, <1>4, Zenon

(*------------------------------- ownership -------------------------------*)

Hands == [t \in Thread |-> th[t].conn]
Pools == [o \in Osd |-> pool[o].conns]
Existing == {c \in Conn : conn[c].st # "free"}

\* ConnectionsHaveOneOwner, of what threads and pools have
Apart(hd) == \A t, u \in Thread : hd[t] = hd[u] /\ hd[t] # NoConn => t = u
Distinct(cs) == \A o, p \in Osd : \A i \in 1..Len(cs[o]), j \in 1..Len(cs[p]) :
                  cs[o][i] = cs[p][j] => o = p /\ i = j
OutOfPools(hd, cs) == \A t \in Thread, o \in Osd : hd[t] \notin Elements(cs[o])
Has(hd, cs, c) == (\E t \in Thread : hd[t] = c) \/ (\E o \in Osd : c \in Elements(cs[o]))
Owned(hd, cs, ex) ==
    /\ Apart(hd) /\ Distinct(cs) /\ OutOfPools(hd, cs)
    /\ \A c \in Conn : c \in ex <=> Has(hd, cs, c)

(* Owned is ConnectionsHaveOneOwner. *)
LEMMA OwnedBefore ==
    ASSUME ReadTypeOK, ConnectionsHaveOneOwner
    PROVE  /\ Owned(Hands, Pools, Existing) /\ Pools \in [Osd -> Seq(Conn)]
           /\ Hands \in [Thread -> Conn \union {NoConn}]
<1>1. /\ \A o \in Osd : Pools[o] = pool[o].conns /\ DOMAIN pool[o].conns = 1..Len(pool[o].conns)
                        /\ pool[o].conns \in Seq(Conn)
      /\ \A t \in Thread : Hands[t] = th[t].conn /\ th[t].conn \in Conn \union {NoConn}
  BY Records DEF PoolRecord, ThreadRecord, Pools, Hands
<1>2. Apart(Hands) BY <1>1 DEF Apart, ConnectionsHaveOneOwner
<1>3. Distinct(Pools) BY <1>1 DEF Distinct, ConnectionsHaveOneOwner
<1>4. OutOfPools(Hands, Pools) BY <1>1, Zenon DEF OutOfPools, ConnectionsHaveOneOwner
<1>5. \A c \in Conn : c \in Existing <=> Has(Hands, Pools, c)
  BY <1>1 DEF Has, Existing, ConnectionsHaveOneOwner
<1>6. Pools \in [Osd -> Seq(Conn)] /\ Hands \in [Thread -> Conn \union {NoConn}]
  BY <1>1, Zenon DEF Pools, Hands
<1> QED BY <1>2, <1>3, <1>4, <1>5, <1>6, Zenon DEF Owned

(* And the other way round, after a step. *)
LEMMA OwnedAfter ==
    ASSUME ReadTypeOK', NEW hd, NEW cs, NEW ex, Owned(hd, cs, ex),
           \A t \in Thread : th'[t].conn = hd[t],
           \A o \in Osd : pool'[o].conns = cs[o],
           \A c \in Conn : conn'[c].st # "free" <=> c \in ex
    PROVE  ConnectionsHaveOneOwner'
<1>1. \A o \in Osd : DOMAIN pool'[o].conns = 1..Len(pool'[o].conns)
  BY DEF ReadTypeOK, PoolRecord
<1>2. \A t, u \in Thread : th'[t].conn = th'[u].conn /\ th'[t].conn # NoConn => t = u
  BY Zenon DEF Owned, Apart
<1>3. \A o, p \in Osd : \A i \in DOMAIN pool'[o].conns, j \in DOMAIN pool'[p].conns :
         pool'[o].conns[i] = pool'[p].conns[j] => o = p /\ i = j
  BY <1>1 DEF Owned, Distinct
<1>4. \A t \in Thread, o \in Osd : th'[t].conn \notin Elements(pool'[o].conns)
  BY Zenon DEF Owned, OutOfPools
<1>5. \A c \in Conn :
         conn'[c].st # "free" <=> \/ \E t \in Thread : th'[t].conn = c
                                 \/ \E o \in Osd : c \in Elements(pool'[o].conns)
  BY Zenon DEF Owned, Has
<1> QED BY <1>2, <1>3, <1>4, <1>5, Zenon DEF ConnectionsHaveOneOwner

(* get_connection moves the first connection of a pool to a thread. *)
LEMMA PopOwned ==
    ASSUME NEW hd \in [Thread -> Conn \union {NoConn}], NEW cs \in [Osd -> Seq(Conn)], NEW ex,
           Owned(hd, cs, ex), NEW t \in Thread, hd[t] = NoConn, NEW o \in Osd, cs[o] # <<>>
    PROVE  Owned([hd EXCEPT ![t] = cs[o][1]], [cs EXCEPT ![o] = Tail(cs[o])], ex)
<1>1. PICK s \in Seq(Conn) : s = cs[o] BY Zenon
<1>2. PICK c \in Conn : c = s[1] BY <1>1, TailIs, Zenon
<1>3. /\ Tail(s) \in Seq(Conn) /\ Len(Tail(s)) = Len(s) - 1 /\ Len(s) > 0 /\ Len(s) \in Nat
      /\ \A i \in 1..Len(Tail(s)) : Tail(s)[i] = s[i + 1]
      /\ Elements(s) = {c} \union Elements(Tail(s))
  BY <1>1, <1>2, TailIs
<1>4. PICK h \in [Thread -> Conn \union {NoConn}] : h = [hd EXCEPT ![t] = c] BY Zenon
<1>5. PICK d \in [Osd -> Seq(Conn)] : d = [cs EXCEPT ![o] = Tail(s)] BY <1>3, Zenon
<1>6. h[t] = c /\ \A u \in Thread : u # t => h[u] = hd[u] BY <1>4, Zenon
<1>7. d[o] = Tail(s) /\ \A p \in Osd : p # o => d[p] = cs[p] BY <1>5, Zenon
<1>8. c \in Elements(cs[o]) BY <1>1, <1>3, Zenon
<1>9. \A u \in Thread : hd[u] # c BY <1>8, Zenon DEF Owned, OutOfPools
<1>10. \A p \in Osd : \A i \in 1..Len(d[p]) :
         /\ p = o => i + 1 \in 1..Len(cs[p]) /\ d[p][i] = cs[p][i + 1]
         /\ p # o => i \in 1..Len(cs[p]) /\ d[p][i] = cs[p][i]
  <2>1. \A i \in 1..Len(Tail(s)) : i + 1 \in 1..Len(s) BY <1>3
  <2>2. \A i \in 1..Len(d[o]) : i + 1 \in 1..Len(cs[o]) /\ d[o][i] = cs[o][i + 1]
    BY <2>1, <1>1, <1>3, <1>7, Zenon
  <2> QED BY <2>2, <1>7, Zenon
<1>11. Distinct(d)
  <2> SUFFICES ASSUME NEW p \in Osd, NEW q \in Osd, NEW i \in 1..Len(d[p]),
                      NEW j \in 1..Len(d[q]), d[p][i] = d[q][j]
               PROVE  p = q /\ i = j
    BY Zenon DEF Distinct
  <2>1. CASE p = o /\ q = o
    <3>1. i + 1 = j + 1 BY <1>10, <2>1 DEF Owned, Distinct
    <3> QED BY <3>1, <2>1
  <2>2. CASE p = o /\ q # o BY <1>10, <2>2 DEF Owned, Distinct
  <2>3. CASE p # o /\ q = o BY <1>10, <2>3 DEF Owned, Distinct
  <2>4. CASE p # o /\ q # o BY <1>10, <2>4 DEF Owned, Distinct
  <2> QED BY <2>1, <2>2, <2>3, <2>4, Zenon
<1>12. \A p \in Osd : c \notin Elements(d[p])
  <2> SUFFICES ASSUME NEW p \in Osd, c \in Elements(d[p]) PROVE FALSE BY Zenon
  <2>1. PICK i \in 1..Len(d[p]) : c = d[p][i] BY ElementsAre, Zenon
  <2>2. 1 \in 1..Len(cs[o]) /\ cs[o][1] = c BY <1>1, <1>2, <1>3
  <2>3. CASE p = o
    <3>1. i + 1 = 1 BY <1>10, <2>1, <2>2, <2>3 DEF Owned, Distinct
    <3> QED BY <3>1
  <2>4. CASE p # o BY <1>10, <2>1, <2>2, <2>4 DEF Owned, Distinct
  <2> QED BY <2>3, <2>4, Zenon
<1>13. Apart(h) BY <1>6, <1>9, Zenon DEF Owned, Apart
<1>14. \A p \in Osd : Elements(cs[p]) = IF p = o THEN {c} \union Elements(d[p]) ELSE Elements(d[p])
  BY <1>1, <1>3, <1>7, Zenon
<1>15. OutOfPools(h, d)
  BY <1>6, <1>12, <1>14, Zenon DEF Owned, OutOfPools
<1>16. ASSUME NEW x \in Conn PROVE Has(h, d, x) <=> Has(hd, cs, x)
  <2>1. CASE x = c
    <3>1. Has(h, d, x) BY <2>1, <1>6, Zenon DEF Has
    <3>2. Has(hd, cs, x) BY <2>1, <1>8, Zenon DEF Has
    <3> QED BY <3>1, <3>2, Zenon
  <2>2. CASE x # c
    <3>1. x # NoConn BY ReadAssumption, Zenon
    <3>2. (\E u \in Thread : h[u] = x) <=> (\E u \in Thread : hd[u] = x)
      BY <2>2, <3>1, <1>6, Zenon
    <3>3. \A p \in Osd : x \in Elements(d[p]) <=> x \in Elements(cs[p]) BY <2>2, <1>14, Zenon
    <3> QED BY <3>2, <3>3, Zenon DEF Has
  <2> QED BY <2>1, <2>2, Zenon
<1>17. Owned(h, d, ex) BY <1>11, <1>13, <1>15, <1>16, Zenon DEF Owned
<1> QED BY <1>1, <1>2, <1>4, <1>5, <1>17, Zenon

(* make_one_ gives a thread a connection that did not exist. *)
LEMMA MakeOwned ==
    ASSUME NEW hd \in [Thread -> Conn \union {NoConn}], NEW cs \in [Osd -> Seq(Conn)],
           NEW ex \in SUBSET Conn, Owned(hd, cs, ex), NEW t \in Thread, hd[t] = NoConn,
           NEW c \in Conn, c \notin ex
    PROVE  Owned([hd EXCEPT ![t] = c], cs, ex \union {c})
<1>1. PICK h : h = [hd EXCEPT ![t] = c] BY Zenon
<1>2. h[t] = c /\ \A u \in Thread : u # t => h[u] = hd[u] BY <1>1, Zenon
<1>3. c # NoConn BY ReadAssumption, Zenon
<1>4. (\A u \in Thread : hd[u] # c) /\ (\A o \in Osd : c \notin Elements(cs[o]))
  BY Zenon DEF Owned, Has
<1>5. Apart(h) BY <1>2, <1>4, Zenon DEF Owned, Apart
<1>6. OutOfPools(h, cs) BY <1>2, <1>4, Zenon DEF Owned, OutOfPools
<1>7. ASSUME NEW x \in Conn PROVE x \in ex \union {c} <=> Has(h, cs, x)
  <2>1. x # NoConn BY ReadAssumption, Zenon
  <2>2. CASE x = c BY <2>2, <1>2, Zenon DEF Has
  <2>3. CASE x # c
    <3>1. (\E u \in Thread : h[u] = x) <=> (\E u \in Thread : hd[u] = x) BY <2>1, <2>3, <1>2, Zenon
    <3> QED BY <3>1, <2>3, Zenon DEF Has, Owned
  <2> QED BY <2>2, <2>3, Zenon
<1> QED BY <1>1, <1>5, <1>6, <1>7, Zenon DEF Owned

(* A thread that closes its connection leaves the others as they are. *)
LEMMA DropOwned ==
    ASSUME NEW hd \in [Thread -> Conn \union {NoConn}], NEW cs \in [Osd -> Seq(Conn)],
           NEW ex \in SUBSET Conn, Owned(hd, cs, ex), NEW t \in Thread,
           NEW c \in Conn, hd[t] = c
    PROVE  Owned([hd EXCEPT ![t] = NoConn], cs, ex \ {c})
<1>1. PICK h : h = [hd EXCEPT ![t] = NoConn] BY Zenon
<1>2. h[t] = NoConn /\ \A u \in Thread : u # t => h[u] = hd[u] BY <1>1, Zenon
<1>3. c # NoConn BY ReadAssumption, Zenon
<1>4. \A u \in Thread : u # t => hd[u] # c BY <1>3, Zenon DEF Owned, Apart
<1>5. \A o \in Osd : c \notin Elements(cs[o]) /\ NoConn \notin Elements(cs[o])
  BY ElementsAre, ReadAssumption, Zenon DEF Owned, OutOfPools
<1>6. Apart(h) BY <1>2, <1>4, Zenon DEF Owned, Apart
<1>7. OutOfPools(h, cs) BY <1>2, <1>5, Zenon DEF Owned, OutOfPools
<1>8. ASSUME NEW x \in Conn PROVE x \in ex \ {c} <=> Has(h, cs, x)
  <2>1. x # NoConn BY ReadAssumption, Zenon
  <2>2. CASE x = c BY <2>1, <2>2, <1>2, <1>4, <1>5, Zenon DEF Has
  <2>3. CASE x # c
    <3>1. (\E u \in Thread : h[u] = x) <=> (\E u \in Thread : hd[u] = x) BY <2>1, <2>3, <1>2, Zenon
    <3> QED BY <3>1, <2>3, Zenon DEF Has, Owned
  <2> QED BY <2>2, <2>3, Zenon
<1> QED BY <1>1, <1>6, <1>7, <1>8, Zenon DEF Owned

(* release_connection moves a thread's connection to the front of a pool. *)
LEMMA PushOwned ==
    ASSUME NEW hd \in [Thread -> Conn \union {NoConn}], NEW cs \in [Osd -> Seq(Conn)],
           NEW ex \in SUBSET Conn, Owned(hd, cs, ex), NEW t \in Thread,
           NEW c \in Conn, hd[t] = c, NEW o \in Osd
    PROVE  Owned([hd EXCEPT ![t] = NoConn], [cs EXCEPT ![o] = <<c>> \o cs[o]], ex)
<1>1. PICK s \in Seq(Conn) : s = cs[o] BY Zenon
<1>2. /\ <<c>> \o s \in Seq(Conn) /\ Len(<<c>> \o s) = Len(s) + 1 /\ Len(s) \in Nat
      /\ (<<c>> \o s)[1] = c
      /\ \A i \in 2..(Len(s) + 1) : (<<c>> \o s)[i] = s[i - 1]
      /\ Elements(<<c>> \o s) = {c} \union Elements(s)
  BY <1>1, ConsIs
<1>3. PICK h : h = [hd EXCEPT ![t] = NoConn] BY Zenon
<1>4. h[t] = NoConn /\ \A u \in Thread : u # t => h[u] = hd[u] BY <1>3, Zenon
<1>5. PICK d \in [Osd -> Seq(Conn)] : d = [cs EXCEPT ![o] = <<c>> \o s] BY <1>2, Zenon
<1>6. d[o] = <<c>> \o s /\ \A p \in Osd : p # o => d[p] = cs[p] BY <1>5, Zenon
<1>7. c # NoConn BY ReadAssumption, Zenon
<1>8. \A u \in Thread : u # t => hd[u] # c BY <1>7, Zenon DEF Owned, Apart
<1>9. \A p \in Osd : c \notin Elements(cs[p]) BY Zenon DEF Owned, OutOfPools
<1>10. \A p \in Osd : NoConn \notin Elements(d[p]) BY ElementsAre, ReadAssumption, Zenon
<1>11. \A p \in Osd : Elements(d[p]) = IF p = o THEN {c} \union Elements(cs[p]) ELSE Elements(cs[p])
  BY <1>1, <1>2, <1>6, Zenon
<1>12. \A p \in Osd : \A i \in 1..Len(d[p]) :
         \/ p = o /\ i = 1 /\ d[p][i] = c
         \/ p = o /\ i - 1 \in 1..Len(cs[p]) /\ d[p][i] = cs[p][i - 1]
         \/ p # o /\ i \in 1..Len(cs[p]) /\ d[p][i] = cs[p][i]
  <2>1. \A i \in 1..(Len(s) + 1) : i = 1 \/ (i \in 2..(Len(s) + 1) /\ i - 1 \in 1..Len(s))
    BY <1>2
  <2>2. \A i \in 1..Len(d[o]) : \/ i = 1 /\ d[o][i] = c
                                \/ i - 1 \in 1..Len(cs[o]) /\ d[o][i] = cs[o][i - 1]
    BY <2>1, <1>1, <1>2, <1>6, Zenon
  <2> QED BY <2>2, <1>6, Zenon
<1>13. \A p \in Osd : \A i \in 1..Len(cs[p]) : cs[p][i] # c BY <1>9, ElementsAre, Zenon
<1>14. Distinct(d)
  <2> SUFFICES ASSUME NEW p \in Osd, NEW q \in Osd, NEW i \in 1..Len(d[p]),
                      NEW j \in 1..Len(d[q]), d[p][i] = d[q][j]
               PROVE  p = q /\ i = j
    BY Zenon DEF Distinct
  <2>1. CASE d[p][i] = c
    <3>1. \A p2 \in Osd : \A i2 \in 1..Len(d[p2]) : d[p2][i2] = c => p2 = o /\ i2 = 1
      <4> SUFFICES ASSUME NEW p2 \in Osd, NEW i2 \in 1..Len(d[p2]), d[p2][i2] = c
                   PROVE  p2 = o /\ i2 = 1
        BY Zenon
      <4>1. \/ p2 = o /\ i2 = 1
            \/ \E j2 \in 1..Len(cs[p2]) : d[p2][i2] = cs[p2][j2]
        BY <1>12, Zenon
      <4> QED BY <4>1, <1>13, Zenon
    <3>2. p = o /\ i = 1 /\ q = o /\ j = 1 BY <2>1, <3>1, Zenon
    <3> QED BY <3>2, Zenon
  <2>2. CASE d[p][i] # c
    <3>1. CASE p = o /\ q = o
      <4>1. i - 1 \in 1..Len(cs[o]) /\ d[o][i] = cs[o][i - 1] BY <1>12, <2>2, <3>1, Zenon
      <4>2. j - 1 \in 1..Len(cs[o]) /\ d[o][j] = cs[o][j - 1] BY <1>12, <2>2, <3>1, Zenon
      <4>3. i - 1 = j - 1 BY <4>1, <4>2, <3>1 DEF Owned, Distinct
      <4> QED BY <4>3, <3>1
    <3>2. CASE p = o /\ q # o BY <1>12, <2>2, <3>2 DEF Owned, Distinct
    <3>3. CASE p # o /\ q = o BY <1>12, <2>2, <3>3 DEF Owned, Distinct
    <3>4. CASE p # o /\ q # o BY <1>12, <2>2, <3>4 DEF Owned, Distinct
    <3> QED BY <3>1, <3>2, <3>3, <3>4, Zenon
  <2> QED BY <2>1, <2>2, Zenon
<1>15. Apart(h) BY <1>4, <1>8, Zenon DEF Owned, Apart
<1>16. OutOfPools(h, d)
  BY <1>4, <1>8, <1>10, <1>11, Zenon DEF Owned, OutOfPools
<1>17. ASSUME NEW x \in Conn PROVE Has(h, d, x) <=> Has(hd, cs, x)
  <2>1. CASE x = c
    <3>1. Has(hd, cs, x) BY <2>1, Zenon DEF Has
    <3>2. Has(h, d, x) BY <2>1, <1>11, Zenon DEF Has
    <3> QED BY <3>1, <3>2, Zenon
  <2>2. CASE x # c
    <3>1. x # NoConn BY ReadAssumption, Zenon
    <3>2. (\E u \in Thread : h[u] = x) <=> (\E u \in Thread : hd[u] = x)
      BY <2>2, <3>1, <1>4, Zenon
    <3>3. \A p \in Osd : x \in Elements(d[p]) <=> x \in Elements(cs[p]) BY <2>2, <1>11, Zenon
    <3> QED BY <3>2, <3>3, Zenon DEF Has
  <2> QED BY <2>1, <2>2, Zenon
<1>18. Owned(h, d, ex) BY <1>14, <1>15, <1>16, <1>17, Zenon DEF Owned
<1> QED BY <1>1, <1>3, <1>5, <1>18, Zenon

(* What a smaller capacity throws out has no owner any more. *)
LEMMA KeepOwned ==
    ASSUME NEW hd \in [Thread -> Conn \union {NoConn}], NEW cs \in [Osd -> Seq(Conn)],
           NEW ex \in SUBSET Conn, Owned(hd, cs, ex), NEW o \in Osd, NEW cap \in Nat,
           NEW left, left = kept(cs[o], cap)
    PROVE  Owned(hd, [cs EXCEPT ![o] = left], ex \ (Elements(cs[o]) \ Elements(left)))
<1>1. PICK s \in Seq(Conn) : s = cs[o] BY Zenon
<1>2. /\ left \in Seq(Conn) /\ Len(left) \in Nat
      /\ \/ left = s
         \/ \A i \in 1..Len(left) : /\ Len(left) + 1 - i \in 1..Len(s)
                                    /\ left[i] = s[Len(left) + 1 - i]
  BY <1>1, KeptIs
<1>3. PICK d \in [Osd -> Seq(Conn)] : d = [cs EXCEPT ![o] = left] BY <1>2, Zenon
<1>4. d[o] = left /\ \A p \in Osd : p # o => d[p] = cs[p] BY <1>3, Zenon
<1>5. Elements(left) \subseteq Elements(s)
  <2> SUFFICES ASSUME NEW x \in Elements(left) PROVE x \in Elements(s) BY Zenon
  <2>1. PICK i \in 1..Len(left) : x = left[i] BY <1>2, ElementsAre, Zenon
  <2>2. PICK j \in 1..Len(s) : x = s[j] BY <1>2, <2>1, Zenon
  <2> QED BY <2>2, ElementsAre, Zenon
<1>6. Distinct(d)
  <2> SUFFICES ASSUME NEW p \in Osd, NEW q \in Osd, NEW i \in 1..Len(d[p]),
                      NEW j \in 1..Len(d[q]), d[p][i] = d[q][j]
               PROVE  p = q /\ i = j
    BY Zenon DEF Distinct
  <2>1. CASE left = s
    <3>1. d[p] = cs[p] /\ d[q] = cs[q] BY <2>1, <1>1, <1>4, Zenon
    <3> QED BY <3>1 DEF Owned, Distinct
  <2>2. CASE left # s
    <3>1. \A n \in 1..Len(left) : /\ Len(left) + 1 - n \in 1..Len(cs[o])
                                  /\ d[o][n] = cs[o][Len(left) + 1 - n]
      BY <2>2, <1>1, <1>2, <1>4, Zenon
    <3>2. CASE p = o /\ q = o
      <4>1. i \in 1..Len(left) /\ j \in 1..Len(left) BY <3>2, <1>4, Zenon
      <4>2. PICK a \in 1..Len(cs[o]) : a = Len(left) + 1 - i /\ d[o][i] = cs[o][a]
        BY <3>1, <4>1, Zenon
      <4>3. PICK b \in 1..Len(cs[o]) : b = Len(left) + 1 - j /\ d[o][j] = cs[o][b]
        BY <3>1, <4>1, Zenon
      <4>4. a = b
        <5>1. d[o][i] = d[o][j] BY <3>2, Zenon
        <5>2. cs[o][a] = cs[o][b] BY <5>1, <4>2, <4>3, Zenon
        <5>3. Distinct(cs) BY Zenon DEF Owned
        <5> QED BY <5>2, <5>3 DEF Distinct
      <4> QED BY <4>1, <4>2, <4>3, <4>4, <3>2, <1>2
    <3>3. CASE p = o /\ q # o BY <3>1, <3>3, <1>4 DEF Owned, Distinct
    <3>4. CASE p # o /\ q = o BY <3>1, <3>4, <1>4 DEF Owned, Distinct
    <3>5. CASE p # o /\ q # o BY <3>5, <1>4 DEF Owned, Distinct
    <3> QED BY <3>2, <3>3, <3>4, <3>5, Zenon
  <2> QED BY <2>1, <2>2, Zenon
<1>7. OutOfPools(hd, d) BY <1>1, <1>4, <1>5, Zenon DEF Owned, OutOfPools
<1>8. ASSUME NEW x \in Conn
      PROVE  x \in ex \ (Elements(s) \ Elements(left)) <=> Has(hd, d, x)
  <2>1. x \in ex <=> Has(hd, cs, x) BY Zenon DEF Owned
  <2>2. CASE x \in Elements(left)
    <3>1. Has(hd, d, x) BY <2>2, <1>4, Zenon DEF Has
    <3>2. Has(hd, cs, x) BY <2>2, <1>1, <1>5, Zenon DEF Has
    <3> QED BY <2>1, <2>2, <3>1, <3>2, Zenon
  <2>3. CASE x \in Elements(s) /\ x \notin Elements(left)
    <3>1. \A u \in Thread : hd[u] # x BY <2>3, <1>1, Zenon DEF Owned, OutOfPools
    <3>2. ASSUME NEW p \in Osd, x \in Elements(d[p]) PROVE FALSE
      <4>1. p # o /\ x \in Elements(cs[p]) BY <3>2, <2>3, <1>4, Zenon
      <4>2. PICK i \in 1..Len(cs[p]) : x = cs[p][i] BY <4>1, ElementsAre, Zenon
      <4>3. PICK j \in 1..Len(cs[o]) : x = cs[o][j] BY <2>3, <1>1, ElementsAre, Zenon
      <4> QED BY <4>1, <4>2, <4>3, Zenon DEF Owned, Distinct
    <3> QED BY <2>3, <3>1, <3>2, Zenon DEF Has
  <2>4. CASE x \notin Elements(s)
    <3>1. \A p \in Osd : x \in Elements(d[p]) <=> x \in Elements(cs[p])
      BY <2>4, <1>1, <1>4, <1>5, Zenon
    <3> QED BY <2>1, <2>4, <3>1, Zenon DEF Has
  <2> QED BY <2>2, <2>3, <2>4, Zenon
<1> QED BY <1>1, <1>3, <1>6, <1>7, <1>8, Zenon DEF Owned

(*------------------ the steps that move a connection ------------------*)

(* A thread's step keeps the part of the others if it keeps their            *)
(* connections.                                                              *)
LEMMA MoveInv ==
    ASSUME ReadInv, NEW t \in Thread, NEW rec \in ThreadRecord, Goes(t, rec),
           pool' \in [Osd -> PoolRecord], conn' \in [Conn -> ConnRecord],
           ConnectionsHaveOneOwner', PooledConnectionsAreIdle', PoolsFitCapacity',
           \A u \in Thread : u # t /\ th[u].conn # NoConn =>
                               conn'[th[u].conn] = conn[th[u].conn],
           HoldInv(t)', ExchangeInv(t)', ProgressInv(t)'
    PROVE  ReadInv'
<1>1. th' = [th EXCEPT ![t] = rec] /\ th \in [Thread -> ThreadRecord]
  BY Zenon DEF Goes, ReadInv, ReadTypeOK
<1>2. th' \in [Thread -> ThreadRecord] /\ \A u \in Thread : u # t => th'[u] = th[u]
  BY <1>1, Zenon
<1>3. ASSUME NEW u \in Thread, u # t PROVE HoldInv(u)' /\ ExchangeInv(u)' /\ ProgressInv(u)'
  BY <1>2, <1>3, SameThread, Zenon DEF ReadInv
<1> QED BY <1>2, <1>3, Zenon DEF ReadInv, ReadTypeOK

(* What moves with the thread's record. *)
LEMMA HandsAfter ==
    ASSUME ReadInv, NEW t \in Thread, NEW rec \in ThreadRecord, Goes(t, rec)
    PROVE  /\ \A u \in Thread : th'[u].conn = [Hands EXCEPT ![t] = rec.conn][u]
           /\ th' \in [Thread -> ThreadRecord]
<1>1. th' = [th EXCEPT ![t] = rec] /\ th \in [Thread -> ThreadRecord]
  BY Zenon DEF Goes, ReadInv, ReadTypeOK
<1> QED BY <1>1, Zenon DEF Hands

(* The connection a thread takes from the pool is its own from then on. *)
LEMMA PopInv ==
    ASSUME ReadInv, NEW t \in Thread, th[t].pc = "get", pool[osd(t)].conns # <<>>,
           Goes(t, [th[t] EXCEPT !.pc = "slice", !.conn = pool[osd(t)].conns[1]]),
           pool' = [pool EXCEPT ![osd(t)].conns = pop_(@)],
           UNCHANGED conn
    PROVE  ReadInv'
<1>1. /\ th[t] \in ThreadRecord /\ th[t].conn = NoConn /\ th[t].plan # <<>>
      /\ WantedOf(th[t].asked) = th[t].got \union Wanted(osd(t), th[t].todo)
                                           \union WantedOf(Tail(th[t].plan))
  BY Records, Zenon DEF ReadInv, HoldInv, ProgressInv, Holding, Busy
<1>2. osd(t) \in Osd BY <1>1, BusyOsd, Zenon DEF ReadInv
<1>3. PICK o \in Osd : o = osd(t) BY <1>2, Zenon
<1>4. PICK s \in Seq(Conn) : s = pool[o].conns BY <1>3, Records, Zenon DEF ReadInv, PoolRecord
<1>5. PICK c \in Conn : c = s[1] BY <1>3, <1>4, TailIs, Zenon
<1>6. /\ Tail(s) \in Seq(Conn) /\ Len(Tail(s)) = Len(s) - 1 /\ Len(s) \in Nat
      /\ Elements(s) = {c} \union Elements(Tail(s))
  BY <1>3, <1>4, <1>5, TailIs
<1>7. PICK rec : rec = [th[t] EXCEPT !.pc = "slice", !.conn = c] BY Zenon
<1>8. /\ rec \in ThreadRecord /\ rec.pc = "slice" /\ rec.conn = c /\ rec.plan = th[t].plan
      /\ rec.todo = th[t].todo /\ rec.asked = th[t].asked /\ rec.got = th[t].got
  BY <1>1, <1>7, Zenon DEF ThreadRecord
<1>9. Goes(t, rec) /\ th'[t] = rec BY <1>3, <1>4, <1>5, <1>7, GoesTo, Zenon
<1>10. pool' = [pool EXCEPT ![o].conns = Tail(s)] BY <1>3, <1>4, Zenon DEF pop_
<1>11. /\ pool \in [Osd -> PoolRecord] /\ conn \in [Conn -> ConnRecord]
       /\ th \in [Thread -> ThreadRecord]
  BY Zenon DEF ReadInv, ReadTypeOK
<1>12. pool' \in [Osd -> PoolRecord]
  <2>1. [pool[o] EXCEPT !.conns = Tail(s)] \in PoolRecord BY <1>6, <1>11, Zenon DEF PoolRecord
  <2> QED BY <2>1, <1>10, <1>11, Zenon
<1>13. \A p \in Osd : pool'[p].capacity = pool[p].capacity
                      /\ pool'[p].conns = IF p = o THEN Tail(s) ELSE pool[p].conns
  <2>1. PICK r : r = [pool[o] EXCEPT !.conns = Tail(s)] BY Zenon
  <2>2. r.capacity = pool[o].capacity /\ r.conns = Tail(s) BY <2>1, <1>11, Zenon DEF PoolRecord
  <2>3. pool'[o] = r /\ \A p \in Osd : p # o => pool'[p] = pool[p] BY <2>1, <1>10, <1>11, Zenon
  <2> TAKE p \in Osd
  <2>4. CASE p = o BY <2>2, <2>3, <2>4, Zenon
  <2>5. CASE p # o BY <2>3, <2>5, <1>3
  <2> QED BY <2>4, <2>5, Zenon
<1>14. ReadTypeOK' BY <1>8, <1>9, <1>11, <1>12, HandsAfter, Zenon DEF ReadTypeOK
<1>15. ConnectionsHaveOneOwner'
  <2>1. /\ Owned(Hands, Pools, Existing) /\ Pools \in [Osd -> Seq(Conn)]
        /\ Hands \in [Thread -> Conn \union {NoConn}]
        /\ Hands[t] = NoConn /\ Pools[o] = s /\ s # <<>>
    BY <1>1, <1>3, <1>4, OwnedBefore, Zenon DEF ReadInv, Hands, Pools
  <2>2. PICK hd, cs, ex : /\ hd = [Hands EXCEPT ![t] = c] /\ cs = [Pools EXCEPT ![o] = Tail(s)]
                          /\ ex = Existing
    BY Zenon
  <2>3. Owned(hd, cs, ex) BY <1>5, <2>1, <2>2, PopOwned, Zenon
  <2>4. \A u \in Thread : th'[u].conn = hd[u] BY <1>8, <1>9, <2>2, HandsAfter
  <2>5. \A p \in Osd : pool'[p].conns = cs[p] BY <1>13, <2>2, Zenon DEF Pools
  <2>6. \A d \in Conn : conn'[d].st # "free" <=> d \in ex BY <2>2, Zenon DEF Existing
  <2> QED BY <1>14, <2>3, <2>4, <2>5, <2>6, OwnedAfter
<1>16. PooledConnectionsAreIdle'
  <2>1. \A p \in Osd : Elements(pool'[p].conns) \subseteq Elements(pool[p].conns)
    BY <1>4, <1>6, <1>13, Zenon
  <2> QED BY <2>1, Zenon DEF ReadInv, PooledConnectionsAreIdle
<1>17. PoolsFitCapacity'
  <2>1. \A p \in Osd : Len(pool[p].conns) <= pool[p].capacity /\ pool[p].capacity \in Nat
    BY <1>11, Zenon DEF ReadInv, PoolsFitCapacity, PoolRecord
  <2>2. Len(Tail(s)) <= pool[o].capacity BY <2>1, <1>4, <1>6
  <2> QED BY <2>1, <2>2, <1>13, Zenon DEF PoolsFitCapacity
<1>18. HoldInv(t)' /\ ExchangeInv(t)' /\ ProgressInv(t)'
  <2>1. osd(t)' = o BY <1>3, <1>8, <1>9, Zenon DEF osd
  <2>2. c # NoConn BY ReadAssumption, Zenon
  <2>3. c \in Elements(pool[o].conns) BY <1>4, <1>6, Zenon
  <2>4. conn[c].osd = o /\ Quiet(c) BY <2>3, Zenon DEF ReadInv, PooledConnectionsAreIdle, Quiet
  <2>5. HoldInv(t)' BY <2>1, <2>2, <2>4, <1>1, <1>8, <1>9, Zenon DEF HoldInv, Holding
  <2>6. Quiet(c)' BY <2>4, Zenon DEF Quiet
  <2>7. ExchangeInv(t)' BY <2>6, <1>8, <1>9, Zenon DEF ExchangeInv
  <2>8. ProgressInv(t)' BY <2>1, <1>1, <1>3, <1>8, <1>9, Zenon DEF ProgressInv, Busy, Holding
  <2> QED BY <2>5, <2>7, <2>8, Zenon
<1> QED BY <1>8, <1>9, <1>11, <1>12, <1>15, <1>16, <1>17, <1>18, MoveInv, Zenon

(* get_connection *)
LEMMA GetConnectionInv ==
    ASSUME ReadInv, NEW t \in Thread, GetConnection(t)
    PROVE  ReadInv'
<1>1. /\ th[t] \in ThreadRecord /\ th[t].conn = NoConn /\ th[t].plan # <<>> /\ th[t].pc = "get"
      /\ WantedOf(th[t].asked) = th[t].got \union Wanted(osd(t), th[t].todo)
                                           \union WantedOf(Tail(th[t].plan))
      /\ UNCHANGED conn
  BY Records, Zenon DEF ReadInv, HoldInv, ProgressInv, Holding, Busy, GetConnection
<1>2. CASE disqualified(pool[osd(t)])
  <2>1. Ends(t, -2) /\ UNCHANGED pool BY <1>2, Zenon DEF GetConnection
  <2> QED BY <1>1, <2>1, EndsInv, Zenon
<1>3. CASE ~disqualified(pool[osd(t)]) /\ pool[osd(t)].conns = <<>>
  <2>1. PICK rec : rec = [th[t] EXCEPT !.pc = "make"] BY Zenon
  <2>2. /\ rec \in ThreadRecord /\ rec.pc = "make" /\ rec.conn = th[t].conn
        /\ rec.plan = th[t].plan /\ rec.todo = th[t].todo /\ rec.asked = th[t].asked
        /\ rec.got = th[t].got
    BY <1>1, <2>1, Zenon DEF ThreadRecord
  <2>3. Goes(t, rec) /\ UNCHANGED pool /\ th'[t] = rec
    BY <1>3, <2>1, GoesTo, Zenon DEF GetConnection, To
  <2>4. osd(t)' = osd(t) BY <2>2, <2>3, Zenon DEF osd
  <2>5. HoldInv(t)' /\ ExchangeInv(t)' /\ ProgressInv(t)'
    BY <1>1, <2>2, <2>3, <2>4, Zenon DEF HoldInv, ExchangeInv, ProgressInv, Holding, Busy
  <2> QED BY <1>1, <2>2, <2>3, <2>5, StepInv, StaysAsIs, Zenon
<1>4. CASE ~disqualified(pool[osd(t)]) /\ pool[osd(t)].conns # <<>>
  <2>1. /\ Goes(t, [th[t] EXCEPT !.pc = "slice", !.conn = pool[osd(t)].conns[1]])
        /\ pool' = [pool EXCEPT ![osd(t)].conns = pop_(@)]
    BY <1>4, Zenon DEF GetConnection
  <2> QED BY <1>1, <1>4, <2>1, PopInv, Zenon
<1> QED BY <1>2, <1>3, <1>4, Zenon

(* Whatever a connection holds, it is a connection: records of the three     *)
(* kinds that steps put in its place.                                        *)
LEMMA ConnRecords ==
    /\ NoJob \in JobRecord /\ Free \in ConnRecord /\ Free.st = "free" /\ Len(Free.req) = 0
    /\ \A o \in Osd : /\ Opened(o) \in ConnRecord /\ Opened(o).st = "open" /\ Opened(o).osd = o
                      /\ Opened(o).req = <<>> /\ Opened(o).inp = <<>>
                      /\ Opened(o).job.left = <<>>
<1>1. NoJob \in JobRecord /\ NoJob.left = <<>> BY DEF NoJob, JobRecord
<1>2. <<>> \in Seq(Slice) /\ <<>> \in Seq(Item) OBVIOUS
<1>3. /\ Free \in ConnRecord /\ Free.st = "free" /\ Free.req = <<>> /\ Free.inp = <<>>
      /\ Free.job = NoJob
  BY <1>1, <1>2, Zenon DEF Free, ConnRecord
<1>4. Len(Free.req) = 0 BY <1>3
<1>5. \A o \in Osd : /\ Opened(o) \in ConnRecord /\ Opened(o).st = "open" /\ Opened(o).osd = o
                     /\ Opened(o).req = <<>> /\ Opened(o).inp = <<>> /\ Opened(o).job = NoJob
  BY <1>3, Zenon DEF Opened, ConnRecord
<1> QED BY <1>1, <1>3, <1>4, <1>5, Zenon

(* A new connection is nobody's but the thread's that made it. *)
LEMMA MakeOneInv ==
    ASSUME ReadInv, NEW t \in Thread, MakeOne(t)
    PROVE  ReadInv'
<1>1. /\ th[t] \in ThreadRecord /\ th[t].conn = NoConn /\ th[t].plan # <<>> /\ th[t].pc = "make"
      /\ WantedOf(th[t].asked) = th[t].got \union Wanted(osd(t), th[t].todo)
                                           \union WantedOf(Tail(th[t].plan))
      /\ UNCHANGED pool
  BY Records, Zenon DEF ReadInv, HoldInv, ProgressInv, Holding, Busy, MakeOne
<1>2. CASE Ends(t, -2) /\ UNCHANGED conn BY <1>1, <1>2, EndsInv, Zenon
<1>3. ASSUME NEW c \in Conn, conn[c].st = "free", conn' = [conn EXCEPT ![c] = Opened(osd(t))],
             Goes(t, [th[t] EXCEPT !.pc = "slice", !.conn = c])
      PROVE  ReadInv'
  <2>1. PICK o \in Osd : o = osd(t) BY <1>1, BusyOsd, Zenon DEF ReadInv
  <2>2. PICK rec : rec = [th[t] EXCEPT !.pc = "slice", !.conn = c] BY Zenon
  <2>3. /\ rec \in ThreadRecord /\ rec.pc = "slice" /\ rec.conn = c /\ rec.plan = th[t].plan
        /\ rec.todo = th[t].todo /\ rec.asked = th[t].asked /\ rec.got = th[t].got
    BY <1>1, <2>2, Zenon DEF ThreadRecord
  <2>4. Goes(t, rec) /\ th'[t] = rec BY <1>3, <2>2, GoesTo, Zenon
  <2>5. /\ pool \in [Osd -> PoolRecord] /\ conn \in [Conn -> ConnRecord]
        /\ th \in [Thread -> ThreadRecord]
    BY Zenon DEF ReadInv, ReadTypeOK
  <2>6. /\ conn'[c] = Opened(o) /\ \A d \in Conn : d # c => conn'[d] = conn[d]
        /\ conn' \in [Conn -> ConnRecord]
    BY <1>3, <2>1, <2>5, ConnRecords, Zenon
  <2>7. /\ conn'[c].st = "open" /\ conn'[c].osd = o /\ conn'[c].req = <<>>
        /\ conn'[c].inp = <<>> /\ conn'[c].job.left = <<>>
    BY <2>6, ConnRecords, Zenon
  <2>8. ReadTypeOK' BY <1>1, <2>3, <2>4, <2>5, <2>6, HandsAfter, Zenon DEF ReadTypeOK
  <2>9. (\A u \in Thread : th[u].conn # c) /\ \A p \in Osd : c \notin Elements(pool[p].conns)
    BY <1>3, Zenon DEF ReadInv, ConnectionsHaveOneOwner
  <2>10. ConnectionsHaveOneOwner'
    <3>1. /\ Owned(Hands, Pools, Existing) /\ Pools \in [Osd -> Seq(Conn)]
          /\ Hands \in [Thread -> Conn \union {NoConn}]
          /\ Hands[t] = NoConn /\ Existing \in SUBSET Conn /\ c \notin Existing
      BY <1>1, <1>3, OwnedBefore, Zenon DEF ReadInv, Hands, Existing
    <3>2. PICK hd, cs, ex : /\ hd = [Hands EXCEPT ![t] = c] /\ cs = Pools
                            /\ ex = Existing \union {c}
      BY Zenon
    <3>3. Owned(hd, cs, ex) BY <3>1, <3>2, MakeOwned, Zenon
    <3>4. \A u \in Thread : th'[u].conn = hd[u] BY <2>3, <2>4, <3>2, HandsAfter
    <3>5. \A p \in Osd : pool'[p].conns = cs[p] BY <1>1, <3>2, Zenon DEF Pools
    <3>6. \A d \in Conn : conn'[d].st # "free" <=> d \in ex BY <2>6, <2>7, <3>2, Zenon DEF Existing
    <3> QED BY <2>8, <3>3, <3>4, <3>5, <3>6, OwnedAfter, Zenon
  <2>11. PooledConnectionsAreIdle'
    <3>1. \A d \in Conn : Len(conn'[d].req) <= 1
      BY <2>6, <2>7 DEF ReadInv, PooledConnectionsAreIdle
    <3>2. ASSUME NEW p \in Osd, NEW d \in Elements(pool[p].conns) PROVE conn'[d] = conn[d]
      BY <2>5, <2>6, <2>9, ElementsAre DEF PoolRecord
    <3> QED BY <1>1, <3>1, <3>2, Zenon DEF ReadInv, PooledConnectionsAreIdle
  <2>12. PoolsFitCapacity' BY <1>1, SamePools, Zenon DEF ReadInv
  <2>13. HoldInv(t)' /\ ExchangeInv(t)' /\ ProgressInv(t)'
    <3>1. osd(t)' = o BY <2>1, <2>3, <2>4, Zenon DEF osd
    <3>2. c # NoConn BY ReadAssumption, Zenon
    <3>3. HoldInv(t)' BY <3>1, <3>2, <1>1, <2>3, <2>4, <2>7, Zenon DEF HoldInv, Holding
    <3>4. Quiet(c)' BY <2>7, Zenon DEF Quiet
    <3>5. ExchangeInv(t)' BY <3>4, <2>3, <2>4, Zenon DEF ExchangeInv
    <3>6. ProgressInv(t)' BY <3>1, <1>1, <2>1, <2>3, <2>4, Zenon DEF ProgressInv, Busy, Holding
    <3> QED BY <3>3, <3>5, <3>6, Zenon
  <2>14. \A u \in Thread : u # t /\ th[u].conn # NoConn => conn'[th[u].conn] = conn[th[u].conn]
    BY <2>5, <2>6, <2>9, Zenon DEF ThreadRecord
  <2>15. pool' \in [Osd -> PoolRecord] BY <1>1, <2>5, Zenon
  <2> QED BY <2>3, <2>4, <2>6, <2>10, <2>11, <2>12, <2>13, <2>14, <2>15, MoveInv, Zenon
<1>4. CASE /\ \E c \in Conn : conn[c].st = "free"
           /\ LET c == CHOOSE c \in Conn : conn[c].st = "free"
              IN  /\ conn' = [conn EXCEPT ![c] = Opened(osd(t))]
                  /\ Goes(t, [th[t] EXCEPT !.pc = "slice", !.conn = c])
  <2>1. PICK c : c = CHOOSE d \in Conn : conn[d].st = "free" BY Zenon
  <2>2. c \in Conn /\ conn[c].st = "free" BY <1>4, <2>1, Zenon
  <2>3. /\ conn' = [conn EXCEPT ![c] = Opened(osd(t))]
        /\ Goes(t, [th[t] EXCEPT !.pc = "slice", !.conn = c])
    BY <1>4, <2>1, Zenon
  <2> QED BY <1>3, <2>2, <2>3, Zenon
<1> QED BY <1>2, <1>4, Zenon DEF MakeOne

(* The connection of a failed read is closed, and nothing else is. *)
LEMMA CountFailureInv ==
    ASSUME ReadInv, NEW t \in Thread, CountFailure(t)
    PROVE  ReadInv'
<1>1. th[t].pc = "report" /\ th[t].pc \in Holding /\ th[t] \in ThreadRecord
  BY Records, Zenon DEF CountFailure, Holding, ReadInv
<1>2. PICK c \in Conn : c = th[t].conn BY <1>1, HeldApart, Zenon
<1>3. PICK o \in Osd : o = osd(t) BY <1>1, HeldApart, Zenon
<1>4. /\ \A u \in Thread : u # t => th[u].conn # c
      /\ \A p \in Osd : c \notin Elements(pool[p].conns)
  BY <1>1, <1>2, HeldApart, Zenon
<1>5. PICK rec : rec = [th[t] EXCEPT !.pc = "idle", !.plan = <<>>, !.todo = <<>>,
                                     !.conn = NoConn, !.rc = -1]
  BY Zenon
<1>6. rec \in ThreadRecord /\ rec.pc = "idle" /\ rec.conn = NoConn /\ rec.rc # 0
  <2>1. PICK rc \in {-1, -2} : rc = -1 BY Zenon
  <2>2. rec = [th[t] EXCEPT !.pc = "idle", !.plan = <<>>, !.todo = <<>>, !.conn = NoConn, !.rc = rc]
    BY <1>5, <2>1, Zenon
  <2>3. rec \in ThreadRecord BY <1>1, <2>2, EmptyTyped, Zenon DEF ThreadRecord
  <2>4. rec.pc = "idle" /\ rec.conn = NoConn /\ rec.rc = rc BY <1>1, <2>2, Zenon DEF ThreadRecord
  <2> QED BY <2>3, <2>4
<1>7. Goes(t, rec) /\ th'[t] = rec BY <1>5, GoesTo, Zenon DEF CountFailure, Ends
<1>8. pool' = [pool EXCEPT ![o].failures = th[t].seen + 1] /\ conn' = [conn EXCEPT ![c] = Free]
  BY <1>2, <1>3, Zenon DEF CountFailure
<1>9. pool \in [Osd -> PoolRecord] /\ conn \in [Conn -> ConnRecord]
  BY Zenon DEF ReadInv, ReadTypeOK
<1>10. /\ pool' \in [Osd -> PoolRecord]
       /\ \A p \in Osd : pool'[p].conns = pool[p].conns /\ pool'[p].capacity = pool[p].capacity
  <2>1. th[t].seen + 1 \in Nat BY <1>1 DEF ThreadRecord
  <2>2. PICK r : r = [pool[o] EXCEPT !.failures = th[t].seen + 1] BY Zenon
  <2>3. r \in PoolRecord /\ r.conns = pool[o].conns /\ r.capacity = pool[o].capacity
    BY <2>1, <2>2, <1>9, Zenon DEF PoolRecord
  <2>4. pool' = [pool EXCEPT ![o] = r] BY <2>2, <1>8, Zenon
  <2> QED BY <2>3, <2>4, <1>9, Zenon
<1>11. /\ conn'[c] = Free /\ \A d \in Conn : d # c => conn'[d] = conn[d]
       /\ conn' \in [Conn -> ConnRecord]
  BY <1>8, <1>9, ConnRecords, Zenon
<1>12. ReadTypeOK' BY <1>6, <1>7, <1>10, <1>11, HandsAfter, Zenon DEF ReadTypeOK
<1>13. ConnectionsHaveOneOwner'
  <2>1. /\ Owned(Hands, Pools, Existing) /\ Pools \in [Osd -> Seq(Conn)]
        /\ Hands \in [Thread -> Conn \union {NoConn}]
        /\ Hands[t] = c /\ Existing \in SUBSET Conn
    BY <1>2, OwnedBefore, Zenon DEF ReadInv, Hands, Existing
  <2>2. PICK hd, cs, ex : /\ hd = [Hands EXCEPT ![t] = NoConn] /\ cs = Pools
                          /\ ex = Existing \ {c}
    BY Zenon
  <2>3. Owned(hd, cs, ex) BY <2>1, <2>2, DropOwned, Zenon
  <2>4. \A u \in Thread : th'[u].conn = hd[u] BY <1>6, <1>7, <2>2, HandsAfter
  <2>5. \A p \in Osd : pool'[p].conns = cs[p] BY <1>10, <2>2, Zenon DEF Pools
  <2>6. \A d \in Conn : conn'[d].st # "free" <=> d \in ex
    BY <1>11, <2>2, ConnRecords, Zenon DEF Existing
  <2> QED BY <1>12, <2>3, <2>4, <2>5, <2>6, OwnedAfter, Zenon
<1>14. PooledConnectionsAreIdle'
  <2>1. \A d \in Conn : Len(conn'[d].req) <= 1
    BY <1>11, ConnRecords DEF ReadInv, PooledConnectionsAreIdle
  <2>2. ASSUME NEW p \in Osd, NEW d \in Elements(pool[p].conns) PROVE conn'[d] = conn[d]
    <3>1. pool[p].conns \in Seq(Conn) BY <1>9, Zenon DEF PoolRecord
    <3>2. d \in Conn BY <3>1, ElementsAre, Zenon
    <3> QED BY <3>2, <1>4, <1>11, Zenon
  <2> QED BY <1>10, <2>1, <2>2 DEF ReadInv, PooledConnectionsAreIdle
<1>15. PoolsFitCapacity' BY <1>10, SamePools, Zenon DEF ReadInv
<1>16. HoldInv(t)' /\ ExchangeInv(t)' /\ ProgressInv(t)'
  BY <1>6, <1>7, Zenon DEF HoldInv, ExchangeInv, ProgressInv, Holding, Busy
<1>17. \A u \in Thread : u # t /\ th[u].conn # NoConn => conn'[th[u].conn] = conn[th[u].conn]
  <2>1. \A u \in Thread : th[u].conn \in Conn \union {NoConn}
    BY Records, Zenon DEF ReadInv, ThreadRecord
  <2> QED BY <2>1, <1>4, <1>11, Zenon
<1> QED BY <1>6, <1>7, <1>10, <1>11, <1>13, <1>14, <1>15, <1>16, <1>17, MoveInv, Zenon

(* A connection given back is at rest; one the pool has no room for is       *)
(* closed.                                                                   *)
LEMMA ReleaseConnectionInv ==
    ASSUME ReadInv, NEW t \in Thread, ReleaseConnection(t)
    PROVE  ReadInv'
<1>1. /\ th[t].pc = "slice" /\ th[t].pc \in Holding /\ th[t] \in ThreadRecord
      /\ th[t].todo = <<>>
  BY Records, Zenon DEF ReleaseConnection, Holding, ReadInv
<1>2. PICK c \in Conn : c = th[t].conn BY <1>1, HeldApart, Zenon
<1>3. PICK o \in Osd : o = osd(t) BY <1>1, HeldApart, Zenon
<1>4. /\ \A u \in Thread : u # t => th[u].conn # c
      /\ \A p \in Osd : c \notin Elements(pool[p].conns)
      /\ conn[c].osd = o
  BY <1>1, <1>2, <1>3, HeldApart, Zenon
<1>5. Quiet(c) BY <1>1, <1>2, Zenon DEF ReadInv, ExchangeInv
<1>6. /\ th[t].plan \in PerOsd /\ th[t].plan # <<>>
      /\ WantedOf(th[t].asked) = th[t].got \union Wanted(o, <<>>) \union WantedOf(Tail(th[t].plan))
  <2>1. HoldInv(t) /\ ProgressInv(t) BY Zenon DEF ReadInv
  <2>2. th[t].plan \in PerOsd BY <1>1, Zenon DEF ThreadRecord
  <2>3. th[t].plan # <<>> BY <1>1, <2>1, Zenon DEF HoldInv, Busy
  <2>4. WantedOf(th[t].asked) = th[t].got \union Wanted(osd(t), th[t].todo)
                                          \union WantedOf(Tail(th[t].plan))
    BY <1>1, <2>1, Zenon DEF ProgressInv, Holding, Busy
  <2> QED BY <1>1, <1>3, <2>2, <2>3, <2>4, Zenon
<1>7. Tail(th[t].plan) \in PerOsd BY <1>6, TailIs, Zenon DEF PerOsd
<1>8. PICK rec : rec = [th[t] EXCEPT !.pc = "osd", !.plan = Tail(th[t].plan), !.conn = NoConn]
  BY Zenon
<1>9. /\ rec \in ThreadRecord /\ rec.pc = "osd" /\ rec.conn = NoConn
      /\ rec.plan = Tail(th[t].plan) /\ rec.asked = th[t].asked /\ rec.got = th[t].got
  BY <1>1, <1>7, <1>8, Zenon DEF ThreadRecord
<1>10. Goes(t, rec) /\ th'[t] = rec BY <1>8, GoesTo, Zenon DEF ReleaseConnection
<1>11. PICK p : p = push_(pool[o], c) BY Zenon
<1>12. /\ pool' = [pool EXCEPT ![o] = p]
       /\ conn' = [conn EXCEPT ![c] = IF c \in Elements(p.conns) THEN conn[c] ELSE Free]
  BY <1>2, <1>3, <1>11, Zenon DEF ReleaseConnection
<1>13. pool \in [Osd -> PoolRecord] /\ conn \in [Conn -> ConnRecord]
  BY Zenon DEF ReadInv, ReadTypeOK
<1>14. PICK s \in Seq(Conn) : s = pool[o].conns BY <1>13, Zenon DEF PoolRecord
<1>15. /\ <<c>> \o s \in Seq(Conn) /\ Len(<<c>> \o s) = Len(s) + 1 /\ Len(s) \in Nat
       /\ Elements(<<c>> \o s) = {c} \union Elements(s)
  BY ConsIs
<1>16. /\ p \in PoolRecord /\ p.capacity = pool[o].capacity
       /\ p.conns = IF Len(s) < pool[o].capacity THEN <<c>> \o s ELSE s
  BY <1>11, <1>13, <1>14, <1>15, Zenon DEF PoolRecord, push_
<1>17. pool' \in [Osd -> PoolRecord] /\ pool'[o] = p /\ \A q \in Osd : q # o => pool'[q] = pool[q]
  BY <1>12, <1>13, <1>16, Zenon
<1>18. conn' \in [Conn -> ConnRecord] /\ \A d \in Conn : d # c => conn'[d] = conn[d]
  BY <1>12, <1>13, ConnRecords, Zenon
<1>19. ReadTypeOK' BY <1>9, <1>10, <1>17, <1>18, HandsAfter, Zenon DEF ReadTypeOK
<1>20. /\ Owned(Hands, Pools, Existing) /\ Pools \in [Osd -> Seq(Conn)]
       /\ Hands \in [Thread -> Conn \union {NoConn}]
       /\ Hands[t] = c /\ Existing \in SUBSET Conn /\ Pools[o] = s /\ c \in Existing
       /\ \A q \in Osd : Pools[q] = pool[q].conns
  <2>1. conn[c].st # "free" BY <1>1, <1>2, HeldApart, Zenon
  <2> QED BY <1>2, <1>14, <2>1, OwnedBefore, Zenon DEF ReadInv, Hands, Existing, Pools
<1>21. PICK hd : hd = [Hands EXCEPT ![t] = NoConn] BY Zenon
<1>22. \A u \in Thread : th'[u].conn = hd[u] BY <1>9, <1>10, <1>21, HandsAfter
<1>23. /\ ConnectionsHaveOneOwner'
       /\ \A d \in Conn : Len(conn'[d].req) <= 1
       /\ \A d \in Elements(p.conns) : conn'[d] = conn[d] /\ conn[d].osd = o /\ Quiet(d)
  <2>1. \A d \in Elements(s) : d \in Conn /\ d # c /\ conn[d].osd = o /\ Quiet(d)
    BY <1>4, <1>14, ElementsAre DEF ReadInv, PooledConnectionsAreIdle, Quiet
  <2>2. \A d \in Conn : Len(conn[d].req) <= 1 BY Zenon DEF ReadInv, PooledConnectionsAreIdle
  <2>3. CASE Len(s) < pool[o].capacity
    <3>1. p.conns = <<c>> \o s /\ c \in Elements(p.conns) BY <2>3, <1>15, <1>16, Zenon
    <3>2. conn'[c] = conn[c] BY <3>1, <1>12, <1>13, Zenon
    <3>3. \A d \in Conn : conn'[d] = conn[d] BY <3>2, <1>18, Zenon
    <3>4. PICK cs : cs = [Pools EXCEPT ![o] = <<c>> \o s] BY Zenon
    <3>5. Owned(hd, cs, Existing) BY <3>4, <1>20, <1>21, PushOwned, Zenon
    <3>6. \A q \in Osd : pool'[q].conns = cs[q] BY <3>1, <3>4, <1>17, <1>20, Zenon
    <3>7. \A d \in Conn : conn'[d].st # "free" <=> d \in Existing BY <3>3, Zenon DEF Existing
    <3>8. ConnectionsHaveOneOwner' BY <3>5, <3>6, <3>7, <1>19, <1>22, OwnedAfter, Zenon
    <3>9. \A d \in Elements(p.conns) : d \in Conn /\ conn[d].osd = o /\ Quiet(d)
      BY <3>1, <2>1, <1>4, <1>5, <1>15, Zenon
    <3> QED BY <2>2, <3>3, <3>8, <3>9, Zenon
  <2>4. CASE ~(Len(s) < pool[o].capacity)
    <3>1. p.conns = s /\ c \notin Elements(p.conns) BY <2>4, <1>4, <1>14, <1>16, Zenon
    <3>2. conn'[c] = Free BY <3>1, <1>12, <1>13, Zenon
    <3>3. PICK ex : ex = Existing \ {c} BY Zenon
    <3>4. Owned(hd, Pools, ex) BY <3>3, <1>20, <1>21, DropOwned, Zenon
    <3>5. \A q \in Osd : pool'[q].conns = Pools[q] BY <3>1, <1>17, <1>20, Zenon
    <3>6. \A d \in Conn : conn'[d].st # "free" <=> d \in ex
      BY <3>2, <3>3, <1>18, ConnRecords, Zenon DEF Existing
    <3>7. PICK cs : cs = Pools BY Zenon
    <3>8. ConnectionsHaveOneOwner' BY <3>4, <3>5, <3>6, <3>7, <1>19, <1>22, OwnedAfter, Zenon
    <3>9. \A d \in Conn : Len(conn'[d].req) <= 1 BY <3>2, <2>2, <1>18, ConnRecords
    <3> QED BY <3>1, <3>8, <3>9, <2>1, <1>18, Zenon
  <2> QED BY <2>3, <2>4, Zenon
<1>24. PooledConnectionsAreIdle'
  <2>1. ASSUME NEW q \in Osd, NEW d \in Elements(pool'[q].conns)
        PROVE  /\ conn'[d].osd = q /\ conn'[d].req = <<>> /\ conn'[d].inp = <<>>
               /\ conn'[d].job.left = <<>>
    <3>1. CASE q = o BY <3>1, <1>17, <1>23, Zenon DEF Quiet
    <3>2. CASE q # o
      <4>1. d \in Elements(pool[q].conns) /\ pool[q].conns \in Seq(Conn)
        BY <3>2, <1>13, <1>17, Zenon DEF PoolRecord
      <4>2. d \in Conn /\ d # c BY <4>1, <1>4, ElementsAre
      <4>3. conn'[d] = conn[d] BY <4>2, <1>18, Zenon
      <4> QED BY <4>1, <4>3, Zenon DEF ReadInv, PooledConnectionsAreIdle
    <3> QED BY <3>1, <3>2, Zenon
  <2> QED BY <1>23, <2>1, Zenon DEF PooledConnectionsAreIdle
<1>25. PoolsFitCapacity'
  <2>1. \A q \in Osd : Len(pool[q].conns) <= pool[q].capacity /\ pool[q].capacity \in Nat
    BY <1>13, Zenon DEF ReadInv, PoolsFitCapacity, PoolRecord
  <2>2. Len(p.conns) <= p.capacity BY <2>1, <1>14, <1>15, <1>16
  <2> QED BY <2>1, <2>2, <1>17, Zenon DEF PoolsFitCapacity
<1>26. HoldInv(t)' /\ ExchangeInv(t)' /\ ProgressInv(t)'
  <2>1. WantedOf(th[t].asked) = th[t].got \union WantedOf(Tail(th[t].plan))
    BY <1>6, NothingWanted, Zenon
  <2> QED BY <1>9, <1>10, <2>1, Zenon DEF HoldInv, ExchangeInv, ProgressInv, Holding, Busy
<1>27. \A u \in Thread : u # t /\ th[u].conn # NoConn => conn'[th[u].conn] = conn[th[u].conn]
  <2>1. \A u \in Thread : th[u].conn \in Conn \union {NoConn}
    BY Records, Zenon DEF ReadInv, ThreadRecord
  <2> QED BY <2>1, <1>4, <1>18, Zenon
<1> QED BY <1>9, <1>10, <1>17, <1>18, <1>23, <1>24, <1>25, <1>26, <1>27, MoveInv, Zenon

(* A smaller capacity closes connections that nobody has. *)
LEMMA SetCapacityInv ==
    ASSUME ReadInv, NEW o \in Osd, NEW cap \in Capacities, SetCapacity(o, cap)
    PROVE  ReadInv'
<1>1. cap \in Nat BY ReadAssumption, Zenon
<1>2. /\ pool \in [Osd -> PoolRecord] /\ conn \in [Conn -> ConnRecord]
      /\ th \in [Thread -> ThreadRecord] /\ th' = th
  BY Zenon DEF ReadInv, ReadTypeOK, SetCapacity
<1>3. PICK s \in Seq(Conn) : s = pool[o].conns BY <1>2, Zenon DEF PoolRecord
<1>4. PICK left : left = kept(s, cap) BY Zenon
<1>5. left \in Seq(Conn) /\ Len(left) <= cap BY <1>1, <1>4, KeptIs, Zenon
<1>6. /\ pool' = [pool EXCEPT ![o].capacity = cap, ![o].conns = left]
      /\ conn' = [c \in Conn |-> IF c \in Elements(s) \ Elements(left) THEN Free ELSE conn[c]]
  BY <1>3, <1>4, Zenon DEF SetCapacity
<1>7. PICK p : p = [pool[o] EXCEPT !.capacity = cap, !.conns = left] BY Zenon
<1>8. p \in PoolRecord /\ p.capacity = cap /\ p.conns = left
  BY <1>1, <1>2, <1>5, <1>7, Zenon DEF PoolRecord
<1>9. pool' \in [Osd -> PoolRecord] /\ pool'[o] = p /\ \A q \in Osd : q # o => pool'[q] = pool[q]
  <2>1. pool' = [pool EXCEPT ![o] = p] BY <1>2, <1>6, <1>7, Zenon
  <2> QED BY <2>1, <1>2, <1>8, Zenon
<1>10. /\ conn' \in [Conn -> ConnRecord]
       /\ \A c \in Conn : c \in Elements(s) \ Elements(left) => conn'[c] = Free
       /\ \A c \in Conn : c \notin Elements(s) \ Elements(left) => conn'[c] = conn[c]
  BY <1>2, <1>6, ConnRecords, Zenon
<1>11. ReadTypeOK' BY <1>2, <1>9, <1>10, Zenon DEF ReadTypeOK
<1>12. ConnectionsHaveOneOwner' /\ Elements(left) \subseteq Elements(s)
  <2>1. /\ Owned(Hands, Pools, Existing) /\ Pools \in [Osd -> Seq(Conn)]
        /\ Hands \in [Thread -> Conn \union {NoConn}]
        /\ Existing \in SUBSET Conn /\ Pools[o] = s
        /\ \A q \in Osd : Pools[q] = pool[q].conns
    BY <1>3, OwnedBefore, Zenon DEF ReadInv, Existing, Pools
  <2>2. PICK cs, ex, hd : /\ cs = [Pools EXCEPT ![o] = left] /\ hd = Hands
                          /\ ex = Existing \ (Elements(s) \ Elements(left))
    BY Zenon
  <2>3. Owned(hd, cs, ex) BY <1>1, <1>4, <2>1, <2>2, KeepOwned, Zenon
  <2>4. \A u \in Thread : th'[u].conn = hd[u] BY <1>2, <2>2, Zenon DEF Hands
  <2>5. \A q \in Osd : pool'[q].conns = cs[q] BY <1>8, <1>9, <2>1, <2>2, Zenon
  <2>6. \A d \in Conn : conn'[d].st # "free" <=> d \in ex
    BY <1>10, <2>2, ConnRecords, Zenon DEF Existing
  <2>7. ConnectionsHaveOneOwner' BY <1>11, <2>3, <2>4, <2>5, <2>6, OwnedAfter, Zenon
  <2>8. ASSUME NEW x \in Elements(left) PROVE x \in Elements(s)
    <3>1. PICK i \in 1..Len(left) : x = left[i] BY <1>5, ElementsAre, Zenon
    <3>2. PICK j \in 1..Len(s) : x = s[j] BY <1>1, <1>4, <3>1, KeptIs, Zenon
    <3> QED BY <3>2, ElementsAre, Zenon
  <2> QED BY <2>7, <2>8, Zenon
<1>13. PooledConnectionsAreIdle'
  <2>1. \A d \in Conn : Len(conn'[d].req) <= 1
    BY <1>10, ConnRecords, SMTT(30) DEF ReadInv, PooledConnectionsAreIdle
  <2>2. ASSUME NEW q \in Osd, NEW d \in Elements(pool'[q].conns)
        PROVE  /\ conn'[d].osd = q /\ conn'[d].req = <<>> /\ conn'[d].inp = <<>>
               /\ conn'[d].job.left = <<>>
    <3>1. d \in Elements(pool[q].conns) BY <1>3, <1>8, <1>9, <1>12, Zenon
    <3>2. d \in Conn BY <3>1, <1>2, ElementsAre, Zenon DEF PoolRecord
    <3>3. d \notin Elements(s) \ Elements(left)
      <4>1. CASE q = o BY <4>1, <1>8, <1>9, Zenon
      <4>2. CASE q # o
        <5>1. d \notin Elements(s)
          <6> SUFFICES ASSUME d \in Elements(pool[o].conns) PROVE FALSE BY <1>3, Zenon
          <6>1. \A r \in Osd : pool[r].conns \in Seq(Conn) BY <1>2, Zenon DEF PoolRecord
          <6>2. PICK i \in DOMAIN pool[q].conns : d = pool[q].conns[i] BY <3>1, Zenon DEF Elements
          <6>3. PICK j \in DOMAIN pool[o].conns : d = pool[o].conns[j] BY Zenon DEF Elements
          <6> QED BY <4>2, <6>2, <6>3, Zenon DEF ReadInv, ConnectionsHaveOneOwner
        <5> QED BY <5>1, Zenon
      <4> QED BY <4>1, <4>2, Zenon
    <3>4. conn'[d] = conn[d] BY <3>2, <3>3, <1>10, Zenon
    <3> QED BY <3>1, <3>4, Zenon DEF ReadInv, PooledConnectionsAreIdle
  <2> QED BY <2>1, <2>2, Zenon DEF PooledConnectionsAreIdle
<1>14. PoolsFitCapacity'
  <2>1. \A q \in Osd : Len(pool[q].conns) <= pool[q].capacity
    BY Zenon DEF ReadInv, PoolsFitCapacity
  <2> QED BY <2>1, <1>5, <1>8, <1>9, Zenon DEF PoolsFitCapacity
<1>15. ASSUME NEW u \in Thread PROVE HoldInv(u)' /\ ExchangeInv(u)' /\ ProgressInv(u)'
  <2>1. th[u].conn \in Conn \union {NoConn} BY <1>2, Zenon DEF ThreadRecord
  <2>2. th[u].conn \notin Elements(s) BY <1>3, Zenon DEF ReadInv, ConnectionsHaveOneOwner
  <2>3. th[u].conn # NoConn => conn'[th[u].conn] = conn[th[u].conn] BY <2>1, <2>2, <1>10, Zenon
  <2> QED BY <2>3, <1>2, SameThread, Zenon DEF ReadInv
<1> QED BY <1>11, <1>12, <1>13, <1>14, <1>15, Zenon DEF ReadInv

(*------------------------------ the exchange ------------------------------*)

(* A connection that is not closed gets a new record. *)
LEMMA ConnSet ==
    ASSUME ReadInv, NEW c \in Conn, NEW r \in ConnRecord, conn' = [conn EXCEPT ![c] = r],
           conn[c].st # "free", r.st # "free", Len(r.req) <= 1
    PROVE  /\ conn' \in [Conn -> ConnRecord]
           /\ conn'[c] = r
           /\ \A d \in Conn : d # c => conn'[d] = conn[d]
           /\ \A d \in Conn : conn'[d].st = "free" <=> conn[d].st = "free"
           /\ \A d \in Conn : Len(conn'[d].req) <= 1
<1>1. conn \in [Conn -> ConnRecord] /\ \A d \in Conn : Len(conn[d].req) <= 1
  BY Zenon DEF ReadInv, ReadTypeOK, PooledConnectionsAreIdle
<1>2. /\ conn' \in [Conn -> ConnRecord] /\ conn'[c] = r
      /\ \A d \in Conn : d # c => conn'[d] = conn[d]
  BY <1>1, Zenon
<1> QED BY <1>1, <1>2, Zenon

(* A thread that goes to report a failure keeps its connection and no        *)
(* promise.                                                                  *)
LEMMA FailsInv ==
    ASSUME ReadInv, NEW t \in Thread, th[t].pc \in Holding,
           NEW rec \in ThreadRecord, rec.pc \in {"failed", "report"}, rec.conn = th[t].conn,
           rec.plan = th[t].plan, Goes(t, rec), conn'[th[t].conn].osd = conn[th[t].conn].osd
    PROVE  HoldInv(t)' /\ ExchangeInv(t)' /\ ProgressInv(t)'
<1>1. th'[t] = rec BY GoesTo, Zenon
<1>2. osd(t)' = osd(t) BY <1>1, Zenon DEF osd
<1>3. th[t].conn # NoConn /\ th[t].plan # <<>> /\ conn[th[t].conn].osd = osd(t)
  BY Zenon DEF ReadInv, HoldInv, Busy
<1>4. HoldInv(t)' BY <1>1, <1>2, <1>3, Zenon DEF HoldInv, Holding
<1>5. ExchangeInv(t)' BY <1>1, Zenon DEF ExchangeInv
<1>6. ProgressInv(t)' BY <1>1, Zenon DEF ProgressInv, Holding, Busy
<1> QED BY <1>4, <1>5, <1>6, Zenon

(* partial_get sends its request on a connection at rest. *)
LEMMA SendRequestInv ==
    ASSUME ReadInv, NEW t \in Thread, SendRequest(t)
    PROVE  ReadInv'
<1>1. /\ th[t] \in ThreadRecord /\ th[t].pc = "slice" /\ th[t].pc \in Holding
      /\ th[t].todo # <<>> /\ UNCHANGED pool
  BY Records, Zenon DEF ReadInv, Holding, SendRequest
<1>2. PICK c \in Conn : c = th[t].conn BY <1>1, HeldApart, Zenon
<1>3. /\ conn[c].st # "free" /\ conn[c] \in ConnRecord /\ osd(t) \in Osd /\ conn[c].osd = osd(t)
  BY <1>1, <1>2, HeldApart, Zenon
<1>4. Quiet(c) BY <1>1, <1>2, Zenon DEF ReadInv, ExchangeInv
<1>5. CASE conn[c].st = "eof"
  <2>1. PICK rec : rec = [th[t] EXCEPT !.pc = "failed"] BY Zenon
  <2>2. rec \in ThreadRecord /\ rec.pc = "failed" /\ rec.conn = th[t].conn /\ rec.plan = th[t].plan
    BY <1>1, <2>1, Zenon DEF ThreadRecord
  <2>3. Goes(t, rec) /\ UNCHANGED conn BY <1>2, <1>5, <2>1, Zenon DEF SendRequest, To
  <2>4. HoldInv(t)' /\ ExchangeInv(t)' /\ ProgressInv(t)' BY <1>1, <2>2, <2>3, FailsInv, Zenon
  <2> QED BY <1>1, <2>2, <2>3, <2>4, StepInv, StaysAsIs, Zenon
<1>6. CASE conn[c].st # "eof"
  <2>1. PICK rec : rec = [th[t] EXCEPT !.pc = "head"] BY Zenon
  <2>2. /\ rec \in ThreadRecord /\ rec.pc = "head" /\ rec.conn = c /\ rec.plan = th[t].plan
        /\ rec.todo = th[t].todo /\ rec.asked = th[t].asked /\ rec.got = th[t].got
    BY <1>1, <1>2, <2>1, Zenon DEF ThreadRecord
  <2>3. PICK s \in Slice : s = th[t].todo[1] BY <1>1, TailIs, Zenon DEF ThreadRecord
  <2>4. PICK r : r = [conn[c] EXCEPT !.req = Append(conn[c].req, s)] BY Zenon
  <2>5. Goes(t, rec) /\ th'[t] = rec /\ conn' = [conn EXCEPT ![c] = r]
    BY <1>2, <1>6, <2>1, <2>3, <2>4, GoesTo, Zenon DEF SendRequest, To
  <2>6. Append(conn[c].req, s) = <<s>> BY <1>4 DEF Quiet
  <2>7. /\ r \in ConnRecord /\ r.req = <<s>> /\ r.inp = <<>> /\ r.job.left = <<>>
        /\ r.st = "open" /\ r.osd = osd(t)
    <3>1. <<s>> \in Seq(Slice) OBVIOUS
    <3>2. r = [conn[c] EXCEPT !.req = <<s>>] BY <2>4, <2>6, Zenon
    <3>3. /\ r \in ConnRecord /\ r.req = <<s>> /\ r.inp = conn[c].inp /\ r.job = conn[c].job
          /\ r.st = conn[c].st /\ r.osd = conn[c].osd
      BY <1>3, <3>1, <3>2, Zenon DEF ConnRecord
    <3>4. conn[c].st = "open" BY <1>3, <1>6, Zenon DEF ConnRecord
    <3> QED BY <3>3, <3>4, <1>3, <1>4, Zenon DEF Quiet
  <2>8. Len(r.req) <= 1 BY <2>7
  <2>9. /\ conn' \in [Conn -> ConnRecord]
        /\ conn'[c] = r
        /\ \A d \in Conn : d # c => conn'[d] = conn[d]
        /\ \A d \in Conn : conn'[d].st = "free" <=> conn[d].st = "free"
        /\ \A d \in Conn : Len(conn'[d].req) <= 1
    BY <1>3, <2>5, <2>7, <2>8, ConnSet, Zenon
  <2>10. osd(t)' = osd(t) BY <2>2, <2>5, Zenon DEF osd
  <2>11. PICK o : o = osd(t) BY Zenon
  <2>12. Awaited(r, o, s) BY <2>7, Zenon DEF Awaited
  <2>13. ExchangeInv(t)' BY <2>2, <2>3, <2>5, <2>9, <2>10, <2>11, <2>12, Zenon DEF ExchangeInv
  <2>14. HoldInv(t)'
    <3>1. c # NoConn /\ th[t].plan # <<>>
      BY <1>1, ReadAssumption, Zenon DEF ReadInv, HoldInv, Busy
    <3> QED BY <3>1, <1>1, <2>2, <2>5, <2>7, <2>9, <2>10, Zenon DEF HoldInv, Holding
  <2>15. ProgressInv(t)'
    <3>1. ProgressInv(t) BY Zenon DEF ReadInv
    <3> QED BY <3>1, <1>1, <2>2, <2>5, <2>10, Zenon DEF ProgressInv, Holding, Busy
  <2> QED BY <1>1, <1>2, <2>2, <2>5, <2>9, <2>13, <2>14, <2>15, StepInv, StaysAsIs, Zenon
<1> QED BY <1>5, <1>6, Zenon

(* The deadline passes. *)
LEMMA ReadThrowsInv ==
    ASSUME ReadInv, NEW t \in Thread, ReadThrows(t)
    PROVE  ReadInv'
<1>1. th[t] \in ThreadRecord /\ th[t].pc \in Holding /\ UNCHANGED <<pool, conn>>
  BY Records, Zenon DEF ReadInv, Holding, ReadThrows
<1>2. PICK rec : rec = [th[t] EXCEPT !.pc = "failed"] BY Zenon
<1>3. rec \in ThreadRecord /\ rec.pc = "failed" /\ rec.conn = th[t].conn /\ rec.plan = th[t].plan
  BY <1>1, <1>2, Zenon DEF ThreadRecord
<1>4. Goes(t, rec) BY <1>2, Zenon DEF ReadThrows, To
<1>5. HoldInv(t)' /\ ExchangeInv(t)' /\ ProgressInv(t)' BY <1>1, <1>3, <1>4, FailsInv, Zenon
<1> QED BY <1>1, <1>3, <1>4, <1>5, StepInv, StaysAsIs, Zenon

(* The first half of report_failure. *)
LEMMA ReportFailureInv ==
    ASSUME ReadInv, NEW t \in Thread, ReportFailure(t)
    PROVE  ReadInv'
<1>1. th[t] \in ThreadRecord /\ th[t].pc \in Holding /\ UNCHANGED conn
  BY Records, Zenon DEF ReadInv, Holding, ReportFailure
<1>2. PICK o \in Osd : o = osd(t) BY <1>1, HeldApart, Zenon
<1>3. pool \in [Osd -> PoolRecord] BY Zenon DEF ReadInv, ReadTypeOK
<1>4. PICK rec : rec = [th[t] EXCEPT !.pc = "report", !.seen = pool[o].failures] BY Zenon
<1>5. rec \in ThreadRecord /\ rec.pc = "report" /\ rec.conn = th[t].conn /\ rec.plan = th[t].plan
  BY <1>1, <1>3, <1>4, Zenon DEF ThreadRecord, PoolRecord
<1>6. Goes(t, rec) /\ pool' = [pool EXCEPT ![o].recent = TRUE]
  BY <1>2, <1>4, Zenon DEF ReportFailure
<1>7. HoldInv(t)' /\ ExchangeInv(t)' /\ ProgressInv(t)' BY <1>1, <1>5, <1>6, FailsInv, Zenon
<1>8. /\ pool' \in [Osd -> PoolRecord]
      /\ \A p \in Osd : pool'[p].conns = pool[p].conns /\ pool'[p].capacity = pool[p].capacity
  BY <1>3, <1>6, Zenon DEF PoolRecord
<1> QED BY <1>1, <1>5, <1>6, <1>7, <1>8, StepInv, StaysAsIs, Zenon

(* The header read, the bytes are next. *)
LEMMA TailArrived ==
    ASSUME NEW o, NEW s \in Slice, NEW r \in ConnRecord, Arrived(r, o, s, 1),
           NEW r2 \in ConnRecord, r2.inp = Tail(r.inp), r2.job = r.job
    PROVE  Arrived(r2, o, s, 0)
<1>1. PICK n \in 0..s.len :
        /\ Len(r.inp) = 1 + n
        /\ \A i \in 1..n : r.inp[1 + i].b = Byte(o, s.key, s.offset + i)
        /\ \/ r.job.left = <<>>
           \/ /\ Len(r.job.left) = s.len - n
              /\ \A i \in 1..(s.len - n) : r.job.left[i] = Byte(o, s.key, s.offset + n + i)
  BY Zenon DEF Arrived
<1>2. r.inp \in Seq(Item) /\ s.len \in Nat BY Zenon DEF ConnRecord, Slice
<1>3. r.inp # <<>> BY <1>1, <1>2
<1>4. /\ Len(Tail(r.inp)) = n
      /\ \A i \in 1..n : Tail(r.inp)[i] = r.inp[i + 1]
  BY <1>1, <1>2, <1>3, TailIs
<1>5. Len(r2.inp) = 0 + n BY <1>4
<1>6. \A i \in 1..n : r2.inp[0 + i].b = Byte(o, s.key, s.offset + i)
  <2> TAKE i \in 1..n
  <2>1. 0 + i = i /\ 1 + i = i + 1 OBVIOUS
  <2> QED BY <2>1, <1>1, <1>4, Zenon
<1> QED BY <1>1, <1>5, <1>6, Zenon DEF Arrived

(* As many bytes as were asked for are the bytes that were asked for, and    *)
(* the last ones.                                                            *)
LEMMA AllArrived ==
    ASSUME NEW o, NEW s \in Slice, NEW r \in ConnRecord, Arrived(r, o, s, 0),
           Len(r.inp) >= s.len
    PROVE  /\ Len(r.inp) = s.len /\ r.job.left = <<>>
           /\ [i \in 1..s.len |-> r.inp[i].b] = Bytes(o, s)
<1>1. PICK n \in 0..s.len :
        /\ Len(r.inp) = 0 + n
        /\ \A i \in 1..n : r.inp[0 + i].b = Byte(o, s.key, s.offset + i)
        /\ \/ r.job.left = <<>>
           \/ Len(r.job.left) = s.len - n
  BY Zenon DEF Arrived
<1>2. s.len \in Nat /\ r.job.left \in Seq(OneByte) BY Zenon DEF Slice, ConnRecord, JobRecord
<1>3. n = s.len BY <1>1, <1>2
<1>4. r.job.left = <<>>
  <2>1. \A q \in Seq(OneByte) : Len(q) = 0 => q = <<>> OBVIOUS
  <2>2. s.len - n = 0 BY <1>2, <1>3
  <2>3. r.job.left = <<>> \/ Len(r.job.left) = 0 BY <1>1, <2>2, Zenon
  <2> QED BY <2>1, <2>3, <1>2, Zenon
<1>5. \A i \in 1..s.len : r.inp[i].b = Byte(o, s.key, s.offset + i)
  <2> TAKE i \in 1..s.len
  <2>1. 0 + i = i OBVIOUS
  <2> QED BY <2>1, <1>1, <1>3, Zenon
<1> QED BY <1>1, <1>2, <1>3, <1>4, <1>5 DEF Bytes

(* What has arrived stays when the rest is lost. *)
LEMMA LostArrived ==
    ASSUME NEW o, NEW s, NEW k, NEW r, Arrived(r, o, s, k), NEW r2, r2.inp = r.inp,
           r2.job.left = <<>> \/ r2.job.left = r.job.left
    PROVE  Arrived(r2, o, s, k)
BY Zenon DEF Arrived

(* read_message: the thread's connection keeps what follows the header. *)
LEMMA ReadHeaderInv ==
    ASSUME ReadInv, NEW t \in Thread, ReadHeader(t)
    PROVE  ReadInv'
<1>1. /\ th[t] \in ThreadRecord /\ th[t].pc = "head" /\ th[t].pc \in Holding
      /\ th[t].todo # <<>> /\ UNCHANGED pool /\ conn[th[t].conn].inp # <<>>
  BY Records, Zenon DEF ReadInv, HoldInv, Holding, ReadHeader
<1>2. PICK c \in Conn : c = th[t].conn BY <1>1, HeldApart, Zenon
<1>3. conn[c].st # "free" /\ conn[c] \in ConnRecord /\ conn[c].osd = osd(t)
  BY <1>1, <1>2, HeldApart, Zenon
<1>4. PICK s \in Slice : s = th[t].todo[1] BY <1>1, TailIs, Zenon DEF ThreadRecord
<1>5. PICK o : o = osd(t) BY Zenon
<1>6. Awaited(conn[c], o, s) BY <1>1, <1>2, <1>4, <1>5, Zenon DEF ReadInv, ExchangeInv
<1>7. conn[c].req = <<>> /\ conn[c].inp[1].k = "header" /\ Arrived(conn[c], o, s, 1)
  BY <1>1, <1>2, <1>6, Zenon DEF Awaited
<1>8. PICK r : r = [conn[c] EXCEPT !.inp = Tail(conn[c].inp)] BY Zenon
<1>9. /\ r \in ConnRecord /\ r.req = <<>> /\ r.inp = Tail(conn[c].inp) /\ r.job = conn[c].job
      /\ r.st # "free" /\ r.osd = conn[c].osd
  <2>1. Tail(conn[c].inp) \in Seq(Item) BY <1>1, <1>2, <1>3, TailIs, Zenon DEF ConnRecord
  <2> QED BY <2>1, <1>3, <1>7, <1>8, Zenon DEF ConnRecord
<1>10. Arrived(r, o, s, 0) BY <1>3, <1>7, <1>9, TailArrived, Zenon
<1>11. conn' = [conn EXCEPT ![c] = r] BY <1>2, <1>8, Zenon DEF ReadHeader
<1>12. /\ conn' \in [Conn -> ConnRecord]
       /\ conn'[c] = r
       /\ \A d \in Conn : d # c => conn'[d] = conn[d]
       /\ \A d \in Conn : conn'[d].st = "free" <=> conn[d].st = "free"
       /\ \A d \in Conn : Len(conn'[d].req) <= 1
  <2>1. Len(r.req) <= 1 BY <1>9
  <2> QED BY <2>1, <1>3, <1>9, <1>11, ConnSet, Zenon
<1>13. CASE To(t, "failed")
  <2>1. PICK rec : rec = [th[t] EXCEPT !.pc = "failed"] BY Zenon
  <2>2. rec \in ThreadRecord /\ rec.pc = "failed" /\ rec.conn = th[t].conn /\ rec.plan = th[t].plan
    BY <1>1, <2>1, Zenon DEF ThreadRecord
  <2>3. Goes(t, rec) BY <1>13, <2>1, Zenon DEF To
  <2>4. HoldInv(t)' /\ ExchangeInv(t)' /\ ProgressInv(t)'
    BY <1>1, <1>2, <1>9, <1>12, <2>2, <2>3, FailsInv, Zenon
  <2> QED BY <1>1, <1>2, <1>12, <2>2, <2>3, <2>4, StepInv, StaysAsIs, Zenon
<1>14. CASE To(t, "bytes")
  <2>1. PICK rec : rec = [th[t] EXCEPT !.pc = "bytes"] BY Zenon
  <2>2. /\ rec \in ThreadRecord /\ rec.pc = "bytes" /\ rec.conn = c /\ rec.plan = th[t].plan
        /\ rec.todo = th[t].todo /\ rec.asked = th[t].asked /\ rec.got = th[t].got
    BY <1>1, <1>2, <2>1, Zenon DEF ThreadRecord
  <2>3. Goes(t, rec) /\ th'[t] = rec BY <1>14, <2>1, GoesTo, Zenon DEF To
  <2>4. osd(t)' = o BY <1>5, <2>2, <2>3, Zenon DEF osd
  <2>5. ExchangeInv(t)' BY <1>4, <1>9, <1>10, <1>12, <2>2, <2>3, <2>4, Zenon DEF ExchangeInv
  <2>6. HoldInv(t)'
    <3>1. c # NoConn /\ th[t].plan # <<>>
      BY <1>1, ReadAssumption, Zenon DEF ReadInv, HoldInv, Busy
    <3> QED BY <3>1, <1>1, <1>3, <1>5, <1>9, <1>12, <2>2, <2>3, <2>4, Zenon DEF HoldInv, Holding
  <2>7. ProgressInv(t)'
    <3>1. ProgressInv(t) BY Zenon DEF ReadInv
    <3> QED BY <3>1, <1>1, <1>5, <2>2, <2>3, <2>4, Zenon DEF ProgressInv, Holding, Busy
  <2> QED BY <1>1, <1>2, <1>12, <2>2, <2>3, <2>5, <2>6, <2>7, StepInv, StaysAsIs, Zenon
<1> QED BY <1>13, <1>14, Zenon DEF ReadHeader

(* read_exact: what the thread adds to its results is the slice it asked     *)
(* for, and nothing is left on the connection.                               *)
LEMMA ReadBytesInv ==
    ASSUME ReadInv, NEW t \in Thread, ReadBytes(t)
    PROVE  ReadInv'
<1>1. /\ th[t] \in ThreadRecord /\ th[t].pc = "bytes" /\ th[t].pc \in Holding
      /\ th[t].todo # <<>> /\ UNCHANGED pool
  BY Records, Zenon DEF ReadInv, HoldInv, Holding, ReadBytes
<1>2. PICK c \in Conn : c = th[t].conn BY <1>1, HeldApart, Zenon
<1>3. conn[c].st # "free" /\ conn[c] \in ConnRecord /\ conn[c].osd = osd(t)
  BY <1>1, <1>2, HeldApart, Zenon
<1>4. PICK s \in Slice : s = th[t].todo[1] BY <1>1, TailIs, Zenon DEF ThreadRecord
<1>5. PICK o \in Osd : o = osd(t) BY <1>1, HeldApart, Zenon
<1>6. conn[c].req = <<>> /\ Arrived(conn[c], o, s, 0)
  BY <1>1, <1>2, <1>4, <1>5, Zenon DEF ReadInv, ExchangeInv
<1>7. Len(conn[c].inp) >= s.len BY <1>2, <1>4, Zenon DEF ReadBytes
<1>8. /\ Len(conn[c].inp) = s.len /\ conn[c].job.left = <<>>
      /\ [i \in 1..s.len |-> conn[c].inp[i].b] = Bytes(o, s)
  BY <1>3, <1>6, <1>7, AllArrived, Zenon
<1>9. SubSeq(conn[c].inp, s.len + 1, Len(conn[c].inp)) = <<>>
  <2>1. PICK q \in Seq(Item) : q = conn[c].inp BY <1>3, Zenon DEF ConnRecord
  <2>2. SubSeq(q, Len(q) + 1, Len(q)) = <<>> OBVIOUS
  <2> QED BY <2>1, <2>2, <1>8, Zenon
<1>10. PICK r : r = [conn[c] EXCEPT !.inp = <<>>] BY Zenon
<1>11. /\ r \in ConnRecord /\ r.req = <<>> /\ r.inp = <<>> /\ r.job.left = <<>>
       /\ r.st # "free" /\ r.osd = conn[c].osd
  <2>1. <<>> \in Seq(Item) OBVIOUS
  <2> QED BY <2>1, <1>3, <1>6, <1>8, <1>10, Zenon DEF ConnRecord
<1>12. conn' = [conn EXCEPT ![c] = r] BY <1>2, <1>4, <1>9, <1>10, Zenon DEF ReadBytes
<1>13. /\ conn' \in [Conn -> ConnRecord]
       /\ conn'[c] = r
       /\ \A d \in Conn : d # c => conn'[d] = conn[d]
       /\ \A d \in Conn : conn'[d].st = "free" <=> conn[d].st = "free"
       /\ \A d \in Conn : Len(conn'[d].req) <= 1
  <2>1. Len(r.req) <= 1 BY <1>11
  <2> QED BY <2>1, <1>3, <1>11, <1>12, ConnSet, Zenon
<1>14. PICK res : res = [osd |-> o, slice |-> s, bytes |-> Bytes(o, s)] BY Zenon
<1>15. res \in Result
  <2>1. Bytes(o, s) \in Seq(OneByte) BY BytesAre, Zenon
  <2> QED BY <2>1, <1>14, Zenon DEF Result
<1>16. PICK rec : rec = [th[t] EXCEPT !.pc = "slice", !.todo = Tail(th[t].todo),
                                      !.got = th[t].got \union {res}]
  BY Zenon
<1>17. /\ rec \in ThreadRecord /\ rec.pc = "slice" /\ rec.conn = c /\ rec.plan = th[t].plan
       /\ rec.todo = Tail(th[t].todo) /\ rec.asked = th[t].asked
       /\ rec.got = th[t].got \union {res}
  <2>1. Tail(th[t].todo) \in Seq(Slice) BY <1>1, TailIs, Zenon DEF ThreadRecord
  <2>2. th[t].got \union {res} \in SUBSET Result BY <1>1, <1>15, Zenon DEF ThreadRecord
  <2> QED BY <2>1, <2>2, <1>1, <1>2, <1>16, Zenon DEF ThreadRecord
<1>18. Goes(t, rec) /\ th'[t] = rec
  <2>1. res = [osd |-> osd(t), slice |-> th[t].todo[1],
               bytes |-> [i \in 1..th[t].todo[1].len |-> conn[th[t].conn].inp[i].b]]
    BY <1>2, <1>4, <1>5, <1>8, <1>14, Zenon
  <2>2. Goes(t, rec) BY <2>1, <1>16, Zenon DEF ReadBytes
  <2> QED BY <2>2, GoesTo, Zenon
<1>19. osd(t)' = o BY <1>5, <1>17, <1>18, Zenon DEF osd
<1>20. Quiet(c)' BY <1>11, <1>13, Zenon DEF Quiet
<1>21. ExchangeInv(t)' BY <1>17, <1>18, <1>20, Zenon DEF ExchangeInv
<1>22. HoldInv(t)'
  <2>1. c # NoConn /\ th[t].plan # <<>>
    BY <1>1, ReadAssumption, Zenon DEF ReadInv, HoldInv, Busy
  <2> QED BY <2>1, <1>3, <1>5, <1>11, <1>13, <1>17, <1>18, <1>19, Zenon DEF HoldInv, Holding
<1>23. ProgressInv(t)'
  <2>1. WantedOf(th[t].asked) = th[t].got \union Wanted(o, th[t].todo)
                                          \union WantedOf(Tail(th[t].plan))
    BY <1>1, <1>5, Zenon DEF ReadInv, ProgressInv, Holding, Busy
  <2>2. Wanted(o, th[t].todo) = {res} \union Wanted(o, Tail(th[t].todo))
    BY <1>1, <1>4, <1>14, WantedStep, Zenon DEF ThreadRecord
  <2>3. WantedOf(th[t].asked) = (th[t].got \union {res}) \union Wanted(o, Tail(th[t].todo))
                                \union WantedOf(Tail(th[t].plan))
    BY <2>1, <2>2, Zenon
  <2> QED BY <2>3, <1>17, <1>18, <1>19, Zenon DEF ProgressInv, Holding, Busy
<1> QED BY <1>1, <1>2, <1>13, <1>17, <1>18, <1>21, <1>22, <1>23, StepInv, StaysAsIs, Zenon

(*--------------------------- the steps of an ASD ---------------------------*)

AtRest(r) == r.req = <<>> /\ r.inp = <<>> /\ r.job.left = <<>>

\* what an ASD may do to a connection, whoever is at its other end
Serves(r, r2) ==
    /\ r2.st = "free" <=> r.st = "free"
    /\ r2.osd = r.osd /\ Len(r2.req) <= 1
    /\ AtRest(r) => AtRest(r2)
    /\ \A s \in Slice : Awaited(r, r.osd, s) => Awaited(r2, r.osd, s)
    /\ \A s \in Slice : r.req = <<>> /\ Arrived(r, r.osd, s, 0) =>
                          r2.req = <<>> /\ Arrived(r2, r.osd, s, 0)

(* Such steps keep ReadInv. *)
LEMMA ServesInv ==
    ASSUME ReadInv, UNCHANGED <<pool, th>>, conn' \in [Conn -> ConnRecord],
           \A c \in Conn : Serves(conn[c], conn'[c])
    PROVE  ReadInv'
<1>1. \A c \in Conn : /\ conn'[c].st = "free" <=> conn[c].st = "free"
                      /\ conn'[c].osd = conn[c].osd /\ Len(conn'[c].req) <= 1
                      /\ Quiet(c) => Quiet(c)'
  BY Zenon DEF Serves, AtRest, Quiet
<1>2. ASSUME NEW t \in Thread PROVE ExchangeInv(t)'
  <2>1. ExchangeInv(t) /\ HoldInv(t) /\ th[t] \in ThreadRecord BY Records, Zenon DEF ReadInv
  <2>2. CASE th[t].pc \notin {"slice", "head", "bytes"} BY <2>2, Zenon DEF ExchangeInv
  <2>3. CASE th[t].pc = "slice"
    <3>1. th[t].conn \in Conn BY <2>3, HeldApart, Zenon DEF Holding
    <3>2. Quiet(th[t].conn)' BY <1>1, <2>1, <2>3, <3>1, Zenon DEF ExchangeInv
    <3> QED BY <2>3, <3>2, Zenon DEF ExchangeInv
  <2>4. CASE th[t].pc \in {"head", "bytes"}
    <3>1. PICK c \in Conn : c = th[t].conn BY <2>4, HeldApart, Zenon DEF Holding
    <3>2. conn[c].osd = osd(t) BY <2>4, <3>1, HeldApart, Zenon DEF Holding
    <3>3. PICK s \in Slice : s = th[t].todo[1]
      BY <2>1, <2>4, TailIs, Zenon DEF ThreadRecord, HoldInv
    <3>4. PICK r, r2, o : r = conn[c] /\ r2 = conn'[c] /\ o = osd(t) BY Zenon
    <3>5. Serves(r, r2) /\ r.osd = o BY <3>2, <3>4, Zenon
    <3>6. CASE th[t].pc = "head"
      <4>1. Awaited(r, o, s) BY <2>1, <3>1, <3>3, <3>4, <3>6, Zenon DEF ExchangeInv
      <4>2. Awaited(r2, o, s) BY <3>5, <4>1, Zenon DEF Serves
      <4>3. osd(t)' = o /\ th'[t] = th[t] BY <3>4, Zenon DEF osd
      <4> QED BY <3>1, <3>3, <3>4, <3>6, <4>2, <4>3, Zenon DEF ExchangeInv
    <3>7. CASE th[t].pc = "bytes"
      <4>1. r.req = <<>> /\ Arrived(r, o, s, 0)
        BY <2>1, <3>1, <3>3, <3>4, <3>7, Zenon DEF ExchangeInv
      <4>2. r2.req = <<>> /\ Arrived(r2, o, s, 0) BY <3>5, <4>1, Zenon DEF Serves
      <4>3. osd(t)' = o /\ th'[t] = th[t] BY <3>4, Zenon DEF osd
      <4> QED BY <3>1, <3>3, <3>4, <3>7, <4>2, <4>3, Zenon DEF ExchangeInv
    <3> QED BY <2>4, <3>6, <3>7, Zenon
  <2> QED BY <2>2, <2>3, <2>4, Zenon
<1> QED BY <1>1, <1>2, AsdStepInv, Zenon

(* The same of a step on one connection. *)
LEMMA ServesOneInv ==
    ASSUME ReadInv, UNCHANGED <<pool, th>>, NEW c \in Conn, NEW r \in ConnRecord,
           Sets(c, r), Serves(conn[c], r)
    PROVE  ReadInv'
<1>1. conn \in [Conn -> ConnRecord] /\ \A d \in Conn : Len(conn[d].req) <= 1
  BY Zenon DEF ReadInv, ReadTypeOK, PooledConnectionsAreIdle
<1>2. /\ conn' \in [Conn -> ConnRecord] /\ conn'[c] = r
      /\ \A d \in Conn : d # c => conn'[d] = conn[d]
  BY <1>1, Zenon DEF Sets
<1>3. \A q : Len(q.req) <= 1 => Serves(q, q) BY Zenon DEF Serves
<1>4. \A d \in Conn : Serves(conn[d], conn'[d])
  <2> TAKE d \in Conn
  <2>1. CASE d = c BY <2>1, <1>2, Zenon
  <2>2. CASE d # c BY <2>2, <1>1, <1>2, <1>3, Zenon
  <2> QED BY <2>1, <2>2, Zenon
<1> QED BY <1>2, <1>4, ServesInv, Zenon

(* A connection that the ASD closes. *)
LEMMA LosesServes ==
    ASSUME NEW r \in ConnRecord, r.st = "open", NEW r2,
           r2 = [r EXCEPT !.st = "eof", !.req = <<>>, !.job = NoJob]
    PROVE  r2 \in ConnRecord /\ Serves(r, r2)
<1>1. NoJob \in JobRecord /\ NoJob.left = <<>> /\ <<>> \in Seq(Slice)
  BY ConnRecords DEF NoJob
<1>2. /\ r2 \in ConnRecord /\ r2.st = "eof" /\ r2.req = <<>> /\ r2.job = NoJob
      /\ r2.inp = r.inp /\ r2.osd = r.osd
  BY <1>1, Zenon DEF ConnRecord
<1>3. \A o, s, k : Arrived(r, o, s, k) => Arrived(r2, o, s, k) BY <1>1, <1>2, LostArrived, Zenon
<1>4. ASSUME NEW s \in Slice, Awaited(r, r.osd, s) PROVE Awaited(r2, r.osd, s)
  <2>1. CASE r.inp = <<>> BY <2>1, <1>1, <1>2, Zenon DEF Awaited
  <2>2. CASE r.inp # <<>> BY <2>2, <1>2, <1>3, <1>4, Zenon DEF Awaited
  <2> QED BY <2>1, <2>2, Zenon
<1>5. Len(r2.req) <= 1 /\ (AtRest(r) => AtRest(r2)) BY <1>1, <1>2 DEF AtRest
<1>6. \A s \in Slice : r.req = <<>> /\ Arrived(r, r.osd, s, 0) =>
                         r2.req = <<>> /\ Arrived(r2, r.osd, s, 0)
  BY <1>2, <1>3, Zenon
<1> QED BY <1>2, <1>4, <1>5, <1>6, Zenon DEF Serves

(* A job that goes on without sending anything. *)
LEMMA PhaseServes ==
    ASSUME NEW r \in ConnRecord, Len(r.req) <= 1, NEW r2,
           NEW pc \in {"send", "dontneed", "returned"}, r2 = [r EXCEPT !.job.pc = pc]
    PROVE  r2 \in ConnRecord /\ Serves(r, r2)
<1>1. PICK j : j = [r.job EXCEPT !.pc = pc] BY Zenon
<1>2. j \in JobRecord /\ j.left = r.job.left BY <1>1, Zenon DEF ConnRecord, JobRecord
<1>3. r2 = [r EXCEPT !.job = j] BY <1>1, Zenon
<1>4. /\ r2 \in ConnRecord /\ r2.st = r.st /\ r2.req = r.req /\ r2.job = j
      /\ r2.inp = r.inp /\ r2.osd = r.osd
  BY <1>2, <1>3, Zenon DEF ConnRecord
<1>5. \A o, s, k : Arrived(r, o, s, k) => Arrived(r2, o, s, k) BY <1>2, <1>4, LostArrived, Zenon
<1>6. ASSUME NEW s \in Slice, Awaited(r, r.osd, s) PROVE Awaited(r2, r.osd, s)
  BY <1>2, <1>4, <1>5, <1>6, Zenon DEF Awaited
<1>7. AtRest(r) => AtRest(r2) BY <1>2, <1>4, Zenon DEF AtRest
<1> QED BY <1>4, <1>5, <1>6, <1>7, Zenon DEF Serves

(* Bytes as they are on the wire. *)
LEMMA DataIs ==
    ASSUME NEW q \in Seq(OneByte)
    PROVE  /\ Data(q) \in Seq(Item) /\ Len(Data(q)) = Len(q)
           /\ \A i \in 1..Len(q) : Data(q)[i].b = q[i]
<1>1. DOMAIN q = 1..Len(q) /\ Len(q) \in Nat OBVIOUS
<1>2. \A i \in 1..Len(q) :
        [k |-> "byte", rc |-> 0, success |-> TRUE, b |-> q[i]] \in Item
  BY DEF Item
<1> QED BY <1>1, <1>2 DEF Data

(* A part of what is left moves to the wire. *)
LEMMA SendArrived ==
    ASSUME NEW o, NEW s \in Slice, NEW k \in {0, 1}, NEW r \in ConnRecord, Arrived(r, o, s, k),
           NEW n \in 1..Len(r.job.left), NEW r2,
           r2.inp = r.inp \o Data(SubSeq(r.job.left, 1, n)),
           r2.job.left = SubSeq(r.job.left, n + 1, Len(r.job.left))
    PROVE  Arrived(r2, o, s, k)
<1>1. PICK inp \in Seq(Item) : inp = r.inp BY Zenon DEF ConnRecord
<1>2. PICK q \in Seq(OneByte) : q = r.job.left BY Zenon DEF ConnRecord, JobRecord
<1>3. Len(q) \in Nat /\ n \in 1..Len(q) /\ q # <<>> /\ s.len \in Nat /\ s.offset \in Nat
  BY <1>2 DEF Slice
<1>4. PICK m \in 0..s.len :
        /\ Len(inp) = k + m
        /\ \A i \in 1..m : inp[k + i].b = Byte(o, s.key, s.offset + i)
        /\ Len(q) = s.len - m
        /\ \A i \in 1..(s.len - m) : q[i] = Byte(o, s.key, s.offset + m + i)
  BY <1>1, <1>2, <1>3, Zenon DEF Arrived
<1>5. /\ SubSeq(q, 1, n) \in Seq(OneByte) /\ Len(SubSeq(q, 1, n)) = n
      /\ \A i \in 1..n : SubSeq(q, 1, n)[i] = q[i]
  BY <1>3
<1>6. /\ SubSeq(q, n + 1, Len(q)) \in Seq(OneByte)
      /\ Len(SubSeq(q, n + 1, Len(q))) = Len(q) - n
      /\ \A i \in 1..(Len(q) - n) : SubSeq(q, n + 1, Len(q))[i] = q[n + i]
  BY <1>3
<1>7. PICK d \in Seq(Item) : d = Data(SubSeq(q, 1, n)) BY <1>5, DataIs, Zenon
<1>8. Len(d) = n /\ \A i \in 1..n : d[i].b = q[i]
  BY <1>5, <1>7, DataIs, Zenon
<1>9. /\ Len(inp \o d) = k + (m + n)
      /\ \A i \in 1..Len(inp) : (inp \o d)[i] = inp[i]
      /\ \A i \in 1..n : (inp \o d)[Len(inp) + i] = d[i]
  <2>1. Len(inp \o d) = Len(inp) + Len(d) OBVIOUS
  <2>2. \A i \in 1..Len(inp) : (inp \o d)[i] = inp[i] OBVIOUS
  <2>3. \A i \in 1..Len(d) : (inp \o d)[Len(inp) + i] = d[i] OBVIOUS
  <2>4. (k + m) + n = k + (m + n) BY <1>3
  <2> QED BY <2>1, <2>2, <2>3, <2>4, <1>4, <1>8, Zenon
<1>10. m + n \in 0..s.len BY <1>3, <1>4
<1>11. ASSUME NEW i \in 1..(m + n)
       PROVE  (inp \o d)[k + i].b = Byte(o, s.key, s.offset + i)
  <2>1. CASE i <= m
    <3>1. k + i \in 1..Len(inp) /\ i \in 1..m BY <2>1, <1>4
    <3> QED BY <3>1, <1>4, <1>9, Zenon
  <2>2. CASE i > m
    <3>1. PICK j \in 1..n : j = i - m BY <2>2
    <3>2. k + i = Len(inp) + j BY <3>1, <1>4
    <3>3. (inp \o d)[k + i].b = q[j] BY <3>1, <3>2, <1>8, <1>9, Zenon
    <3>4. j \in 1..(s.len - m) BY <3>1, <1>3, <1>10
    <3>5. s.offset + m + j = s.offset + i BY <3>1, <1>3
    <3> QED BY <3>3, <3>4, <3>5, <1>4, Zenon
  <2>3. i <= m \/ i > m BY <1>3
  <2> QED BY <2>1, <2>2, <2>3, Zenon
<1>12. ASSUME NEW i \in 1..(s.len - (m + n))
       PROVE  SubSeq(q, n + 1, Len(q))[i] = Byte(o, s.key, s.offset + (m + n) + i)
  <2>1. i \in 1..(Len(q) - n) /\ n + i \in 1..(s.len - m) BY <1>3, <1>4
  <2>2. s.offset + m + (n + i) = s.offset + (m + n) + i BY <1>3
  <2> QED BY <2>1, <2>2, <1>4, <1>6, Zenon
<1>13. Len(SubSeq(q, n + 1, Len(q))) = s.len - (m + n) BY <1>3, <1>4, <1>6
<1>14. PICK N \in 0..s.len : N = m + n BY <1>10, Zenon
<1>15. /\ Len(r2.inp) = k + N
       /\ \A i \in 1..N : r2.inp[k + i].b = Byte(o, s.key, s.offset + i)
       /\ Len(r2.job.left) = s.len - N
       /\ \A i \in 1..(s.len - N) : r2.job.left[i] = Byte(o, s.key, s.offset + N + i)
  BY <1>1, <1>2, <1>7, <1>9, <1>11, <1>12, <1>13, <1>14, Zenon
<1> QED BY <1>15, Zenon DEF Arrived

(* worker_partial_read sends n bytes. *)
LEMMA SendServes ==
    ASSUME NEW r \in ConnRecord, Len(r.req) <= 1, NEW n \in 1..Len(r.job.left), NEW r2,
           r2 = [r EXCEPT !.inp = r.inp \o Data(SubSeq(r.job.left, 1, n)),
                          !.job.left = SubSeq(r.job.left, n + 1, Len(r.job.left))]
    PROVE  r2 \in ConnRecord /\ Serves(r, r2)
<1>1. PICK q \in Seq(OneByte) : q = r.job.left BY Zenon DEF ConnRecord, JobRecord
<1>2. q # <<>> /\ n \in 1..Len(q) BY <1>1
<1>3. SubSeq(q, 1, n) \in Seq(OneByte) /\ SubSeq(q, n + 1, Len(q)) \in Seq(OneByte) BY <1>2
<1>4. PICK d \in Seq(Item) : d = Data(SubSeq(q, 1, n)) BY <1>3, DataIs, Zenon
<1>5. r.inp \in Seq(Item) BY Zenon DEF ConnRecord
<1>6. r.inp \o d \in Seq(Item) /\ (r.inp # <<>> => r.inp \o d # <<>> /\ (r.inp \o d)[1] = r.inp[1])
  BY <1>5
<1>7. PICK j : j = [r.job EXCEPT !.left = SubSeq(q, n + 1, Len(q))] BY Zenon
<1>8. j \in JobRecord /\ j.left = SubSeq(q, n + 1, Len(q))
  BY <1>3, <1>7, Zenon DEF ConnRecord, JobRecord
<1>9. r2 = [r EXCEPT !.inp = r.inp \o d, !.job = j] BY <1>1, <1>4, <1>7, Zenon
<1>10. /\ r2 \in ConnRecord /\ r2.st = r.st /\ r2.req = r.req /\ r2.job = j
       /\ r2.inp = r.inp \o d /\ r2.osd = r.osd
  BY <1>6, <1>8, <1>9, Zenon DEF ConnRecord
<1>11. /\ r2.inp = r.inp \o Data(SubSeq(r.job.left, 1, n))
       /\ r2.job.left = SubSeq(r.job.left, n + 1, Len(r.job.left))
  BY <1>1, <1>4, <1>8, <1>10, Zenon
<1>12. \A o : \A s \in Slice, k \in {0, 1} : Arrived(r, o, s, k) => Arrived(r2, o, s, k)
  BY <1>11, SendArrived, Zenon
<1>13. ASSUME NEW s \in Slice, Awaited(r, r.osd, s) PROVE Awaited(r2, r.osd, s)
  BY <1>1, <1>2, <1>6, <1>10, <1>12, <1>13, Zenon DEF Awaited
<1>14. AtRest(r) => AtRest(r2) BY <1>1, <1>2, Zenon DEF AtRest
<1> QED BY <1>10, <1>12, <1>13, <1>14, Zenon DEF Serves

(* The one request that was waiting is gone when it is answered. *)
LEMMA TailOfOne ==
    ASSUME NEW S, NEW q \in Seq(S), q # <<>>, Len(q) <= 1
    PROVE  Tail(q) = <<>>
<1>1. Tail(q) \in Seq(S) /\ Len(Tail(q)) = Len(q) - 1 /\ Len(q) > 0 /\ Len(q) \in Nat BY TailIs
<1>2. Len(Tail(q)) = 0 BY <1>1
<1>3. \A p \in Seq(S) : Len(p) = 0 => p = <<>> OBVIOUS
<1> QED BY <1>1, <1>2, <1>3, Zenon

(* A header, and the bytes of the slice or a job that is to send them. *)
LEMMA AnswerArrived ==
    ASSUME NEW o \in Osd, NEW s \in Slice, NEW h \in Item, NEW d \in Seq(Item),
           NEW left,
           \/ d = <<>> /\ left = <<>>
           \/ d = Data(Bytes(o, s)) /\ left = <<>>
           \/ d = <<>> /\ left = Bytes(o, s),
           NEW r, r.inp = <<h>> \o d, r.job.left = left
    PROVE  Arrived(r, o, s, 1)
<1>1. PICK a \in Seq(Item) : a = <<h>> \o d BY ConsIs, Zenon
<1>2. Len(a) = Len(d) + 1 /\ Len(d) \in Nat /\ \A i \in 1..Len(d) : a[i + 1] = d[i]
  BY <1>1, ConsIs
<1>3. /\ s.len \in Nat /\ Bytes(o, s) \in Seq(OneByte) /\ Len(Bytes(o, s)) = s.len
      /\ \A i \in 1..s.len : Bytes(o, s)[i] = Byte(o, s.key, s.offset + i)
  BY BytesAre, Zenon
<1>4. CASE d = Data(Bytes(o, s)) /\ left = <<>>
  <2>1. Len(d) = s.len /\ \A i \in 1..s.len : d[i].b = Byte(o, s.key, s.offset + i)
    BY <1>3, <1>4, DataIs, Zenon
  <2>2. s.len \in 0..s.len /\ Len(a) = 1 + s.len BY <2>1, <1>2, <1>3
  <2>3. \A i \in 1..s.len : a[1 + i].b = Byte(o, s.key, s.offset + i)
    <3> TAKE i \in 1..s.len
    <3>1. 1 + i = i + 1 OBVIOUS
    <3> QED BY <3>1, <2>1, <1>2, Zenon
  <2> QED BY <1>1, <1>4, <2>2, <2>3, Zenon DEF Arrived
<1>5. CASE d = <<>>
  <2>1. 0 \in 0..s.len /\ Len(a) = 1 + 0 BY <1>2, <1>3, <1>5
  <2>2. \A i \in 1..0 : a[1 + i].b = Byte(o, s.key, s.offset + i) OBVIOUS
  <2>3. CASE left = <<>> BY <1>1, <2>1, <2>2, <2>3, Zenon DEF Arrived
  <2>4. CASE left = Bytes(o, s)
    <3>1. s.len - 0 = s.len /\ s.offset + 0 = s.offset BY DEF Slice
    <3>2. /\ Len(left) = s.len - 0
          /\ \A i \in 1..(s.len - 0) : left[i] = Byte(o, s.key, s.offset + 0 + i)
      BY <3>1, <2>4, <1>3, Zenon
    <3> QED BY <1>1, <2>1, <2>2, <3>2, Zenon DEF Arrived
  <2>5. left = <<>> \/ left = Bytes(o, s) BY Zenon
  <2> QED BY <2>3, <2>4, <2>5, Zenon
<1> QED BY <1>4, <1>5, Zenon

(* The answer to a request is the answer the thread that sent it awaits. *)
LEMMA AnswerServes ==
    ASSUME NEW r \in ConnRecord, r.osd \in Osd, r.req # <<>>, Len(r.req) <= 1, r.st = "open",
           NEW h \in Item, h.k = "header", NEW d \in Seq(Item), NEW j \in JobRecord,
           \/ d = <<>> /\ j.left = <<>>
           \/ d = Data(Bytes(r.osd, r.req[1])) /\ j.left = <<>>
           \/ d = <<>> /\ j.left = Bytes(r.osd, r.req[1]),
           NEW r2, r2 = [r EXCEPT !.req = Tail(r.req), !.inp = r.inp \o (<<h>> \o d), !.job = j]
    PROVE  r2 \in ConnRecord /\ Serves(r, r2)
<1>1. r.req \in Seq(Slice) /\ r.inp \in Seq(Item) BY Zenon DEF ConnRecord
<1>2. Tail(r.req) = <<>> /\ <<>> \in Seq(Slice) BY <1>1, TailOfOne
<1>3. PICK a \in Seq(Item) : a = <<h>> \o d BY ConsIs, Zenon
<1>4. a # <<>> /\ a[1] = h
  <2>1. Len(a) = Len(d) + 1 /\ Len(d) \in Nat /\ a[1] = h BY <1>3, ConsIs
  <2> QED BY <2>1
<1>5. r.inp \o a \in Seq(Item) /\ (r.inp = <<>> => r.inp \o a = a) BY <1>1
<1>6. /\ r2 \in ConnRecord /\ r2.st = "open" /\ r2.req = <<>> /\ r2.job = j
      /\ r2.inp = r.inp \o a /\ r2.osd = r.osd
  BY <1>2, <1>3, <1>5, Zenon DEF ConnRecord
<1>7. ASSUME NEW s \in Slice, Awaited(r, r.osd, s) PROVE Awaited(r2, r.osd, s)
  <2>1. r.req = <<s>> /\ r.inp = <<>> BY <1>7, Zenon DEF Awaited
  <2>2. r.req[1] = s /\ r2.inp = a BY <2>1, <1>5, <1>6
  <2>3. Arrived(r2, r.osd, s, 1) BY <2>2, <1>3, <1>6, AnswerArrived, Zenon
  <2> QED BY <2>2, <2>3, <1>4, <1>6, Zenon DEF Awaited
<1>8. Len(r2.req) <= 1 BY <1>6
<1> QED BY <1>6, <1>7, <1>8, Zenon DEF Serves, AtRest

(* A connection that exists is to an ASD. *)
LEMMA OpenOsd ==
    ASSUME ReadInv, NEW c \in Conn, conn[c].st # "free"
    PROVE  conn[c].osd \in Osd
<1>1. CASE \E t \in Thread : th[t].conn = c
  <2>1. PICK t \in Thread : th[t].conn = c BY <1>1, Zenon
  <2>2. th[t].pc \in Holding BY <2>1, ReadAssumption, Zenon DEF ReadInv, HoldInv
  <2> QED BY <2>1, <2>2, HeldApart, Zenon
<1>2. CASE \E o \in Osd : c \in Elements(pool[o].conns)
  BY <1>2, Zenon DEF ReadInv, PooledConnectionsAreIdle
<1> QED BY <1>1, <1>2, Zenon DEF ReadInv, ConnectionsHaveOneOwner

(* The ASD answers the request. *)
LEMMA ServeInv ==
    ASSUME ReadInv, NEW c \in Conn, Serve(c)
    PROVE  ReadInv'
<1>1. /\ conn[c].st = "open" /\ conn[c].req # <<>> /\ UNCHANGED <<pool, th>>
  BY Zenon DEF Serve, clientUnchanged
<1>2. PICK r \in ConnRecord : r = conn[c] BY Records, Zenon DEF ReadInv
<1>3. Len(r.req) <= 1 /\ r.osd \in Osd
  BY <1>1, <1>2, OpenOsd, Zenon DEF ReadInv, PooledConnectionsAreIdle
<1>4. \A rc \in {0, 1}, success \in BOOLEAN :
         Header(rc, success) \in Item /\ Header(rc, success).k = "header"
  BY Zenon DEF Header, Item
<1>5. NoJob \in JobRecord /\ NoJob.left = <<>> BY ConnRecords, Zenon DEF NoJob
<1>6. r.req[1] \in Slice BY <1>1, <1>2, TailIs, Zenon DEF ConnRecord
<1>7. Bytes(r.osd, r.req[1]) \in Seq(OneByte) BY <1>3, <1>6, BytesAre, Zenon
<1>8. <<>> \in Seq(Item) /\ \A h : <<h>> \o <<>> = <<h>> OBVIOUS
<1>9. ASSUME NEW h \in Item, h.k = "header", NEW d \in Seq(Item), NEW j \in JobRecord,
             \/ d = <<>> /\ j.left = <<>>
             \/ d = Data(Bytes(r.osd, r.req[1])) /\ j.left = <<>>
             \/ d = <<>> /\ j.left = Bytes(r.osd, r.req[1]),
             Sets(c, [r EXCEPT !.req = Tail(r.req), !.inp = r.inp \o (<<h>> \o d), !.job = j])
      PROVE  ReadInv'
  <2>1. PICK r2 : r2 = [r EXCEPT !.req = Tail(r.req), !.inp = r.inp \o (<<h>> \o d), !.job = j]
    BY Zenon
  <2>2. r2 \in ConnRecord /\ Serves(r, r2) BY <1>1, <1>2, <1>3, <1>9, <2>1, AnswerServes, Zenon
  <2> QED BY <1>1, <1>2, <1>9, <2>1, <2>2, ServesOneInv, Zenon
<1> DEFINE Answered(items, job) ==
             Sets(c, [r EXCEPT !.req = Tail(r.req), !.inp = r.inp \o items, !.job = job])
<1>10. \/ Answered(<<Header(1, FALSE)>>, NoJob)
       \/ Answered(<<Header(0, FALSE)>>, NoJob)
       \/ Answered(<<Header(0, TRUE)>> \o Data(Bytes(r.osd, r.req[1])), NoJob)
       \/ Answered(<<Header(0, TRUE)>>, [pc |-> "open", left |-> Bytes(r.osd, r.req[1])])
  BY <1>2, Zenon DEF Serve
<1>11. CASE Answered(<<Header(1, FALSE)>>, NoJob)
  <2>1. PICK h \in Item : h = Header(1, FALSE) /\ h.k = "header" BY <1>4, Zenon
  <2>2. PICK d \in Seq(Item) : d = <<>> BY <1>8, Zenon
  <2>3. Answered(<<h>> \o d, NoJob) BY <1>8, <1>11, <2>1, <2>2, Zenon
  <2> QED BY <1>5, <1>9, <2>1, <2>2, <2>3, Zenon
<1>12. CASE Answered(<<Header(0, FALSE)>>, NoJob)
  <2>1. PICK h \in Item : h = Header(0, FALSE) /\ h.k = "header" BY <1>4, Zenon
  <2>2. PICK d \in Seq(Item) : d = <<>> BY <1>8, Zenon
  <2>3. Answered(<<h>> \o d, NoJob) BY <1>8, <1>12, <2>1, <2>2, Zenon
  <2> QED BY <1>5, <1>9, <2>1, <2>2, <2>3, Zenon
<1>13. CASE Answered(<<Header(0, TRUE)>> \o Data(Bytes(r.osd, r.req[1])), NoJob)
  <2>1. PICK h \in Item : h = Header(0, TRUE) /\ h.k = "header" BY <1>4, Zenon
  <2>2. PICK d \in Seq(Item) : d = Data(Bytes(r.osd, r.req[1])) BY <1>7, DataIs, Zenon
  <2>3. Answered(<<h>> \o d, NoJob) BY <1>13, <2>1, <2>2, Zenon
  <2> QED BY <1>5, <1>9, <2>1, <2>2, <2>3, Zenon
<1>14. CASE Answered(<<Header(0, TRUE)>>, [pc |-> "open", left |-> Bytes(r.osd, r.req[1])])
  <2>1. PICK h \in Item : h = Header(0, TRUE) /\ h.k = "header" BY <1>4, Zenon
  <2>2. PICK d \in Seq(Item) : d = <<>> BY <1>8, Zenon
  <2>3. PICK j : j = [pc |-> "open", left |-> Bytes(r.osd, r.req[1])] BY Zenon
  <2>4. j \in JobRecord /\ j.left = Bytes(r.osd, r.req[1]) BY <2>3, <1>7, Zenon DEF JobRecord
  <2>5. Answered(<<h>> \o d, j) BY <1>8, <1>14, <2>1, <2>2, <2>3, Zenon
  <2> QED BY <1>9, <2>1, <2>2, <2>4, <2>5, Zenon
<1> QED BY <1>10, <1>11, <1>12, <1>13, <1>14, Zenon

(* The job of a connection goes on, or ends the connection. *)
LEMMA WorkerInv ==
    ASSUME ReadInv, NEW c \in Conn, worker_partial_read(c)
    PROVE  ReadInv'
<1>1. conn[c].st = "open" /\ UNCHANGED <<pool, th>>
  BY Zenon DEF worker_partial_read, clientUnchanged
<1>2. PICK r \in ConnRecord : r = conn[c] BY Records, Zenon DEF ReadInv
<1>3. Len(r.req) <= 1 BY <1>2, Zenon DEF ReadInv, PooledConnectionsAreIdle
<1>4. ASSUME NEW pc \in {"send", "dontneed", "returned"}, Sets(c, [r EXCEPT !.job.pc = pc])
      PROVE  ReadInv'
  <2>1. PICK r2 : r2 = [r EXCEPT !.job.pc = pc] BY Zenon
  <2>2. r2 \in ConnRecord /\ Serves(r, r2) BY <1>3, <2>1, PhaseServes, Zenon
  <2> QED BY <1>1, <1>2, <1>4, <2>1, <2>2, ServesOneInv, Zenon
<1>5. ASSUME Sets(c, [r EXCEPT !.st = "eof", !.req = <<>>, !.job = NoJob]) PROVE ReadInv'
  <2>1. PICK r2 : r2 = [r EXCEPT !.st = "eof", !.req = <<>>, !.job = NoJob] BY Zenon
  <2>2. r2 \in ConnRecord /\ Serves(r, r2) BY <1>1, <1>2, <2>1, LosesServes, Zenon
  <2> QED BY <1>1, <1>2, <1>5, <2>1, <2>2, ServesOneInv, Zenon
<1>6. ASSUME NEW n \in 1..Len(r.job.left),
             Sets(c, [r EXCEPT !.inp = r.inp \o Data(SubSeq(r.job.left, 1, n)),
                               !.job.left = SubSeq(r.job.left, n + 1, Len(r.job.left))])
      PROVE  ReadInv'
  <2>1. PICK r2 : r2 = [r EXCEPT !.inp = r.inp \o Data(SubSeq(r.job.left, 1, n)),
                                 !.job.left = SubSeq(r.job.left, n + 1, Len(r.job.left))]
    BY Zenon
  <2>2. r2 \in ConnRecord /\ Serves(r, r2) BY <1>3, <2>1, SendServes, Zenon
  <2> QED BY <1>1, <1>2, <1>6, <2>1, <2>2, ServesOneInv, Zenon
<1>7. ASSUME NEW x \in {-1, 0, 1}, result_partial_read(c, r, x) PROVE ReadInv'
  <2>1. CASE x = -1
    <3>1. Sets(c, [r EXCEPT !.st = "eof", !.req = <<>>, !.job = NoJob])
      BY <1>7, <2>1 DEF result_partial_read
    <3> QED BY <1>5, <3>1, Zenon
  <2>2. CASE x \in {0, 1}
    <3>1. ~(x < 0) BY <2>2
    <3>2. Sets(c, [r EXCEPT !.job.pc = "returned"]) BY <1>7, <3>1, Zenon DEF result_partial_read
    <3> QED BY <1>4, <3>2, Zenon
  <2> QED BY <1>7, <2>1, <2>2, Zenon
<1>8. \/ \E pc \in {"send", "dontneed"} : Sets(c, [r EXCEPT !.job.pc = pc])
      \/ \E x \in {-1, 0, 1} : result_partial_read(c, r, x)
      \/ \E n \in 1..Len(r.job.left) :
           Sets(c, [r EXCEPT !.inp = r.inp \o Data(SubSeq(r.job.left, 1, n)),
                             !.job.left = SubSeq(r.job.left, n + 1, Len(r.job.left))])
  BY <1>2, Zenon DEF worker_partial_read
<1> QED BY <1>4, <1>6, <1>7, <1>8, Zenon

(* The ASDs restart, and every connection is at its end. *)
LEMMA RestartInv ==
    ASSUME ReadInv, Restart
    PROVE  ReadInv'
<1>1. UNCHANGED <<pool, th>> BY Zenon DEF Restart, clientUnchanged
<1>2. conn \in [Conn -> ConnRecord] /\ \A d \in Conn : Len(conn[d].req) <= 1
  BY Zenon DEF ReadInv, ReadTypeOK, PooledConnectionsAreIdle
<1>3. \A q : Len(q.req) <= 1 => Serves(q, q) BY Zenon DEF Serves
<1>4. \A d \in Conn : conn'[d] \in ConnRecord /\ Serves(conn[d], conn'[d])
  <2> TAKE d \in Conn
  <2>1. CASE conn[d].st = "open"
    <3>1. PICK r \in ConnRecord : r = conn[d] BY <1>2, Zenon
    <3>2. PICK r2 : r2 = [r EXCEPT !.st = "eof", !.req = <<>>, !.job = NoJob] BY Zenon
    <3>3. r2 \in ConnRecord /\ Serves(r, r2) BY <2>1, <3>1, <3>2, LosesServes, Zenon
    <3>4. conn'[d] = r2 BY <2>1, <3>1, <3>2, Zenon DEF Restart
    <3> QED BY <3>1, <3>3, <3>4, Zenon
  <2>2. CASE conn[d].st # "open"
    <3>1. conn'[d] = conn[d] BY <2>2, Zenon DEF Restart
    <3> QED BY <3>1, <1>2, <1>3, Zenon
  <2> QED BY <2>1, <2>2, Zenon
<1>5. conn' \in [Conn -> ConnRecord] BY <1>4, Zenon DEF Restart
<1> QED BY <1>1, <1>4, <1>5, ServesInv, Zenon

(* Time, and what the ASDs store, concern no connection and no thread. *)
LEMMA OutsideInv ==
    ASSUME ReadInv, UNCHANGED <<conn, th>>, pool' \in [Osd -> PoolRecord],
           \A o \in Osd : pool'[o].conns = pool[o].conns /\ pool'[o].capacity = pool[o].capacity
    PROVE  ReadInv'
<1>1. ReadTypeOK' BY Zenon DEF ReadInv, ReadTypeOK
<1>2. ConnectionsHaveOneOwner' BY SameOwners, Zenon DEF ReadInv
<1>3. PoolsFitCapacity' BY SamePools, Zenon DEF ReadInv
<1>4. PooledConnectionsAreIdle' BY Zenon DEF ReadInv, PooledConnectionsAreIdle
<1>5. \A t \in Thread : HoldInv(t)' /\ ExchangeInv(t)' /\ ProgressInv(t)'
  BY SameThread, Zenon DEF ReadInv
<1> QED BY <1>1, <1>2, <1>3, <1>4, <1>5, Zenon DEF ReadInv

(*------------------------------- theorems -------------------------------*)

(* No connections, and threads that have read nothing. *)
LEMMA InitInv ==
    ASSUME Init
    PROVE  ReadInv
<1>1. Idle \in ThreadRecord BY EmptyTyped, Zenon DEF ThreadRecord, Idle
<1>2. /\ \A o \in Osd : pool[o] = [made |-> FALSE, conns |-> <<>>, capacity |-> InitCapacity,
                                   failures |-> 0, recent |-> FALSE]
      /\ \A c \in Conn : conn[c] = Free
      /\ \A t \in Thread : th[t] = Idle
  BY Zenon DEF Init
<1>3. ReadTypeOK
  <2>1. [made |-> FALSE, conns |-> <<>>, capacity |-> InitCapacity,
         failures |-> 0, recent |-> FALSE] \in PoolRecord
    BY ReadAssumption DEF PoolRecord
  <2> QED BY <2>1, <1>1, ConnRecords, Zenon DEF Init, ReadTypeOK
<1>4. \A o \in Osd : pool[o].conns = <<>> /\ pool[o].capacity = InitCapacity BY <1>2
<1>5. Elements(<<>>) = {} BY DEF Elements
<1>6. /\ Idle.pc = "idle" /\ Idle.conn = NoConn /\ Idle.got = {} /\ Idle.asked = <<>>
  BY Zenon DEF Idle
<1>7. ConnectionsHaveOneOwner
  <2>1. \A t \in Thread : th[t].conn = NoConn BY <1>2, <1>6, Zenon
  <2>2. \A c \in Conn : conn[c].st = "free" /\ c # NoConn BY <1>2, ConnRecords, ReadAssumption, Zenon
  <2>3. \A o \in Osd : Elements(pool[o].conns) = {} /\ DOMAIN pool[o].conns = {} BY <1>4, <1>5
  <2> QED BY <2>1, <2>2, <2>3, Zenon DEF ConnectionsHaveOneOwner
<1>8. PooledConnectionsAreIdle BY <1>2, <1>4, <1>5, ConnRecords DEF PooledConnectionsAreIdle
<1>9. PoolsFitCapacity
  <2>1. Len(<<>>) = 0 BY Zenon
  <2> QED BY <2>1, <1>4, ReadAssumption DEF PoolsFitCapacity
<1>10. ASSUME NEW t \in Thread PROVE HoldInv(t) /\ ExchangeInv(t) /\ ProgressInv(t)
  BY <1>2, <1>6, NothingWanted, Zenon DEF HoldInv, ExchangeInv, ProgressInv, Holding, Busy
<1> QED BY <1>3, <1>7, <1>8, <1>9, <1>10, Zenon DEF ReadInv

(* Every step of a thread, of a pool and of an ASD keeps ReadInv. *)
LEMMA NextInv ==
    ASSUME ReadInv, [Next]_vars
    PROVE  ReadInv'
<1>1. ASSUME NEW t \in Thread,
             \/ \E plan \in Plans : StartRead(t, plan)
             \/ NextOsd(t) \/ GetConnection(t) \/ MakeOne(t)
             \/ SendRequest(t) \/ ReadHeader(t) \/ ReadBytes(t) \/ ReadThrows(t)
             \/ ReportFailure(t) \/ CountFailure(t) \/ ReleaseConnection(t)
      PROVE  ReadInv'
  BY <1>1, StartReadInv, NextOsdInv, GetConnectionInv, MakeOneInv, SendRequestInv,
     ReadHeaderInv, ReadBytesInv, ReadThrowsInv, ReportFailureInv, CountFailureInv,
     ReleaseConnectionInv, Zenon
<1>2. ASSUME NEW o \in Osd, TimePasses(o) PROVE ReadInv'
  <2>1. pool \in [Osd -> PoolRecord] BY Zenon DEF ReadInv, ReadTypeOK
  <2>2. pool' = [pool EXCEPT ![o].recent = FALSE] /\ UNCHANGED <<conn, th>>
    BY <1>2, Zenon DEF TimePasses
  <2>3. /\ pool' \in [Osd -> PoolRecord]
        /\ \A p \in Osd : pool'[p].conns = pool[p].conns /\ pool'[p].capacity = pool[p].capacity
    BY <2>1, <2>2, Zenon DEF PoolRecord
  <2> QED BY <2>2, <2>3, OutsideInv, Zenon
<1>3. ASSUME NEW o \in Osd, NEW cap \in Capacities, SetCapacity(o, cap) PROVE ReadInv'
  BY <1>3, SetCapacityInv, Zenon
<1>4. ASSUME NEW c \in Conn, Serve(c) \/ worker_partial_read(c) PROVE ReadInv'
  BY <1>4, ServeInv, WorkerInv, Zenon
<1>5. CASE Restart BY <1>5, RestartInv, Zenon
<1>6. ASSUME UNCHANGED <<pool, conn, th>> PROVE ReadInv'
  BY <1>6, StaysAsIs, OutsideInv, Zenon
<1>7. ASSUME NEW blob \in has, Delete(blob) PROVE ReadInv'
  BY <1>6, <1>7, Zenon DEF Delete, clientUnchanged
<1>8. CASE UNCHANGED vars BY <1>6, <1>8, Zenon DEF vars
<1> QED BY <1>1, <1>2, <1>3, <1>4, <1>5, <1>7, <1>8, Zenon DEF Next

(* ReadInv always holds, whatever the numbers of threads, ASDs, connections, *)
(* slices, failures and restarts.                                            *)
THEOREM ReadInvariant == Spec => []ReadInv
BY InitInv, NextInv, PTL DEF Spec

(* A read that returns 0 has the bytes it asked for (partial_get,            *)
(* _read_osd_slices_asd_direct_path).                                        *)
THEOREM ReadsAreRightAlways == Spec => []ReadsAreRight
<1>1. ReadInv => ReadsAreRight
  BY Zenon DEF ReadInv, ProgressInv, ReadsAreRight, WantedOf, Wanted
<1> QED BY <1>1, ReadInvariant, PTL

(* get_connection, release_connection, capacity and the error path share,    *)
(* lose and close twice no connection.                                       *)
THEOREM OneOwnerAlways == Spec => []ConnectionsHaveOneOwner
<1>1. ReadInv => ConnectionsHaveOneOwner BY Zenon DEF ReadInv
<1> QED BY <1>1, ReadInvariant, PTL

(* The connections release_connection puts in a pool are at rest, and an ASD *)
(* never sees a second request on a connection before it answered the first. *)
THEOREM PooledAreIdleAlways == Spec => []PooledConnectionsAreIdle
<1>1. ReadInv => PooledConnectionsAreIdle BY Zenon DEF ReadInv
<1> QED BY <1>1, ReadInvariant, PTL

(* No pool is larger than its capacity, however it is changed.               *)
THEOREM PoolsFitAlways == Spec => []PoolsFitCapacity
<1>1. ReadInv => PoolsFitCapacity BY Zenon DEF ReadInv
<1> QED BY <1>1, ReadInvariant, PTL
=============================================================================
