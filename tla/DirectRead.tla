----------------------------- MODULE DirectRead -----------------------------
(***************************************************************************)
(* Reading fragments straight from the ASDs, the way the C++ client does    *)
(* when it knows where they are: OsdAccess::read_osds_slices, the pool of   *)
(* connections it keeps per ASD (asd_access.cc), the exchange of            *)
(* Asd_client::partial_get, and on the other side the ASD's loop for a      *)
(* connection with the C stub that sends a part of a file                   *)
(* (alba_partial_read_stubs.c).  The threads of the client share the pools. *)
(*                                                                         *)
(* Time is one bit per pool: whether less than 120 seconds have passed      *)
(* since its _failure_time.  The transport is TCP.                          *)
(***************************************************************************)
EXTENDS Integers, Sequences, FiniteSets

CONSTANTS
    Thread, Osd,
    Blobs,         \* the blobs that are stored: <<osd, key>>
    Conn,          \* connections there can be at the same time
    Infos,         \* what OsdAccess may know: osd -> "asd", "other", "unknown"
    Plans,         \* what a read asks for: per_osd, in the order of the map
    Capacities,    \* sizes a pool is given; the first size is InitCapacity
    InitCapacity,
    MaxFailures,   \* 15: failures in a row that disqualify an ASD
    MaxReads,      \* bound: reads of a thread
    MaxRestarts,   \* bound: restarts of the ASDs
    NoConn

ASSUME ReadAssumption ==
    /\ MaxFailures \in Nat \ {0} /\ MaxReads \in Nat /\ MaxRestarts \in Nat
    /\ Capacities \subseteq Nat /\ InitCapacity \in Nat
    /\ NoConn \notin Conn
    /\ Plans \subseteq Seq([osd : Osd, slices : Seq([key : STRING, offset : Nat, len : Nat])])

VARIABLES
    pool,      \* osd -> its ConnectionPool
    conn,      \* connection -> both ends of it
    th,        \* thread -> where it is in which read
    info,      \* osd -> what _osd_maps knows of it
    at,        \* address -> the ASD that listens there
    has,       \* the blobs that are still there
    fadvise,   \* use_fadvise of their configuration
    restarts

vars == <<pool, conn, th, info, at, has, fadvise, restarts>>

Byte(o, k, i) == <<o, k, i>>
Bytes(o, s) == [i \in 1..s.len |-> Byte(o, s.key, s.offset + i)]
NoJob == [pc |-> "none", left |-> <<>>]

Free == [st |-> "free", osd |-> NoConn, req |-> <<>>, inp |-> <<>>, job |-> NoJob]
Opened(o) == [Free EXCEPT !.st = "open", !.osd = o]

(* plan and todo are what is left of the ASDs and of the slices of the      *)
(* first one; asked and got are the read's arguments and results.           *)
Idle == [pc |-> "idle", plan |-> <<>>, conn |-> NoConn, todo |-> <<>>,
         asked |-> <<>>, got |-> {}, rc |-> 0, seen |-> 0, reads |-> 0]

(* The ASD thread t is reading from. *)
osd(t) == th[t].plan[1].osd

(*---------------------------- ConnectionPool ----------------------------*)

(* get_connection_pool makes a pool the first time an ASD is read from,     *)
(* with the address known then, and keeps it.                               *)
get_connection_pool(o) == [pool[o] EXCEPT !.made = TRUE]

disqualified(p) == p.failures >= MaxFailures /\ p.recent

(* Mutant: the connection handed out stays in the pool. *)
pop_copy(conns) == conns

pop_(conns) == Tail(conns)

(* Mutant: a full pool takes one more. *)
push_any(p, c) == [p EXCEPT !.failures = 0, !.conns = <<c>> \o @]

(* release_connection *)
push_(p, c) ==
    [p EXCEPT !.failures = 0,
              !.conns = IF Len(@) < p.capacity THEN <<c>> \o @ ELSE @]

(* capacity(cap): the first cap connections are kept, in reverse order.     *)
kept(conns, cap) ==
    IF Len(conns) > cap THEN [i \in 1..cap |-> conns[cap + 1 - i]] ELSE conns

Elements(s) == {s[i] : i \in DOMAIN s}

(*---------------------------- the C++ threads ----------------------------*)

Goes(t, rec) == th' = [th EXCEPT ![t] = rec]
To(t, pc) == Goes(t, [th[t] EXCEPT !.pc = pc])
Ends(t, rc) == Goes(t, [th[t] EXCEPT !.pc = "idle", !.plan = <<>>, !.todo = <<>>,
                                     !.conn = NoConn, !.rc = rc])
asdUnchanged == UNCHANGED <<info, at, has, fadvise, restarts>>

(* read_osds_slices *)
StartRead(t, plan) ==
    /\ th[t].pc = "idle" /\ th[t].reads < MaxReads
    /\ Goes(t, [Idle EXCEPT !.pc = "osd", !.plan = plan, !.asked = plan,
                            !.reads = th[t].reads + 1])
    /\ UNCHANGED <<pool, conn>> /\ asdUnchanged

(* The next ASD of the map: _find_osd and get_connection_pool.              *)
NextOsd(t) ==
    /\ th[t].pc = "osd"
    /\ IF th[t].plan = <<>> THEN Ends(t, 0) /\ UNCHANGED pool
       ELSE IF info[osd(t)] # "asd" THEN Ends(t, -1) /\ UNCHANGED pool
       ELSE /\ Goes(t, [th[t] EXCEPT !.pc = "get", !.todo = th[t].plan[1].slices])
            /\ pool' = [pool EXCEPT ![osd(t)] = get_connection_pool(osd(t))]
    /\ UNCHANGED conn /\ asdUnchanged

(* get_connection, what it does under the lock. *)
GetConnection(t) ==
    LET p == pool[osd(t)]
    IN  /\ th[t].pc = "get"
        /\ IF disqualified(p) THEN Ends(t, -2) /\ UNCHANGED pool
           ELSE IF p.conns = <<>> THEN To(t, "make") /\ UNCHANGED pool
           ELSE /\ Goes(t, [th[t] EXCEPT !.pc = "slice", !.conn = p.conns[1]])
                /\ pool' = [pool EXCEPT ![osd(t)].conns = pop_(@)]
        /\ UNCHANGED conn /\ asdUnchanged

(* Mutant: whoever answers at the address is taken for the ASD. *)
MakeOneUnchecked(t) ==
    /\ th[t].pc = "make"
    /\ \/ /\ \E c \in Conn : conn[c].st = "free"
          /\ LET c == CHOOSE c \in Conn : conn[c].st = "free"
             IN  /\ conn' = [conn EXCEPT ![c] = Opened(at[osd(t)])]
                 /\ Goes(t, [th[t] EXCEPT !.pc = "slice", !.conn = c])
       \/ Ends(t, -2) /\ UNCHANGED conn
    /\ UNCHANGED pool /\ asdUnchanged

(* make_one_, and init_: whoever listens at the address the pool was made   *)
(* with names itself, and the wrong one is refused.  Not connecting is not  *)
(* reported as a failure.                                                   *)
MakeOne(t) ==
    /\ th[t].pc = "make"
    /\ \/ /\ at[osd(t)] = osd(t)
          /\ \E c \in Conn : conn[c].st = "free"
          /\ LET c == CHOOSE c \in Conn : conn[c].st = "free"
             IN  /\ conn' = [conn EXCEPT ![c] = Opened(osd(t))]
                 /\ Goes(t, [th[t] EXCEPT !.pc = "slice", !.conn = c])
       \/ Ends(t, -2) /\ UNCHANGED conn
    /\ UNCHANGED pool /\ asdUnchanged

(* The loop over the slices, and the request of partial_get.                *)
SendRequest(t) ==
    LET c == th[t].conn
    IN  /\ th[t].pc = "slice" /\ th[t].todo # <<>>
        /\ IF conn[c].st = "eof" THEN To(t, "failed") /\ UNCHANGED conn
           ELSE /\ To(t, "head")
                /\ conn' = [conn EXCEPT ![c].req = Append(@, th[t].todo[1])]
        /\ UNCHANGED pool /\ asdUnchanged

(* read_message and read_partial_get_response: an error is thrown, but      *)
(* success is not looked at.  A message that is no answer parses to         *)
(* anything.                                                                *)
ReadHeader(t) ==
    LET c == th[t].conn
        m == conn[c].inp[1]
    IN  /\ th[t].pc = "head" /\ conn[c].inp # <<>>
        /\ conn' = [conn EXCEPT ![c].inp = Tail(@)]
        /\ \/ (m.k = "header" => m.rc = 0) /\ To(t, "bytes")
           \/ (m.k = "header" => m.rc # 0) /\ To(t, "failed")
        /\ UNCHANGED pool /\ asdUnchanged

(* read_exact of the slice. *)
ReadBytes(t) ==
    LET c == th[t].conn
        slice == th[t].todo[1]
        bytes == [i \in 1..slice.len |-> conn[c].inp[i].b]
    IN  /\ th[t].pc = "bytes" /\ Len(conn[c].inp) >= slice.len
        /\ conn' = [conn EXCEPT ![c].inp = SubSeq(@, slice.len + 1, Len(@))]
        /\ Goes(t, [th[t] EXCEPT !.pc = "slice", !.todo = Tail(@),
                   !.got = @ \union {[osd |-> osd(t), slice |-> slice, bytes |-> bytes]}])
        /\ UNCHANGED pool /\ asdUnchanged

(* The deadline passes, or the ASD has closed the connection and what it    *)
(* sent is too little.                                                      *)
ReadThrows(t) ==
    /\ th[t].pc \in {"head", "bytes"}
    /\ To(t, "failed")
    /\ UNCHANGED <<pool, conn>> /\ asdUnchanged

(* report_failure, which takes no lock: the time and the old count first,   *)
(* then the new count.  The connection goes with it.                        *)
ReportFailure(t) ==
    LET o == osd(t)
    IN  /\ th[t].pc = "failed"
        /\ Goes(t, [th[t] EXCEPT !.pc = "report", !.seen = pool[o].failures])
        /\ pool' = [pool EXCEPT ![o].recent = TRUE]
        /\ UNCHANGED conn /\ asdUnchanged

(* Mutant: a connection that failed goes back to the pool. *)
CountFailureKeep(t) ==
    LET o == osd(t)
    IN  /\ th[t].pc = "report"
        /\ Ends(t, -1)
        /\ pool' = [pool EXCEPT ![o] = [push_(pool[o], th[t].conn) EXCEPT !.failures = th[t].seen + 1]]
        /\ conn' = [conn EXCEPT ![th[t].conn] =
                      IF Len(pool[o].conns) < pool[o].capacity THEN @ ELSE Free]
        /\ asdUnchanged

CountFailure(t) ==
    LET o == osd(t)
    IN  /\ th[t].pc = "report"
        /\ Ends(t, -1)
        /\ pool' = [pool EXCEPT ![o].failures = th[t].seen + 1]
        /\ conn' = [conn EXCEPT ![th[t].conn] = Free]
        /\ asdUnchanged

(* After the last slice, release_connection: a connection that finds the    *)
(* pool full is closed.                                                     *)
ReleaseConnection(t) ==
    LET o == osd(t)
        c == th[t].conn
        p == push_(pool[o], c)
    IN  /\ th[t].pc = "slice" /\ th[t].todo = <<>>
        /\ Goes(t, [th[t] EXCEPT !.pc = "osd", !.plan = Tail(@), !.conn = NoConn])
        /\ pool' = [pool EXCEPT ![o] = p]
        /\ conn' = [conn EXCEPT ![c] = IF c \in Elements(p.conns) THEN @ ELSE Free]
        /\ asdUnchanged

SetCapacity(o, cap) ==
    LET left == kept(pool[o].conns, cap)
    IN  /\ pool[o].made /\ cap # pool[o].capacity
        /\ pool' = [pool EXCEPT ![o].capacity = cap, ![o].conns = left]
        /\ conn' = [c \in Conn |->
                      IF c \in Elements(pool[o].conns) \ Elements(left) THEN Free
                      ELSE conn[c]]
        /\ UNCHANGED th /\ asdUnchanged

(* 120 seconds pass. *)
TimePasses(o) ==
    /\ pool[o].recent
    /\ pool' = [pool EXCEPT ![o].recent = FALSE]
    /\ UNCHANGED <<conn, th>> /\ asdUnchanged

(*-------------------------------- the ASD --------------------------------*)

clientUnchanged == UNCHANGED <<pool, th, info, fadvise>>
Sets(c, rec) == conn' = [conn EXCEPT ![c] = rec]
Header(rc, success) == [k |-> "header", rc |-> rc, success |-> success, b |-> <<>>]
Data(bytes) == [i \in DOMAIN bytes |-> [k |-> "byte", rc |-> 0, success |-> TRUE, b |-> bytes[i]]]

(* One request is read and answered: with an error, that the key is not     *)
(* there, with a value kept in the database, or by a job that sends a part  *)
(* of a file.  An ASD made with write_blobs = false, as tests do, keeps no  *)
(* blobs and sends as many bytes of anything; such an ASD is left out.      *)
Serve(c) ==
    LET slice == conn[c].req[1]
        o == conn[c].osd
        Answer(items, job) == Sets(c, [conn[c] EXCEPT !.req = Tail(@), !.inp = @ \o items,
                                                      !.job = job])
    IN  /\ conn[c].st = "open" /\ conn[c].job.pc \in {"none", "returned"}
        /\ conn[c].req # <<>>
        /\ \/ Answer(<<Header(1, FALSE)>>, NoJob)
           \/ <<o, slice.key>> \notin has /\ Answer(<<Header(0, FALSE)>>, NoJob)
           \/ /\ <<o, slice.key>> \in has
              /\ \/ Answer(<<Header(0, TRUE)>> \o Data(Bytes(o, slice)), NoJob)
                 \/ Answer(<<Header(0, TRUE)>>, [pc |-> "open", left |-> Bytes(o, slice)])
        /\ clientUnchanged /\ UNCHANGED <<at, has, restarts>>

(* result_partial_read: a negative result is raised, and the exception ends *)
(* the loop for the connection; any other is returned.                      *)
result_partial_read(c, rec, result) ==
    Sets(c, IF result < 0 THEN [rec EXCEPT !.st = "eof", !.req = <<>>, !.job = NoJob]
                          ELSE [rec EXCEPT !.job.pc = "returned"])

(* worker_partial_read in three phases: the file is opened and the kernel   *)
(* advised, the bytes are sent, the kernel is advised again.  posix_fadvise *)
(* returns an error number, which is positive.  A sendfile that has to wait *)
(* and a poll that succeeds change nothing.  At the end of a file that is   *)
(* shorter than its slice sendfile returns 0 for ever: a job that does not  *)
(* get on, as any job here may.                                             *)
worker_partial_read(c) ==
    LET job == conn[c].job
        Phase(pc) == Sets(c, [conn[c] EXCEPT !.job.pc = pc])
        Result(r) == result_partial_read(c, conn[c], r)
    IN  /\ conn[c].st = "open"
        /\ \/ /\ job.pc = "open"
              /\ Phase("send") \/ Result(-1) \/ (fadvise /\ Result(1))
           \/ /\ job.pc = "send" /\ job.left # <<>>
              /\ \/ \E n \in 1..Len(job.left) :
                      Sets(c, [conn[c] EXCEPT !.inp = @ \o Data(SubSeq(job.left, 1, n)),
                                 !.job.left = SubSeq(@, n + 1, Len(@))])
                 \/ Result(-1)
           \/ /\ job.pc = "send" /\ job.left = <<>>
              /\ IF fadvise THEN Phase("dontneed") ELSE Result(0)
           \/ /\ job.pc = "dontneed"
              /\ Result(1) \/ Result(0)
        /\ clientUnchanged /\ UNCHANGED <<at, has, restarts>>

(* The ASDs restart, at the address they had or at each other's.            *)
Restart ==
    /\ restarts < MaxRestarts
    /\ restarts' = restarts + 1
    /\ at' \in {f \in [Osd -> Osd] : \A o \in Osd : \E a \in Osd : f[a] = o}
    /\ conn' = [c \in Conn |->
                  IF conn[c].st = "open"
                  THEN [conn[c] EXCEPT !.st = "eof", !.req = <<>>, !.job = NoJob]
                  ELSE conn[c]]
    /\ clientUnchanged /\ UNCHANGED has

(* The fragment is removed, by a collector or after a rewrite. *)
Delete(blob) ==
    /\ has' = has \ {blob}
    /\ clientUnchanged /\ UNCHANGED <<conn, at, restarts>>

(*--------------------------- the specification ---------------------------*)

Init ==
    /\ pool = [o \in Osd |-> [made |-> FALSE, conns |-> <<>>, capacity |-> InitCapacity,
                              failures |-> 0, recent |-> FALSE]]
    /\ conn = [c \in Conn |-> Free]
    /\ th = [t \in Thread |-> Idle]
    /\ info \in Infos
    /\ at = [o \in Osd |-> o]
    /\ has = Blobs
    /\ fadvise \in BOOLEAN
    /\ restarts = 0

Next ==
    \/ \E t \in Thread :
         \/ \E plan \in Plans : StartRead(t, plan)
         \/ NextOsd(t) \/ GetConnection(t) \/ MakeOne(t)
         \/ SendRequest(t) \/ ReadHeader(t) \/ ReadBytes(t) \/ ReadThrows(t)
         \/ ReportFailure(t) \/ CountFailure(t) \/ ReleaseConnection(t)
    \/ \E o \in Osd : TimePasses(o) \/ \E cap \in Capacities : SetCapacity(o, cap)
    \/ \E c \in Conn : Serve(c) \/ worker_partial_read(c)
    \/ Restart
    \/ \E blob \in has : Delete(blob)

Spec == Init /\ [][Next]_vars

(*------------------------------ properties ------------------------------*)

(* A read that returns 0 has, for every slice asked for, the bytes of that  *)
(* slice of that fragment of that ASD: no answer to an earlier request and  *)
(* no other ASD's blob, after failures, restarts, removals and however the  *)
(* threads pass connections to each other (partial_get,                     *)
(* _read_osd_slices_asd_direct_path).                                       *)
ReadsAreRight ==
    \A t \in Thread : th[t].pc = "idle" /\ th[t].rc = 0 =>
      th[t].got = UNION {{[osd |-> a.osd, slice |-> s, bytes |-> Bytes(a.osd, s)] :
                            s \in Elements(a.slices)} : a \in Elements(th[t].asked)}

(* Every connection is in one place, in a thread's hands or in a pool, and  *)
(* no connection that exists is in none: nothing is shared, closed twice or *)
(* leaked by get_connection, release_connection, capacity and the error     *)
(* path.                                                                    *)
ConnectionsHaveOneOwner ==
    /\ \A t, u \in Thread : th[t].conn = th[u].conn /\ th[t].conn # NoConn => t = u
    /\ \A o, p \in Osd : \A i \in DOMAIN pool[o].conns, j \in DOMAIN pool[p].conns :
         pool[o].conns[i] = pool[p].conns[j] => o = p /\ i = j
    /\ \A t \in Thread, o \in Osd : th[t].conn \notin Elements(pool[o].conns)
    /\ \A c \in Conn :
         conn[c].st # "free" <=> \/ \E t \in Thread : th[t].conn = c
                                \/ \E o \in Osd : c \in Elements(pool[o].conns)

(* A connection in a pool is at rest: its last answer has been read to the  *)
(* end and nothing is to come, but for the job that still tells the kernel  *)
(* it does not need the pages.  So the ASD, whose loop asserts that no      *)
(* request comes before the last was answered, never sees two.              *)
PooledConnectionsAreIdle ==
    /\ \A c \in Conn : Len(conn[c].req) <= 1
    /\ \A o \in Osd : \A c \in Elements(pool[o].conns) :
         /\ conn[c].osd = o
         /\ conn[c].req = <<>> /\ conn[c].inp = <<>> /\ conn[c].job.left = <<>>

(* No pool holds more connections than its capacity, also when the capacity *)
(* is lowered while connections are out (release_connection, capacity).     *)
PoolsFitCapacity ==
    \A o \in Osd : Len(pool[o].conns) <= pool[o].capacity

(*------------------------ the inductive invariant ------------------------*)

Slice == [key : STRING, offset : Nat, len : Nat]
PerOsd == Seq([osd : Osd, slices : Seq(Slice)])
OneByte == Osd \X STRING \X Nat
Item == [k : {"header", "byte"}, rc : {0, 1}, success : BOOLEAN, b : OneByte \union {<<>>}]
Result == [osd : Osd, slice : Slice, bytes : Seq(OneByte)]

PoolRecord == [made : BOOLEAN, conns : Seq(Conn), capacity : Nat, failures : Nat,
               recent : BOOLEAN]
JobRecord == [pc : {"none", "open", "send", "dontneed", "returned"}, left : Seq(OneByte)]
ConnRecord == [st : {"free", "open", "eof"}, osd : Osd \union {NoConn}, req : Seq(Slice),
               inp : Seq(Item), job : JobRecord]
ThreadRecord == [pc : {"idle", "osd", "get", "make", "slice", "head", "bytes", "failed",
                       "report"},
                 plan : PerOsd, conn : Conn \union {NoConn}, todo : Seq(Slice),
                 asked : PerOsd, got : SUBSET Result, rc : {0, -1, -2}, seen : Nat,
                 reads : Nat]

ReadTypeOK ==
    /\ pool \in [Osd -> PoolRecord]
    /\ conn \in [Conn -> ConnRecord]
    /\ th \in [Thread -> ThreadRecord]

\* where a thread has a connection, and where it is busy with an ASD
Holding == {"slice", "head", "bytes", "failed", "report"}
Busy == Holding \union {"get", "make"}

\* a thread holds a connection to the ASD it is reading from, and only then
HoldInv(t) ==
    /\ th[t].conn # NoConn <=> th[t].pc \in Holding
    /\ th[t].pc \in Holding => conn[th[t].conn].osd = osd(t)
    /\ th[t].pc \in Busy => th[t].plan # <<>>
    /\ th[t].pc \in {"head", "bytes"} => th[t].todo # <<>>

Quiet(c) == conn[c].req = <<>> /\ conn[c].inp = <<>> /\ conn[c].job.left = <<>>

\* on connection r, after k other items, the first n bytes of s have arrived,
\* and the rest is still to be sent or never will be
Arrived(r, o, s, k) ==
    \E n \in 0..s.len :
      /\ Len(r.inp) = k + n
      /\ \A i \in 1..n : r.inp[k + i].b = Byte(o, s.key, s.offset + i)
      /\ \/ r.job.left = <<>>
         \/ /\ Len(r.job.left) = s.len - n
            /\ \A i \in 1..(s.len - n) : r.job.left[i] = Byte(o, s.key, s.offset + n + i)

\* the request for s is on its way, lost with the connection, or answered
Awaited(r, o, s) ==
    \/ r.st = "open" /\ r.req = <<s>> /\ r.inp = <<>> /\ r.job.left = <<>>
    \/ r.st = "eof" /\ r.req = <<>> /\ r.inp = <<>> /\ r.job.left = <<>>
    \/ r.req = <<>> /\ r.inp # <<>> /\ r.inp[1].k = "header" /\ Arrived(r, o, s, 1)

\* what is on a thread's connection is what the thread waits for
ExchangeInv(t) ==
    LET r == conn[th[t].conn]
    IN  /\ th[t].pc = "slice" => Quiet(th[t].conn)
        /\ th[t].pc = "head" => Awaited(r, osd(t), th[t].todo[1])
        /\ th[t].pc = "bytes" => r.req = <<>> /\ Arrived(r, osd(t), th[t].todo[1], 0)

Wanted(o, slices) ==
    {[osd |-> o, slice |-> s, bytes |-> Bytes(o, s)] : s \in Elements(slices)}
WantedOf(plan) == UNION {Wanted(a.osd, a.slices) : a \in Elements(plan)}

\* what a thread has and what is left of its plan are what it was asked for
ProgressInv(t) ==
    /\ th[t].pc = "idle" /\ th[t].rc = 0 => th[t].got = WantedOf(th[t].asked)
    /\ th[t].pc = "osd" =>
         WantedOf(th[t].asked) = th[t].got \union WantedOf(th[t].plan)
    /\ th[t].pc \in Busy \ {"failed", "report"} =>
         WantedOf(th[t].asked) = th[t].got \union Wanted(osd(t), th[t].todo)
                                           \union WantedOf(Tail(th[t].plan))

(* What holds of every connection and thread between two steps of           *)
(* read_osds_slices, partial_get, the pools and the ASD's loop: the         *)
(* properties above, and for each place a thread can be at, what is on the  *)
(* wire of its connection and what its read has gathered so far.            *)
ReadInv ==
    /\ ReadTypeOK
    /\ ConnectionsHaveOneOwner
    /\ PooledConnectionsAreIdle
    /\ PoolsFitCapacity
    /\ \A t \in Thread : HoldInv(t) /\ ExchangeInv(t) /\ ProgressInv(t)
=============================================================================
