--------------------------- MODULE DeliveryProofs ---------------------------
(***************************************************************************)
(* What TLAPS proves about message delivery, for any number of agents,     *)
(* messages, failures and late requests: the inductive invariant, and that *)
(* delivery implements MessageQueue.  And what a thread that calls         *)
(* deliver_osd_messages_deduped may rely on, for any number of threads,    *)
(* messages and calls.                                                     *)
(***************************************************************************)
EXTENDS MessageDelivery, DedupedDelivery, FiniteSetTheorems, TLAPS

-----------------------------------------------------------------------------
(* deliver_messages.                                                       *)

\* get_next_msgs returns a prefix of the log.
LEMMA NextMsgsPrefix ==
  ASSUME queue \subseteq Nat, NEW i \in NextMsgs, NEW k \in queue, k < i
  PROVE  k \in NextMsgs
<1> DEFINE Below(n) == {j \in queue : j < n}
<1>1. i \in Nat /\ k \in Nat
  BY Zenon DEF NextMsgs
<1>2. Below(i) \subseteq 0 .. i - 1 /\ Below(k) \subseteq Below(i)
  <2>1. \A j \in Below(i) : j \in 0 .. i - 1
    BY <1>1
  <2>2. \A j \in Below(k) : j \in Below(i)
    BY <1>1
  <2> QED
    BY <2>1, <2>2, Zenon
<1>3. IsFiniteSet(Below(i))
  <2>1. IsFiniteSet(0 .. i - 1)
    BY <1>1, FS_Interval
  <2> QED
    BY <2>1, <1>2, FS_Subset, Zenon
<1>4. Cardinality(Below(k)) <= Cardinality(Below(i))
  BY <1>2, <1>3, FS_Subset, Zenon
<1>5. Cardinality(Below(k)) \in Nat /\ Cardinality(Below(i)) \in Nat
  BY <1>2, <1>3, FS_Subset, FS_CardinalityType, Zenon
<1>6. Cardinality(Below(i)) < MaxBatch
  BY Zenon DEF NextMsgs
<1> QED
  BY <1>4, <1>5, <1>6, DeliveryAssumption DEF NextMsgs

\* What a step of the destination amounts to for MessageQueue.
HandOver ==
  \/ UNCHANGED <<next_msg, handled>>
  \/ /\ next_msg < next_msg' /\ next_msg' <= next_id
     /\ handled' = [i \in Id |-> IF next_msg <= i /\ i < next_msg'
                                 THEN handled[i] + 1 ELSE handled[i]]
  \/ /\ lost /\ next_msg' >= next_msg
     /\ \A i \in Id : handled'[i] # handled[i] =>
                        i >= next_msg /\ i < next_msg' /\ handled'[i] = 1

\* What the destination's operations establish.
DestinationStep ==
  /\ next_msg' \in next_msg .. next_id
  /\ handled' \in [Id -> {0, 1}]
  /\ \A i \in Id : handled[i] = 1 => handled'[i] = 1
  /\ HandledOnceInOrder'
  /\ HandOver

\* deliver_msgs of a batch without holes handles each message at most once and
\* passes the whole batch.
LEMMA DeliverMsgsStep ==
  ASSUME TypeOK, HandledOnceInOrder, NEW ids \in SUBSET (0 .. next_id - 1),
         ~lost => HoleFree(ids), DeliverMsgs(ids), UNCHANGED <<next_id, is_osd, lost>>
  PROVE  DestinationStep /\ \A i \in ids : i < next_msg'
<1> USE DeliveryAssumption
<1>0. /\ next_id \in 0 .. MaxMsgs /\ next_msg \in 0 .. next_id
      /\ handled \in [Id -> {0, 1}] /\ lost \in BOOLEAN /\ Id = 0 .. MaxMsgs - 1
  BY Zenon DEF TypeOK, Id
<1>1. ids \subseteq Id /\ ids \subseteq Nat
  BY <1>0
<1>h. handled' = [i \in Id |-> IF i \in Fresh(ids) THEN handled[i] + 1 ELSE handled[i]]
  BY Zenon DEF DeliverMsgs
<1>2. CASE Fresh(ids) = {}
  <2>1. next_msg' = next_msg /\ handled' = handled
    BY <1>2, <1>0, <1>h, Zenon DEF DeliverMsgs
  <2>2. \A i \in ids : i < next_msg'
    BY <2>1, <1>2, <1>1, <1>0 DEF Fresh
  <2> QED
    BY <2>1, <2>2, <1>0 DEF DestinationStep, HandOver, HandledOnceInOrder
<1>3. CASE Fresh(ids) # {}
  <2>1. PICK last \in ids : (\A j \in ids : j <= last) /\ next_msg' = last + 1
    BY <1>3, Zenon DEF DeliverMsgs
  <2>2. PICK f \in ids : f >= next_msg
    BY <1>3, Zenon DEF Fresh
  <2>3. next_msg' \in next_msg + 1 .. next_id /\ \A i \in ids : i < next_msg'
    BY <2>1, <2>2, <1>0, <1>1
  <2>4. \A i \in Fresh(ids) : i >= next_msg /\ i < next_msg' /\ i \in Id
    BY <2>3, <1>1, Zenon DEF Fresh
  <2>5. \A i \in Id : i \in Fresh(ids) => handled[i] = 0
    BY <2>4, Zenon DEF HandledOnceInOrder
  <2>6. \A i \in Id : handled'[i] = IF i \in Fresh(ids) THEN 1 ELSE handled[i]
    BY <2>5, <1>h
  <2>7. handled' \in [Id -> {0, 1}]
    <3>1. \A i \in Id : handled'[i] \in {0, 1}
      BY <2>6, <1>0, Zenon
    <3> QED
      BY <3>1, <1>h, Zenon
  <2>8. \A i \in Id : handled[i] = 1 => handled'[i] = 1
    BY <2>6, Zenon
  <2>9. ASSUME ~lost, NEW i \in Id
        PROVE  i \in Fresh(ids) <=> next_msg <= i /\ i < next_msg'
    <3>1. next_msg <= i /\ i < next_msg' => i \in next_msg .. last
      BY <2>1, <1>0, <1>1
    <3> QED
      BY <3>1, <2>9, <2>1, <2>4, <1>0, Zenon DEF HoleFree, Fresh
  <2>10. HandledOnceInOrder'
    <3> SUFFICES ASSUME NEW i \in Id
                 PROVE  /\ handled'[i] <= 1
                        /\ i >= next_msg' => handled'[i] = 0
                        /\ ~lost /\ i < next_msg' => handled'[i] = 1
      BY Zenon DEF HandledOnceInOrder, Id
    <3>1. i \in Nat
      BY <1>0
    <3>2. handled'[i] <= 1
      BY <2>7
    <3>3. i >= next_msg' => handled'[i] = 0
      BY <2>6, <2>4, <2>3, <3>1, <1>0 DEF HandledOnceInOrder
    <3>4. ~lost /\ i < next_msg' => handled'[i] = 1
      BY <2>6, <2>9, <3>1, <1>0 DEF HandledOnceInOrder
    <3> QED
      BY <3>2, <3>3, <3>4, Zenon
  <2>11. HandOver
    <3>1. CASE lost
      BY <3>1, <2>3, <2>4, <2>6, <1>0 DEF HandOver
    <3>2. CASE ~lost
      <4>1. handled' = [i \in Id |-> IF next_msg <= i /\ i < next_msg'
                                     THEN handled[i] + 1 ELSE handled[i]]
        BY <3>2, <1>h, <2>9, Zenon
      <4> QED
        BY <4>1, <2>3, <1>0 DEF HandOver
    <3> QED
      BY <3>1, <3>2, <1>0, Zenon
  <2> QED
    BY <2>3, <2>7, <2>8, <2>10, <2>11, <1>0 DEF DestinationStep
<1> QED
  BY <1>2, <1>3, Zenon

\* One message: handled when it is the one the destination expects, and
\* otherwise nothing happens.
LEMMA DeliverMsgStep ==
  ASSUME TypeOK, HandledOnceInOrder, NEW i \in 0 .. next_id - 1,
         DeliverMsg(i), UNCHANGED <<next_id, is_osd, lost>>
  PROVE  DestinationStep /\ (i <= next_msg => i < next_msg')
<1> USE DeliveryAssumption
<1>0. /\ next_id \in 0 .. MaxMsgs /\ next_msg \in 0 .. next_id
      /\ handled \in [Id -> {0, 1}] /\ lost \in BOOLEAN /\ Id = 0 .. MaxMsgs - 1
      /\ i \in Id /\ i \in Nat
  BY DEF TypeOK, Id
<1>1. CASE i # next_msg
  <2>1. next_msg' = next_msg /\ handled' = handled
    BY <1>1, Zenon DEF DeliverMsg
  <2> QED
    BY <2>1, <1>0, <1>1 DEF DestinationStep, HandOver, HandledOnceInOrder
<1>2. CASE i = next_msg
  <2>1. next_msg' = i + 1 /\ handled' = [handled EXCEPT ![i] = @ + 1]
    BY <1>2, Zenon DEF DeliverMsg
  <2>2. handled[i] = 0
    BY <1>0, <1>2 DEF HandledOnceInOrder
  <2>3. \A k \in Id : handled'[k] = IF k = i THEN 1 ELSE handled[k]
    BY <2>1, <2>2, <1>0
  <2>4. handled' \in [Id -> {0, 1}] /\ \A k \in Id : handled[k] = 1 => handled'[k] = 1
    BY <2>1, <2>2, <1>0
  <2>5. HandledOnceInOrder'
    <3> SUFFICES ASSUME NEW k \in Id
                 PROVE  /\ handled'[k] <= 1
                        /\ k >= next_msg' => handled'[k] = 0
                        /\ ~lost /\ k < next_msg' => handled'[k] = 1
      BY Zenon DEF HandledOnceInOrder, Id
    <3> QED
      BY <2>1, <2>3, <2>4, <1>0, <1>2 DEF HandledOnceInOrder
  <2>6. handled' = [k \in Id |-> IF next_msg <= k /\ k < next_msg'
                                 THEN handled[k] + 1 ELSE handled[k]]
    <3>1. \A k \in Id : (next_msg <= k /\ k < next_msg') <=> k = i
      BY <2>1, <1>0, <1>2
    <3> QED
      BY <3>1, <2>1, <1>0, Zenon
  <2>7. next_msg < next_msg' /\ next_msg' <= next_id /\ next_msg' \in next_msg .. next_id
    BY <2>1, <1>0, <1>2
  <2>8. HandOver
    BY <2>6, <2>7, Zenon DEF HandOver
  <2> QED
    BY <2>1, <2>4, <2>5, <2>7, <2>8, <1>0, <1>2, Zenon DEF DestinationStep
<1> QED
  BY <1>1, <1>2, Zenon

\* What an agent holds stays sound while ids are added and the destination
\* moves on.
LEMMA JobStable ==
  ASSUME next_id \in Nat, next_id' \in Nat, next_msg \in Nat, next_msg' \in Nat,
         next_id <= next_id', next_msg <= next_msg', lost => lost',
         NEW j \in Job, JobInv(j)
  PROVE  JobInv(j)'
<1>0. j.batch \subseteq Nat /\ j.todo \subseteq Nat
  BY DeliveryAssumption DEF Job, Id
<1>1. HoleFree(j.batch) => HoleFree(j.batch)'
  BY <1>0 DEF HoleFree
<1>2. j.batch \subseteq 0 .. next_id' - 1
  BY DEF JobInv
<1>3. \A i \in j.batch : i < next_msg => i < next_msg'
  BY <1>0
<1> QED
  BY <1>1, <1>2, <1>3, Zenon DEF JobInv

\* So does a request that nobody waits for.
LEMMA RequestStable ==
  ASSUME next_id \in Nat, next_id' \in Nat, next_msg \in Nat, next_msg' \in Nat,
         next_id <= next_id', next_msg <= next_msg', lost => lost',
         NEW r \in Request, RequestInv(r)
  PROVE  RequestInv(r)'
<1>0. r.ids \subseteq Nat
  BY DeliveryAssumption DEF Request, Id
<1>1. HoleFree(r.ids) => HoleFree(r.ids)'
  BY <1>0 DEF HoleFree
<1>2. r.ids \subseteq 0 .. next_id' - 1
  BY DEF RequestInv
<1>3. \A i \in r.ids : i < next_msg => i < next_msg'
  BY <1>0
<1> QED
  BY <1>1, <1>2, <1>3, Zenon DEF RequestInv

\* Messages leave the log, all of them passed by the destination.
Marking ==
  /\ queue' \subseteq queue
  /\ ~lost => \A i \in queue \ queue' : i < next_msg

\* The invariant survives a step that touches the destination and the log as
\* above and leaves agents and late requests sound.
LEMMA InvariantKept ==
  ASSUME DeliveryInv, UNCHANGED <<next_id, is_osd, lost>>, DestinationStep, Marking,
         job' \in [Agent -> Job], (\A a \in Agent : JobInv(job[a]))',
         late' \subseteq Request, (\A r \in late : RequestInv(r))',
         failures' \in Nat
  PROVE  DeliveryInv'
<1>0. TypeOK /\ HandledOnceInOrder /\ MarkedWereHandled
  BY Zenon DEF DeliveryInv
<1>1. /\ next_id \in 0 .. MaxMsgs /\ next_msg \in 0 .. next_id /\ queue \subseteq 0 .. next_id - 1
      /\ is_osd \in BOOLEAN /\ lost \in BOOLEAN /\ (is_osd => ~lost) /\ 0 .. next_id - 1 \subseteq Id
  BY <1>0, DeliveryAssumption DEF TypeOK, Id
<1>2. TypeOK'
  BY <1>1 DEF TypeOK, DestinationStep, Marking, Id, Job, Request
<1>3. MarkedWereHandled'
  <2> SUFFICES ASSUME ~lost, NEW i \in 0 .. next_id - 1, i \notin queue'
               PROVE  handled'[i] = 1
    BY Zenon DEF MarkedWereHandled
  <2>1. handled[i] = 1
    <3>1. CASE i \in queue
      BY <3>1, <1>0, <1>1, Zenon DEF Marking, HandledOnceInOrder
    <3>2. CASE i \notin queue
      BY <3>2, <1>0, Zenon DEF MarkedWereHandled
    <3> QED
      BY <3>1, <3>2, Zenon
  <2> QED
    BY <2>1, <1>1, Zenon DEF DestinationStep
<1> QED
  BY <1>2, <1>3, Zenon DEF DeliveryInv, DestinationStep

\* The jobs an agent goes through, field by field.
LEMMA IdleJob == Idle \in Job /\ JobInv(Idle)
BY Zenon DEF Idle, Job, JobInv, HoleFree

\* A batch that has been delivered is left to be marked.
LEMMA DeliveredJob ==
  ASSUME NEW j \in Job
  PROVE  /\ Delivered(j) \in Job
         /\ Delivered(j).pc = "mark" /\ Delivered(j).skip = j.skip
         /\ Delivered(j).batch = j.batch /\ Delivered(j).todo = j.batch
BY Zenon DEF Delivered, Job

\* After one message the agent has the rest of them to do, or all to mark.
LEMMA AdvancedJob ==
  ASSUME NEW j \in Job, NEW i \in j.todo, NEW pc \in {"deliver", "one"}
  PROVE  /\ Advanced(j, i, pc) \in Job
         /\ Advanced(j, i, pc).skip = j.skip /\ Advanced(j, i, pc).batch = j.batch
         /\ \/ /\ j.todo = {i}
               /\ Advanced(j, i, pc).pc = "mark" /\ Advanced(j, i, pc).todo = j.batch
            \/ Advanced(j, i, pc).pc = pc /\ Advanced(j, i, pc).todo = j.todo \ {i}
<1>1. CASE j.todo = {i}
  BY <1>1, DeliveredJob, Zenon DEF Advanced
<1>2. CASE j.todo # {i}
  BY <1>2, Zenon DEF Advanced, Job
<1> QED
  BY <1>1, <1>2, Zenon

\* After marking it fetches more, or is done.
LEMMA FinishedJob ==
  ASSUME NEW j \in Job, JobInv(j)
  PROVE  Finished(j) \in Job /\ JobInv(Finished(j))
BY IdleJob, Zenon DEF Finished, Idle, Job, JobInv

\* An agent's step keeps the invariant when its new job is sound.
LEMMA AgentStepKept ==
  ASSUME DeliveryInv, UNCHANGED <<next_id, is_osd, lost, late, failures>>, DestinationStep, Marking,
         NEW a \in Agent, NEW CONSTANT j \in Job, Become(a, j), JobInv(j)'
  PROVE  DeliveryInv'
<1>0. TypeOK
  BY Zenon DEF DeliveryInv
<1>1. /\ next_id \in Nat /\ next_id' = next_id /\ next_msg \in Nat /\ next_msg' \in Nat
      /\ next_msg <= next_msg' /\ lost' = lost
  BY <1>0, DeliveryAssumption DEF TypeOK, DestinationStep
<1>2. job \in [Agent -> Job] /\ job' = [job EXCEPT ![a] = j]
  BY <1>0, Zenon DEF TypeOK, Become
<1>3. job' \in [Agent -> Job]
  BY <1>2, Zenon
<1>4. (\A b \in Agent : JobInv(job[b]))'
  <2> SUFFICES ASSUME NEW b \in Agent
               PROVE  JobInv(job[b])'
    BY Zenon
  <2>1. CASE b = a
    BY <2>1, <1>2, Zenon
  <2>2. CASE b # a
    <3>1. PICK k \in Job : k = job[b]
      BY <1>2, Zenon
    <3>2. JobInv(k)
      BY <3>1, Zenon DEF DeliveryInv
    <3>3. JobInv(k)'
      BY <3>2, <1>1, JobStable
    <3>4. job'[b] = k
      BY <3>1, <2>2, <1>2, Zenon
    <3> QED
      BY <3>3, <3>4, Zenon
  <2> QED
    BY <2>1, <2>2, Zenon
<1>5. (\A r \in late : RequestInv(r))'
  <2> SUFFICES ASSUME NEW r \in late
               PROVE  RequestInv(r)'
    BY Zenon
  <2>1. r \in Request /\ RequestInv(r)
    BY <1>0, Zenon DEF DeliveryInv, TypeOK
  <2> QED
    BY <2>1, <1>1, RequestStable
<1> QED
  BY <1>0, <1>3, <1>4, <1>5, InvariantKept, Zenon DEF TypeOK

\* A step that leaves the destination alone is a destination step.
LEMMA DestinationIdle ==
  ASSUME TypeOK, HandledOnceInOrder, UNCHANGED <<next_id, is_osd, lost, next_msg, handled>>
  PROVE  DestinationStep
BY DeliveryAssumption DEF TypeOK, HandledOnceInOrder, DestinationStep, HandOver

\* What the steps of agents and the arrivals of requests look like to
\* MessageQueue.
QueueStep ==
  /\ UNCHANGED <<next_id, is_osd, lost>>
  /\ \/ UNCHANGED queue /\ HandOver
     \/ UNCHANGED <<next_msg, handled>> /\ Marking

\* Beginning, fetching a batch, and an OSD's agent reading next_msg_id: only
\* the agent's job changes.
LEMMA QuietSteps ==
  ASSUME DeliveryInv, NEW a \in Agent,
         Begin(a) \/ GetNextMsgs(a) \/ ReadNextMsgId(a) \/ DoOne(a)
  PROVE  DeliveryInv' /\ QueueStep
<1> USE DeliveryAssumption
<1>0. TypeOK /\ HandledOnceInOrder /\ MarkedWereHandled
  BY Zenon DEF DeliveryInv
<1>1. UNCHANGED <<queue, next_id, is_osd, lost, next_msg, handled, late, failures>>
  BY Zenon DEF Begin, GetNextMsgs, ReadNextMsgId, DoOne
<1>2. DestinationStep /\ Marking /\ QueueStep
  BY <1>0, <1>1, DestinationIdle, Zenon DEF Marking, QueueStep, HandOver
<1>3. PICK w \in Job : w = job[a]
  BY <1>0, Zenon DEF TypeOK
<1>4. JobInv(w)
  BY <1>3, Zenon DEF DeliveryInv
<1>5. /\ next_id \in Nat /\ next_msg \in Nat /\ w.batch \subseteq Nat
      /\ lost \in BOOLEAN /\ queue \subseteq 0 .. next_id - 1 /\ 0 .. next_id - 1 \subseteq Id
  BY <1>0 DEF TypeOK, Job, Id
<1> SUFFICES \E j \in Job : Become(a, j) /\ JobInv(j)
  <2>1. PICK j \in Job : Become(a, j) /\ JobInv(j)
    BY Zenon
  <2>2. JobInv(j)'
    BY <2>1, <1>1, <1>5, JobStable
  <2> QED
    BY <2>1, <2>2, <1>1, <1>2, AgentStepKept, Zenon
<1>6. CASE Begin(a)
  <2>1. PICK skip \in {FALSE, lost} : Become(a, [Idle EXCEPT !.pc = "get", !.skip = skip])
    BY <1>6, Zenon DEF Begin
  <2>2. PICK j : j = [Idle EXCEPT !.pc = "get", !.skip = skip]
    BY Zenon
  <2>3. j \in Job /\ j.pc = "get" /\ j.skip = skip /\ j.batch = {} /\ j.todo = {}
    BY <2>2, <1>5, Zenon DEF Idle, Job
  <2>4. JobInv(j)
    BY <2>3, <1>5, Zenon DEF JobInv
  <2> QED
    BY <2>1, <2>2, <2>3, <2>4, Zenon
<1>7. CASE GetNextMsgs(a)
  <2>1. CASE queue = {}
    BY <2>1, <1>7, IdleJob, Zenon DEF GetNextMsgs
  <2>2. CASE queue # {}
    <3>1. PICK j : j = [w EXCEPT !.pc = IF w.skip THEN "mark" ELSE "deliver",
                                 !.batch = NextMsgs, !.todo = NextMsgs,
                                 !.more = NextMsgs # queue]
      BY Zenon
    <3>2. Become(a, j)
      BY <3>1, <2>2, <1>3, <1>7, Zenon DEF GetNextMsgs
    <3>3. NextMsgs \subseteq queue
      BY Zenon DEF NextMsgs
    <3>4. j \in Job /\ j.batch = NextMsgs /\ j.todo = NextMsgs /\ j.skip = w.skip
          /\ j.pc = IF w.skip THEN "mark" ELSE "deliver"
      BY <3>1, <3>3, <1>5, Zenon DEF Job
    <3>5. ASSUME ~lost
          PROVE  HoleFree(NextMsgs)
      <4> SUFFICES ASSUME NEW i \in NextMsgs, NEW k \in next_msg .. i
                   PROVE  k \in NextMsgs
        BY Zenon DEF HoleFree
      <4>1. i \in 0 .. next_id - 1 /\ k \in 0 .. next_id - 1 /\ k \in Id
        BY <3>3, <1>5
      <4>2. k \in queue
        BY <3>5, <4>1, <1>0, <1>5 DEF MarkedWereHandled, HandledOnceInOrder
      <4> QED
        BY <4>1, <4>2, <1>5, NextMsgsPrefix
    <3>6. JobInv(j)
      BY <3>3, <3>4, <3>5, <1>4, <1>5, Zenon DEF JobInv
    <3> QED
      BY <3>2, <3>4, <3>6, Zenon
  <2> QED
    BY <2>1, <2>2, Zenon
<1>8. CASE ReadNextMsgId(a)
  <2>1. w.pc = "deliver"
    BY <1>8, <1>3, Zenon DEF ReadNextMsgId
  <2>2. CASE Fresh(w.batch) = {}
    <3>1. \A i \in w.batch : i < next_msg
      BY <2>2, <1>5 DEF Fresh
    <3>2. JobInv(Delivered(w))
      BY <3>1, <1>4, DeliveredJob, Zenon DEF JobInv
    <3>3. Become(a, Delivered(w))
      BY <2>2, <1>3, <1>8, Zenon DEF ReadNextMsgId
    <3> QED
      BY <3>2, <3>3, DeliveredJob, Zenon
  <2>3. CASE Fresh(w.batch) # {}
    <3>1. PICK j : j = [w EXCEPT !.pc = "one", !.todo = Fresh(w.batch)]
      BY Zenon
    <3>2. Become(a, j)
      BY <3>1, <2>3, <1>3, <1>8, Zenon DEF ReadNextMsgId
    <3>3. j \in Job /\ j.batch = w.batch /\ j.skip = w.skip /\ j.pc = "one"
          /\ j.todo = Fresh(w.batch)
      BY <3>1, Zenon DEF Job, Fresh
    <3>4. \A i \in w.batch \ Fresh(w.batch) : i < next_msg
      BY <1>5 DEF Fresh
    <3>5. Fresh(w.batch) \subseteq w.batch
      BY Zenon DEF Fresh
    <3>6. JobInv(j)
      BY <3>3, <3>4, <3>5, <2>1, <1>4, Zenon DEF JobInv
    <3> QED
      BY <3>2, <3>3, <3>6, Zenon
  <2> QED
    BY <2>2, <2>3, Zenon
<1>9. CASE DoOne(a)
  <2>1. w.pc = "one"
    BY <1>9, <1>3, Zenon DEF DoOne
  <2>2. PICK i \in w.todo :
          Become(a, IF next_msg = i THEN [w EXCEPT !.pc = "apply"]
                    ELSE IF next_msg > i THEN Advanced(w, i, "one") ELSE Idle)
    BY <1>9, <1>3, Zenon DEF DoOne
  <2>3. CASE next_msg = i
    <3>1. PICK j : j = [w EXCEPT !.pc = "apply"]
      BY Zenon
    <3>2. j \in Job /\ j.batch = w.batch /\ j.skip = w.skip /\ j.pc = "apply"
          /\ j.todo = w.todo
      BY <3>1, Zenon DEF Job
    <3>3. JobInv(j)
      BY <3>2, <2>1, <1>4, Zenon DEF JobInv
    <3> QED
      BY <3>1, <3>2, <3>3, <2>2, <2>3, Zenon
  <2>4. CASE next_msg > i
    <3>1. PICK j \in Job : j = Advanced(w, i, "one")
      BY AdvancedJob, Zenon
    <3>2. JobInv(j)
      BY <3>1, <2>1, <2>4, <1>4, AdvancedJob DEF JobInv
    <3>3. next_msg # i
      BY <2>4, <1>5 DEF Job
    <3> QED
      BY <3>1, <3>2, <3>3, <2>2, <2>4, Zenon
  <2>5. CASE next_msg # i /\ ~(next_msg > i)
    BY <2>2, <2>5, IdleJob, Zenon
  <2> QED
    BY <2>3, <2>4, <2>5, Zenon
<1> QED
  BY <1>6, <1>7, <1>8, <1>9, Zenon

\* Delivering: the batch at once, or the first message of what is left, to a
\* namespace host or an OSD.
LEMMA DeliverySteps ==
  ASSUME DeliveryInv, NEW a \in Agent, DeliverBatch(a) \/ DeliverNext(a) \/ ApplyOne(a)
  PROVE  DeliveryInv' /\ QueueStep
<1> USE DeliveryAssumption
<1>0. TypeOK /\ HandledOnceInOrder
  BY Zenon DEF DeliveryInv
<1>1. UNCHANGED <<queue, next_id, is_osd, lost, late, failures>>
  BY Zenon DEF DeliverBatch, DeliverNext, ApplyOne
<1>2. Marking
  BY <1>1, Zenon DEF Marking
<1>3. PICK w \in Job : w = job[a]
  BY <1>0, Zenon DEF TypeOK
<1>4. JobInv(w) /\ w.batch \in SUBSET (0 .. next_id - 1) /\ w.todo \subseteq w.batch
  BY <1>3, Zenon DEF DeliveryInv, JobInv
<1>5. /\ next_id \in Nat /\ next_msg \in Nat /\ lost \in BOOLEAN
      /\ w.batch \subseteq Nat
  BY <1>0, <1>4 DEF TypeOK
<1> SUFFICES /\ DestinationStep
             /\ \E j \in Job : Become(a, j) /\ JobInv(j)'
  <2>1. PICK j \in Job : Become(a, j) /\ JobInv(j)'
    BY Zenon
  <2>2. DeliveryInv'
    BY <2>1, <1>1, <1>2, AgentStepKept, Zenon
  <2> QED
    BY <2>2, <1>1, Zenon DEF QueueStep, DestinationStep
<1>6. CASE DeliverBatch(a)
  <2>1. w.pc = "deliver" /\ DeliverMsgs(w.batch) /\ Become(a, Delivered(w))
    BY <1>6, <1>3, Zenon DEF DeliverBatch
  <2>2. ~lost => HoleFree(w.batch)
    BY <2>1, <1>4, Zenon DEF JobInv
  <2>3. DestinationStep /\ \A i \in w.batch : i < next_msg'
    BY <2>1, <2>2, <1>0, <1>1, <1>4, DeliverMsgsStep, Zenon
  <2>4. PICK j \in Job : j = Delivered(w)
    BY DeliveredJob, Zenon
  <2>5. JobInv(j)'
    BY <2>3, <2>4, <1>1, <1>4, DeliveredJob, Zenon DEF JobInv
  <2> QED
    BY <2>1, <2>3, <2>4, <2>5, Zenon
<1>7. CASE DeliverNext(a) \/ ApplyOne(a)
  <2>1. w.pc \in {"deliver", "apply"}
    BY <1>7, <1>3, Zenon DEF DeliverNext, ApplyOne
  <2>2. PICK i \in w.todo, pc \in {"deliver", "one"} :
          /\ IsFirst(i, w.todo) /\ DeliverMsg(i)
          /\ \/ Become(a, Advanced(w, i, pc)) /\ (w.pc = "deliver" \/ i = next_msg)
             \/ Become(a, Idle)
    BY <1>7, <1>3, Zenon DEF DeliverNext, ApplyOne
  <2>3. i \in 0 .. next_id - 1 /\ i \in w.batch /\ i \in Nat
    BY <1>4, <1>5, Zenon
  <2>4. DestinationStep /\ (i <= next_msg => i < next_msg')
    BY <2>2, <2>3, <1>0, <1>1, DeliverMsgStep, Zenon
  <2>5. next_msg' \in Nat /\ next_msg <= next_msg'
    BY <2>4, <1>5 DEF DestinationStep
  <2>6. CASE Become(a, Idle)
    <3>1. PICK j \in Job : j = Idle
      BY IdleJob, Zenon
    <3>2. JobInv(j)'
      BY <3>1, Zenon DEF JobInv, Idle
    <3> QED
      BY <2>4, <2>6, <3>1, <3>2, Zenon
  <2>7. CASE Become(a, Advanced(w, i, pc))
    <3>1. PICK j \in Job : j = Advanced(w, i, pc)
      BY <2>2, AdvancedJob, Zenon
    <3>2. JobInv(w)'
      BY <1>1, <1>4, <1>5, <2>5, JobStable
    <3>3. ASSUME ~lost
          PROVE  i < next_msg'
      <4>1. ASSUME next_msg < i
            PROVE  FALSE
        <5>1. next_msg \in next_msg .. i
          BY <4>1, <1>5, <2>3
        <5>2. next_msg \in w.batch
          BY <5>1, <3>3, <2>1, <2>3, <1>4, Zenon DEF JobInv, HoleFree
        <5>3. next_msg \notin w.todo
          BY <4>1, <1>5, <2>2, <2>3 DEF IsFirst
        <5> QED
          BY <5>2, <5>3, <3>3, <2>1, <1>4, <1>5 DEF JobInv
      <4> QED
        BY <4>1, <2>3, <2>4, <1>5
    <3>4. JobInv(j)'
      <4>1. CASE w.todo = {i} /\ j.pc = "mark" /\ j.todo = w.batch
        <5>1. j.batch = w.batch /\ j.skip = w.skip
          BY <3>1, <2>2, AdvancedJob
        <5>2. ~lost => \A k \in w.batch : k < next_msg'
          BY <4>1, <3>2, <3>3, <2>1, <1>1, Zenon DEF JobInv
        <5> QED
          BY <4>1, <5>1, <5>2, <3>2, <1>1, Zenon DEF JobInv
      <4>2. CASE j.pc = pc /\ j.todo = w.todo \ {i}
        <5>1. j.batch = w.batch /\ j.skip = w.skip
          BY <3>1, <2>2, AdvancedJob
        <5>2. ~lost => \A k \in w.batch \ j.todo : k < next_msg'
          BY <4>2, <3>2, <3>3, <2>1, <1>1, Zenon DEF JobInv
        <5> QED
          BY <4>2, <5>1, <5>2, <3>2, <2>1, <1>1, Zenon DEF JobInv
      <4> QED
        BY <4>1, <4>2, <3>1, <2>2, AdvancedJob
    <3> QED
      BY <2>4, <2>7, <3>1, <3>4, Zenon
  <2> QED
    BY <2>2, <2>6, <2>7, Zenon
<1> QED
  BY <1>6, <1>7, Zenon

\* Marking removes what the destination has passed, both ways.
LEMMA MarkRequests ==
  ASSUME queue \subseteq Nat, next_msg \in Nat, NEW ids \in SUBSET Nat,
         ~lost => \A i \in ids : i < next_msg,
         MarkMsgsDelivered(ids) \/ \E i \in ids : MarkMsgDelivered(i)
  PROVE  Marking
<1>1. CASE MarkMsgsDelivered(ids)
  <2>1. \A i \in queue \ queue' : \E j \in ids : i <= j
    BY <1>1, Zenon DEF MarkMsgsDelivered, MarkedUpTo
  <2> QED
    BY <1>1, <2>1 DEF MarkMsgsDelivered, Marking
<1>2. CASE \E i \in ids : MarkMsgDelivered(i)
  BY <1>2, Zenon DEF MarkMsgDelivered, Marking
<1> QED
  BY <1>1, <1>2, Zenon

\* Marking, the batch at once or one by one, keeps the invariant.
LEMMA MarkingSteps ==
  ASSUME DeliveryInv, NEW a \in Agent, MarkBatch(a) \/ MarkNext(a)
  PROVE  DeliveryInv' /\ QueueStep
<1> USE DeliveryAssumption
<1>0. TypeOK /\ HandledOnceInOrder
  BY Zenon DEF DeliveryInv
<1>1. UNCHANGED <<next_id, is_osd, lost, next_msg, handled, late, failures>>
  BY Zenon DEF MarkBatch, MarkNext
<1>2. PICK w \in Job : w = job[a]
  BY <1>0, Zenon DEF TypeOK
<1>3. JobInv(w) /\ w.batch \in SUBSET Nat /\ w.todo \subseteq w.batch /\ w.pc = "mark"
  BY <1>2 DEF DeliveryInv, JobInv, MarkBatch, MarkNext, Job, Id
<1>4. next_msg \in Nat /\ next_id \in Nat /\ queue \subseteq Nat
  BY <1>0 DEF TypeOK
<1>5. Marking
  <2>1. ~lost => \A i \in w.batch : i < next_msg
    BY <1>3, Zenon DEF JobInv
  <2>2. MarkMsgsDelivered(w.batch) \/ \E i \in w.batch : MarkMsgDelivered(i)
    BY <1>2, <1>3, Zenon DEF MarkBatch, MarkNext
  <2> QED
    BY <2>1, <2>2, <1>3, <1>4, MarkRequests, Zenon
<1>6. DestinationStep
  BY <1>0, <1>1, DestinationIdle, Zenon
<1>7. PICK j \in Job : Become(a, j) /\ JobInv(j)
  <2>1. CASE MarkBatch(a)
    BY <2>1, <1>2, <1>3, FinishedJob, Zenon DEF MarkBatch
  <2>2. CASE MarkNext(a)
    <3>1. PICK i \in w.todo : \/ Become(a, Idle) \/ Become(a, Finished(w))
                              \/ Become(a, [w EXCEPT !.todo = @ \ {i}])
      BY <2>2, <1>2, Zenon DEF MarkNext
    <3>2. PICK k : k = [w EXCEPT !.todo = @ \ {i}]
      BY Zenon
    <3>3. k \in Job /\ k.pc = "mark" /\ k.skip = w.skip /\ k.batch = w.batch
          /\ k.todo = w.todo \ {i}
      BY <3>2, <1>3, Zenon DEF Job
    <3>4. JobInv(k)
      BY <3>3, <1>3, Zenon DEF JobInv
    <3> QED
      BY <3>1, <3>2, <3>3, <3>4, <1>3, IdleJob, FinishedJob, Zenon
  <2> QED
    BY <2>1, <2>2, Zenon
<1>8. JobInv(j)'
  BY <1>1, <1>4, <1>7, JobStable
<1>9. DeliveryInv'
  BY <1>1, <1>5, <1>6, <1>7, <1>8, AgentStepKept, Zenon
<1> QED
  BY <1>1, <1>5, <1>9, Zenon DEF QueueStep

\* A request an agent gave up on is as sound as the agent's job was.
LEMMA OutstandingSound ==
  ASSUME NEW j \in Job, JobInv(j), NEW r \in Outstanding(j)
  PROVE  r \in Request /\ RequestInv(r)
<1>0. j.batch \subseteq Id /\ j.todo \subseteq j.batch /\ j.batch \subseteq 0 .. next_id - 1
  BY Zenon DEF Job, JobInv
<1>1. ASSUME j.pc = "deliver"
      PROVE  \/ r.op = "DeliverMsgs" /\ r = [op |-> "DeliverMsgs", ids |-> j.batch]
             \/ \E i \in j.todo : r = [op |-> "DeliverMsg", ids |-> {i}]
  BY <1>1 DEF Outstanding
<1>2. ASSUME j.pc = "apply"
      PROVE  \E i \in j.todo : r = [op |-> "DeliverMsg", ids |-> {i}]
  BY <1>2, Zenon DEF Outstanding
<1>3. ASSUME j.pc = "mark"
      PROVE  \/ r = [op |-> "MarkMsgsDelivered", ids |-> j.batch]
             \/ \E i \in j.todo : r = [op |-> "MarkMsgDelivered", ids |-> {i}]
  BY <1>3, Zenon DEF Outstanding
<1>4. j.pc \in {"deliver", "apply", "mark"}
  BY Zenon DEF Outstanding
<1>5. r \in Request
  BY <1>0, <1>1, <1>2, <1>3, <1>4 DEF Request
<1>6. r.ids \subseteq 0 .. next_id - 1
  BY <1>0, <1>1, <1>2, <1>3, <1>4
<1>7. ASSUME ~lost
      PROVE  /\ r.op = "DeliverMsgs" => HoleFree(r.ids)
             /\ r.op \in {"MarkMsgsDelivered", "MarkMsgDelivered"} =>
                  \A i \in r.ids : i < next_msg
  <2>1. CASE j.pc = "deliver"
    BY <2>1, <1>1, <1>7 DEF JobInv
  <2>2. CASE j.pc = "apply"
    BY <2>2, <1>2
  <2>3. CASE j.pc = "mark"
    BY <2>3, <1>0, <1>3, <1>7 DEF JobInv
  <2> QED
    BY <2>1, <2>2, <2>3, <1>4, Zenon
<1> QED
  BY <1>5, <1>6, <1>7, Zenon DEF RequestInv

\* An agent that stops, with or without a request left behind, harms nothing.
LEMMA FailStep ==
  ASSUME DeliveryInv, NEW a \in Agent, Fail(a)
  PROVE  DeliveryInv' /\ QueueStep
<1> USE DeliveryAssumption
<1>0. TypeOK /\ HandledOnceInOrder
  BY Zenon DEF DeliveryInv
<1>1. UNCHANGED <<queue, next_id, is_osd, lost, next_msg, handled>> /\ failures' \in Nat
  BY <1>0 DEF Fail, TypeOK
<1>2. DestinationStep /\ Marking /\ QueueStep
  BY <1>0, <1>1, DestinationIdle, Zenon DEF Marking, QueueStep, HandOver
<1>3. job \in [Agent -> Job] /\ job' = [job EXCEPT ![a] = Idle]
  BY <1>0, Zenon DEF TypeOK, Fail, Become
<1>4. job' \in [Agent -> Job]
  BY <1>3, IdleJob, Zenon
<1>5. next_id \in Nat /\ next_msg \in Nat
  BY <1>0 DEF TypeOK
<1>6. (\A b \in Agent : JobInv(job[b]))'
  <2> SUFFICES ASSUME NEW b \in Agent
               PROVE  JobInv(job[b])'
    BY Zenon
  <2>1. PICK k \in Job : k = job'[b]
    BY <1>4, Zenon
  <2>2. JobInv(k)
    BY <2>1, <1>3, IdleJob, Zenon DEF DeliveryInv
  <2>3. JobInv(k)'
    BY <2>2, <1>1, <1>5, JobStable
  <2> QED
    BY <2>1, <2>3, Zenon
<1>7. \A r \in late' : r \in Request /\ RequestInv(r)
  <2>1. \A r \in late : r \in Request /\ RequestInv(r)
    BY <1>0, Zenon DEF DeliveryInv, TypeOK
  <2>2. job[a] \in Job /\ JobInv(job[a])
    BY <1>3, Zenon DEF DeliveryInv
  <2>3. \A r \in Outstanding(job[a]) : r \in Request /\ RequestInv(r)
    BY <2>2, OutstandingSound, Zenon
  <2>4. late' = late \/ \E r \in Outstanding(job[a]) : late' = late \union {r}
    BY Zenon DEF Fail
  <2> QED
    BY <2>1, <2>3, <2>4, Zenon
<1>8. (\A r \in late : RequestInv(r))'
  <2> SUFFICES ASSUME NEW r \in late'
               PROVE  RequestInv(r)'
    BY Zenon
  <2> QED
    BY <1>1, <1>5, <1>7, RequestStable
<1>9. DeliveryInv'
  BY <1>1, <1>2, <1>4, <1>6, <1>7, <1>8, InvariantKept, Zenon
<1> QED
  BY <1>2, <1>9, Zenon

\* Neither does such a request when it arrives, however often.
LEMMA ArriveStep ==
  ASSUME DeliveryInv, NEW r \in late, Arrive(r)
  PROVE  DeliveryInv' /\ QueueStep
<1> USE DeliveryAssumption
<1>0. TypeOK /\ HandledOnceInOrder
  BY Zenon DEF DeliveryInv
<1>1. UNCHANGED <<next_id, is_osd, lost, job, late, failures>>
  BY Zenon DEF Arrive
<1>2. r \in Request /\ RequestInv(r) /\ r.ids \in SUBSET (0 .. next_id - 1)
  BY <1>0, Zenon DEF DeliveryInv, TypeOK, RequestInv
<1>3. next_id \in Nat /\ next_msg \in Nat /\ queue \subseteq Nat /\ r.ids \in SUBSET Nat
  BY <1>0, <1>2 DEF TypeOK
<1>4. DestinationStep /\ Marking /\ QueueStep
  <2>1. CASE r.op = "DeliverMsgs" /\ DeliverMsgs(r.ids) /\ UNCHANGED queue
    <3>1. ~lost => HoleFree(r.ids)
      BY <2>1, <1>2, Zenon DEF RequestInv
    <3>2. DestinationStep
      BY <2>1, <3>1, <1>0, <1>1, <1>2, DeliverMsgsStep, Zenon
    <3> QED
      BY <2>1, <3>2, <1>1, Zenon DEF Marking, QueueStep, DestinationStep
  <2>2. CASE r.op = "DeliverMsg" /\ (\E i \in r.ids : DeliverMsg(i)) /\ UNCHANGED queue
    <3>1. DestinationStep
      BY <2>2, <1>0, <1>1, <1>2, DeliverMsgStep, Zenon
    <3> QED
      BY <2>2, <3>1, <1>1, Zenon DEF Marking, QueueStep, DestinationStep
  <2>3. CASE /\ r.op \in {"MarkMsgsDelivered", "MarkMsgDelivered"}
             /\ MarkMsgsDelivered(r.ids) \/ \E i \in r.ids : MarkMsgDelivered(i)
             /\ UNCHANGED <<next_msg, handled>>
    <3>1. ~lost => \A i \in r.ids : i < next_msg
      BY <2>3, <1>2, Zenon DEF RequestInv
    <3>2. Marking
      BY <2>3, <3>1, <1>3, MarkRequests, Zenon
    <3>3. DestinationStep
      BY <2>3, <1>0, <1>1, DestinationIdle, Zenon
    <3> QED
      BY <2>3, <3>2, <3>3, <1>1, Zenon DEF QueueStep
  <2> QED
    BY <2>1, <2>2, <2>3, Zenon DEF Arrive
<1>5. next_msg' \in Nat /\ next_msg <= next_msg'
  BY <1>3, <1>4 DEF DestinationStep
<1>6. (\A b \in Agent : JobInv(job[b]))'
  <2> SUFFICES ASSUME NEW b \in Agent
               PROVE  JobInv(job[b])'
    BY Zenon
  <2>1. PICK k \in Job : k = job[b]
    BY <1>0, Zenon DEF TypeOK
  <2>2. JobInv(k)'
    BY <2>1, <1>1, <1>3, <1>5, JobStable DEF DeliveryInv
  <2> QED
    BY <2>1, <2>2, <1>1, Zenon
<1>7. (\A q \in late : RequestInv(q))'
  <2> SUFFICES ASSUME NEW q \in late
               PROVE  RequestInv(q)'
    BY <1>1, Zenon
  <2>1. q \in Request /\ RequestInv(q)
    BY <1>0, Zenon DEF DeliveryInv, TypeOK
  <2> QED
    BY <2>1, <1>1, <1>3, <1>5, RequestStable
<1>8. DeliveryInv'
  BY <1>0, <1>1, <1>4, <1>6, <1>7, InvariantKept, Zenon DEF TypeOK
<1> QED
  BY <1>4, <1>8, Zenon

\* The manager's own steps: messages are added, or a host is declared lost.
LEMMA ManagerSteps ==
  ASSUME DeliveryInv, LoseHost \/ \E n \in 1 .. MaxMsgs : AddMsgs(n)
  PROVE  DeliveryInv' /\ (Queue!Send \/ Queue!Lose)
<1> USE DeliveryAssumption
<1>0. TypeOK /\ HandledOnceInOrder /\ MarkedWereHandled
  BY Zenon DEF DeliveryInv
<1>1. UNCHANGED <<next_msg, handled, job, late, failures>>
  BY Zenon DEF LoseHost, AddMsgs
<1>2. next_id \in 0 .. MaxMsgs /\ next_msg \in 0 .. next_id
  BY <1>0, Zenon DEF TypeOK
<1> DEFINE Moved == /\ TypeOK' /\ HandledOnceInOrder' /\ MarkedWereHandled'
                    /\ next_id' \in Nat /\ next_id <= next_id' /\ (lost => lost')
                    /\ Queue!Send \/ Queue!Lose
<1>3. ASSUME LoseHost
      PROVE  Moved
  <2>1. TypeOK'
    BY <1>3, <1>0, <1>1, Zenon DEF LoseHost, TypeOK, Job, Request, Id
  <2>2. HandledOnceInOrder' /\ MarkedWereHandled'
    BY <1>3, <1>0, <1>1, Zenon DEF LoseHost, HandledOnceInOrder, MarkedWereHandled
  <2> QED
    BY <1>2, <1>3, <2>1, <2>2 DEF LoseHost, Queue!Lose
<1>4. ASSUME NEW n \in 1 .. MaxMsgs, AddMsgs(n)
      PROVE  Moved
  <2>1. /\ next_id' = next_id + n /\ next_id' \in 0 .. MaxMsgs /\ UNCHANGED <<is_osd, lost>>
        /\ queue' = queue \union (next_id .. next_id' - 1)
    BY <1>2, <1>4 DEF AddMsgs
  <2>2. TypeOK'
    BY <2>1, <1>0, <1>1, <1>2 DEF TypeOK, Job, Request, Id
  <2>3. HandledOnceInOrder' /\ MarkedWereHandled'
    BY <2>1, <1>0, <1>1, <1>2 DEF HandledOnceInOrder, MarkedWereHandled, Id
  <2>4. Queue!Send
    BY <2>1, <1>1, <1>2 DEF Queue!Send
  <2> QED
    BY <2>1, <2>2, <2>3, <2>4, <1>2
<1>5. Moved
  BY <1>3, <1>4, Zenon
<1>6. (\A b \in Agent : JobInv(job[b]))'
  <2> SUFFICES ASSUME NEW b \in Agent
               PROVE  JobInv(job[b])'
    BY Zenon
  <2>1. PICK k \in Job : k = job[b]
    BY <1>0, Zenon DEF TypeOK
  <2>2. JobInv(k)'
    BY <2>1, <1>1, <1>2, <1>5, JobStable DEF DeliveryInv
  <2> QED
    BY <2>1, <2>2, <1>1, Zenon
<1>7. (\A q \in late : RequestInv(q))'
  <2> SUFFICES ASSUME NEW q \in late
               PROVE  RequestInv(q)'
    BY <1>1, Zenon
  <2>1. q \in Request /\ RequestInv(q)
    BY <1>0, Zenon DEF DeliveryInv, TypeOK
  <2> QED
    BY <2>1, <1>1, <1>2, <1>5, RequestStable
<1> QED
  BY <1>5, <1>6, <1>7, Zenon DEF DeliveryInv

\* Every other step hands messages over or marks them.
LEMMA QueueStepRefines ==
  ASSUME TypeOK, QueueStep
  PROVE  [Queue!QueueNext]_(Queue!queueVars)
<1>1. next_id \in Nat /\ next_msg \in Nat /\ lost \in BOOLEAN
  BY DeliveryAssumption DEF TypeOK
<1>2. CASE UNCHANGED queue /\ HandOver
  <2>1. CASE UNCHANGED <<next_msg, handled>>
    BY <2>1, <1>2, Zenon DEF QueueStep, Queue!queueVars
  <2>2. CASE /\ next_msg < next_msg' /\ next_msg' <= next_id
             /\ handled' = [i \in Id |-> IF next_msg <= i /\ i < next_msg'
                                         THEN handled[i] + 1 ELSE handled[i]]
    BY <2>2, <1>2, Zenon DEF QueueStep, Queue!QueueNext, Queue!Process
  <2>3. CASE /\ lost /\ next_msg' >= next_msg
             /\ \A i \in Id : handled'[i] # handled[i] =>
                               i >= next_msg /\ i < next_msg' /\ handled'[i] = 1
    BY <2>3, <1>2, Zenon DEF QueueStep, Queue!QueueNext, Queue!AfterLoss
  <2> QED
    BY <2>1, <2>2, <2>3, <1>2, Zenon DEF HandOver
<1>3. CASE UNCHANGED <<next_msg, handled>> /\ Marking
  <2>1. CASE lost
    BY <2>1, <1>1, <1>3 DEF Marking, QueueStep, Queue!QueueNext, Queue!AfterLoss
  <2>2. CASE ~lost
    BY <2>2, <1>3, Zenon DEF Marking, QueueStep, Queue!QueueNext, Queue!Mark
  <2> QED
    BY <2>1, <2>2, Zenon
<1> QED
  BY <1>2, <1>3, Zenon DEF QueueStep

\* Nothing was sent: the invariant holds and the abstract queue is empty.
LEMMA DeliveryInit == Init => DeliveryInv /\ Queue!QueueInit
<1> SUFFICES ASSUME Init
             PROVE  DeliveryInv /\ Queue!QueueInit
  BY Zenon
<1>1. TypeOK
  <2>1. job \in [Agent -> Job] /\ handled \in [Id -> {0, 1}]
    BY IdleJob, Zenon DEF Init
  <2>2. next_id \in 0 .. MaxMsgs /\ next_msg \in 0 .. next_id /\ failures \in Nat
    BY DeliveryAssumption DEF Init
  <2>3. is_osd \in BOOLEAN /\ lost \in BOOLEAN /\ (is_osd => ~lost) /\ queue = {} /\ late = {}
    BY Zenon DEF Init
  <2> QED
    BY <2>1, <2>2, <2>3, Zenon DEF TypeOK
<1>2. HandledOnceInOrder /\ MarkedWereHandled
  BY DEF Init, HandledOnceInOrder, MarkedWereHandled, Id
<1>3. \A a \in Agent : JobInv(job[a])
  BY IdleJob, Zenon DEF Init
<1> QED
  BY <1>1, <1>2, <1>3, Zenon DEF Init, DeliveryInv, Queue!QueueInit

\* Every step keeps the invariant and is a step, or a stutter, of the queue.
LEMMA DeliveryNext ==
  ASSUME DeliveryInv, [Next]_vars
  PROVE  DeliveryInv' /\ [Queue!QueueNext]_(Queue!queueVars)
<1>0. TypeOK
  BY Zenon DEF DeliveryInv
<1>1. CASE LoseHost \/ \E n \in 1 .. MaxMsgs : AddMsgs(n)
  BY <1>1, ManagerSteps, Zenon DEF Queue!QueueNext
<1>2. ASSUME NEW a \in Agent, Step(a) \/ Fail(a)
      PROVE  DeliveryInv' /\ QueueStep
  BY <1>2, QuietSteps, DeliverySteps, MarkingSteps, FailStep, Zenon DEF Step
<1>3. ASSUME NEW r \in late, Arrive(r)
      PROVE  DeliveryInv' /\ QueueStep
  BY <1>3, ArriveStep, Zenon
<1>4. CASE UNCHANGED vars
  <2>1. DeliveryInv'
    BY <1>4, Zenon DEF vars, DeliveryInv, TypeOK, HandledOnceInOrder, MarkedWereHandled,
                JobInv, RequestInv, HoleFree, Job, Request, Id
  <2> QED
    BY <2>1, <1>4, Zenon DEF vars, Queue!queueVars
<1> QED
  BY <1>0, <1>1, <1>2, <1>3, <1>4, QueueStepRefines, Zenon DEF Next

\* In every reachable state, with any number of agents that race, fail and
\* leave requests behind, the inductive invariant DeliveryInv holds.
THEOREM DeliveryCorrect == Spec => []DeliveryInv
<1>1. DeliveryInv /\ [Next]_vars => DeliveryInv'
  BY DeliveryNext, Zenon
<1> QED
  BY DeliveryInit, <1>1, PTL DEF Spec

\* Messages are handled once, in order, and marked only after that: what
\* deliver_msgs, do_one and the two ways of marking add up to.
THEOREM HandledExactlyOnce == Spec => [](HandledOnceInOrder /\ MarkedWereHandled)
<1>1. DeliveryInv => HandledOnceInOrder /\ MarkedWereHandled
  BY Zenon DEF DeliveryInv
<1> QED
  BY <1>1, DeliveryCorrect, PTL

\* Delivery by any number of agents implements the queue of MessageQueue.
THEOREM DeliveryIsAQueue == Spec => ImplementsQueue
<1>1. DeliveryInv /\ [Next]_vars => [Queue!QueueNext]_(Queue!queueVars)
  BY DeliveryNext, Zenon
<1> QED
  BY DeliveryInit, <1>1, DeliveryCorrect, PTL DEF Spec, ImplementsQueue, Queue!QueueSpec

\* do_one's "too far off" error does not occur while an OSD keeps its claim.
THEOREM TooFarOffIsDead == Spec => []NeverTooFarOff
<1>1. DeliveryInv => NeverTooFarOff
  <2> SUFFICES ASSUME DeliveryInv, NEW a \in Agent, is_osd, job[a].pc = "one",
                      NEW i \in job[a].todo, IsFirst(i, job[a].todo)
               PROVE  i <= next_msg
    BY Zenon DEF NeverTooFarOff
  <2>1. PICK w \in Job : w = job[a]
    BY Zenon DEF DeliveryInv, TypeOK
  <2>2. JobInv(w) /\ ~lost /\ next_msg \in Nat
    BY <2>1, DeliveryAssumption DEF DeliveryInv, TypeOK
  <2>3. i \in Nat /\ i \in w.batch
    BY <2>1, <2>2, DeliveryAssumption DEF JobInv, Job, Id
  <2>4. ASSUME next_msg < i
        PROVE  FALSE
    <3>1. next_msg \in next_msg .. i
      BY <2>2, <2>3, <2>4
    <3>2. next_msg \in w.batch
      BY <3>1, <2>1, <2>2, <2>3, Zenon DEF JobInv, HoleFree
    <3>3. next_msg \notin w.todo
      BY <2>1, <2>2, <2>3, <2>4 DEF IsFirst
    <3> QED
      BY <3>2, <3>3, <2>1, <2>2 DEF JobInv
  <2> QED
    BY <2>2, <2>3, <2>4
<1> QED
  BY <1>1, DeliveryCorrect, PTL

-----------------------------------------------------------------------------
(* deliver_osd_messages_deduped.                                           *)

DedupedTypeOK ==
    /\ entry = {} \/ \E w \in SUBSET Caller : entry = {w}
    /\ first \subseteq Caller
    /\ second \subseteq [wakers : SUBSET Caller, start : Nat]
    /\ sent \in Nat /\ start \in Nat
    /\ wants \in [Caller -> Nat] /\ got \in [Caller -> Nat]
    /\ doing \in [Caller -> {"idle", "running", "waiting", "delivered", "failed"}]

(* Who runs a round holds the entry, and asked before the round began.      *)
FirstOK ==
    /\ first # {} => entry # {}
    /\ \A c \in first : doing[c] = "running" /\ wants[c] <= start

(* Who waits is in the entry or in one second round, which began after it   *)
(* asked.                                                                   *)
Table(c) == \E w \in entry : c \in w
Round(c) == \E r \in second : c \in r.wakers
WaitersOK ==
    /\ \A c \in Caller : wants[c] <= sent
    /\ \A c \in Caller : (Table(c) \/ Round(c)) <=> doing[c] = "waiting"
    /\ \A c \in Caller : ~(Table(c) /\ Round(c))
    /\ \A r \in second : \A c \in r.wakers : wants[c] <= r.start
    /\ \A r, s \in second : \A c \in Caller : c \in r.wakers /\ c \in s.wakers => r = s

DedupedInv == DedupedTypeOK /\ FirstOK /\ WaitersOK /\ AnswersAreFresh

LEMMA InitDeduped == DedupedInit => DedupedInv
BY DEF DedupedInit, DedupedInv, DedupedTypeOK, FirstOK, Table, Round, WaitersOK, AnswersAreFresh

LEMMA SendMsgKeeps == DedupedInv /\ SendMsg => DedupedInv'
<1> SUFFICES ASSUME DedupedInv, SendMsg PROVE DedupedInv'
  OBVIOUS
<1> USE DEF DedupedInv, SendMsg
<1>1. DedupedTypeOK'
  BY DEF DedupedTypeOK
<1>2. FirstOK'
  BY DEF FirstOK
<1>3. WaitersOK'
  <2>1. \A c \in Caller : wants'[c] <= sent'
    BY DEF DedupedTypeOK, WaitersOK
  <2> QED
    BY <2>1 DEF WaitersOK, Table, Round
<1>4. AnswersAreFresh'
  BY DEF AnswersAreFresh
<1> QED
  BY <1>1, <1>2, <1>3, <1>4

LEMMA CallKeeps == ASSUME NEW c \in Caller, DedupedInv, Call(c) PROVE DedupedInv'
<1> USE DEF DedupedInv
<1>0. /\ doing[c] \in {"idle", "delivered", "failed"} /\ wants' = [wants EXCEPT ![c] = sent]
      /\ UNCHANGED <<second, sent, got>> /\ c \notin first
      /\ ~Table(c) /\ ~Round(c)
  BY DEF Call, FirstOK, WaitersOK
<1>w. \A d \in Caller : wants'[d] = IF d = c THEN sent ELSE wants[d]
  BY <1>0 DEF DedupedTypeOK
<1>r. \A d \in Caller : Round(d)' <=> Round(d)
  BY <1>0 DEF Round
<1>1. CASE entry = {}
  <2>0. /\ entry' = {{}} /\ first' = {c} /\ start' = sent
        /\ doing' = [doing EXCEPT ![c] = "running"]
    BY <1>1 DEF Call
  <2>1. DedupedTypeOK'
    BY <2>0, <1>0 DEF DedupedTypeOK
  <2>2. FirstOK'
    BY <2>0, <1>w DEF FirstOK, DedupedTypeOK
  <2>3. \A d \in Caller : ~Table(d)' /\ ~Table(d)
    BY <2>0, <1>1 DEF Table
  <2>4. WaitersOK'
    <3>1. \A d \in Caller : wants'[d] <= sent'
      BY <1>0, <1>w DEF DedupedTypeOK, WaitersOK
    <3>2. \A d \in Caller : (Table(d)' \/ Round(d)') <=> doing'[d] = "waiting"
      BY <2>0, <2>3, <1>0, <1>r DEF DedupedTypeOK, WaitersOK
    <3>3. \A r \in second' : \A d \in r.wakers : wants'[d] <= r.start
      BY <1>0, <1>w DEF DedupedTypeOK, WaitersOK, Round
    <3> QED
      BY <3>1, <3>2, <3>3, <2>3, <1>0, <1>r DEF WaitersOK
  <2>5. AnswersAreFresh'
    BY <2>0, <1>0, <1>w DEF AnswersAreFresh, DedupedTypeOK
  <2> QED
    BY <2>1, <2>2, <2>4, <2>5
<1>2. CASE entry # {}
  <2>0. /\ entry' = {wakers \union {c} : wakers \in entry}
        /\ doing' = [doing EXCEPT ![c] = "waiting"] /\ UNCHANGED <<first, start>>
    BY <1>2 DEF Call
  <2>w. PICK w \in SUBSET Caller : entry = {w} /\ entry' = {w \union {c}}
    BY <1>2, <2>0 DEF DedupedTypeOK
  <2>1. DedupedTypeOK'
    BY <2>0, <2>w, <1>0 DEF DedupedTypeOK
  <2>2. FirstOK'
    BY <2>0, <2>w, <1>0, <1>w DEF FirstOK, DedupedTypeOK
  <2>3. \A d \in Caller : Table(d)' <=> Table(d) \/ d = c
    BY <2>w DEF Table
  <2>4. WaitersOK'
    <3>1. \A d \in Caller : wants'[d] <= sent'
      BY <1>0, <1>w DEF DedupedTypeOK, WaitersOK
    <3>2. \A d \in Caller : (Table(d)' \/ Round(d)') <=> doing'[d] = "waiting"
      BY <2>0, <2>3, <1>0, <1>r DEF DedupedTypeOK, WaitersOK
    <3>3. \A r \in second' : \A d \in r.wakers : wants'[d] <= r.start
      BY <1>0, <1>w DEF DedupedTypeOK, WaitersOK, Round
    <3> QED
      BY <3>1, <3>2, <3>3, <2>3, <1>0, <1>r DEF WaitersOK
  <2>5. AnswersAreFresh'
    BY <2>0, <1>0, <1>w DEF AnswersAreFresh, DedupedTypeOK
  <2> QED
    BY <2>1, <2>2, <2>4, <2>5
<1> QED
  BY <1>1, <1>2

LEMMA FirstEndsKeeps ==
    ASSUME NEW c \in Caller, DedupedInv, FirstEnds(c) PROVE DedupedInv'
<1> USE DEF DedupedInv
<1>0. /\ c \in first /\ first' = {} /\ got' = [got EXCEPT ![c] = start] /\ Finalize
      /\ UNCHANGED <<sent, start, wants>>
  BY DEF FirstEnds
<1>p. PICK result \in {"delivered", "failed"} : doing' = [doing EXCEPT ![c] = result]
  BY DEF FirstEnds
<1>d. doing[c] = "running" /\ wants[c] <= start
  BY <1>0 DEF FirstOK
<1>2. FirstOK'
  BY <1>0 DEF FirstOK
<1>5. AnswersAreFresh'
  <2> SUFFICES ASSUME NEW d \in Caller, doing'[d] = "delivered" PROVE got'[d] >= wants'[d]
    BY DEF AnswersAreFresh
  <2>1. CASE d = c
    BY <2>1, <1>0, <1>d DEF DedupedTypeOK
  <2>2. CASE d # c
    BY <2>2, <1>0, <1>p DEF DedupedTypeOK, AnswersAreFresh
  <2> QED
    BY <2>1, <2>2
<1>w. \A d \in Caller : doing'[d] = "waiting" <=> doing[d] = "waiting"
  BY <1>p, <1>d DEF DedupedTypeOK
<1>6. CASE entry = {{}}
  <2>0. entry' = {} /\ second' = second
    BY <1>6, <1>0 DEF Finalize
  <2>1. DedupedTypeOK'
    BY <2>0, <1>0, <1>p DEF DedupedTypeOK
  <2>2. \A d \in Caller : ~Table(d) /\ ~Table(d)' /\ (Round(d)' <=> Round(d))
    BY <2>0, <1>6 DEF Table, Round
  <2>3. WaitersOK'
    BY <2>0, <2>2, <1>0, <1>w DEF WaitersOK
  <2> QED
    BY <2>1, <2>3, <1>2, <1>5
<1>7. CASE entry # {{}}
  <2>w. PICK w \in SUBSET Caller : entry = {w}
    BY <1>0 DEF DedupedTypeOK, FirstOK
  <2> DEFINE new == [wakers |-> w, start |-> sent]
  <2>0. entry' = {{}} /\ second' = second \union {new}
    BY <1>7, <2>w, <1>0 DEF Finalize
  <2>n. new \in [wakers : SUBSET Caller, start : Nat] /\ new.wakers = w /\ new.start = sent
    BY DEF DedupedTypeOK
  <2> HIDE DEF new
  <2>1. DedupedTypeOK'
    <3>1. entry' = {} \/ \E v \in SUBSET Caller : entry' = {v}
      BY <2>0
    <3>2. second' \subseteq [wakers : SUBSET Caller, start : Nat]
      BY <2>0, <2>n DEF DedupedTypeOK
    <3> QED
      BY <3>1, <3>2, <1>0, <1>p DEF DedupedTypeOK
  <2>2. \A d \in Caller : ~Table(d)' /\ (Table(d) <=> d \in w)
                          /\ (Round(d)' <=> Round(d) \/ d \in w)
    BY <2>0, <2>n, <2>w DEF Table, Round
  <2>3. \A d \in Caller : d \in w => ~Round(d)
    BY <2>2 DEF WaitersOK
  <2>4. WaitersOK'
    <3>1. \A d \in Caller : (Table(d)' \/ Round(d)') <=> doing'[d] = "waiting"
      BY <2>2, <1>w DEF WaitersOK
    <3>2. \A r \in second' : \A d \in r.wakers : wants'[d] <= r.start
      <4> SUFFICES ASSUME NEW r \in second', NEW d \in r.wakers PROVE wants[d] <= r.start
        BY <1>0
      <4>1. CASE r \in second
        BY <4>1 DEF WaitersOK
      <4>2. CASE r = new
        BY <4>2, <2>n DEF WaitersOK
      <4> QED
        BY <4>1, <4>2, <2>0
    <3>3. \A r, s \in second' : \A d \in Caller : d \in r.wakers /\ d \in s.wakers => r = s
      <4> SUFFICES ASSUME NEW r \in second', NEW s \in second', NEW d \in Caller,
                          d \in r.wakers, d \in s.wakers
                   PROVE  r = s
        OBVIOUS
      <4>1. CASE r \in second /\ s \in second
        BY <4>1 DEF WaitersOK
      <4>2. CASE r = new \/ s = new
        <5>1. d \in w
          BY <4>2, <2>n
        <5>2. r \notin second /\ s \notin second
          BY <5>1, <2>3 DEF Round
        <5> QED
          BY <5>2, <2>0
      <4> QED
        BY <4>1, <4>2, <2>0
    <3> QED
      BY <3>1, <3>2, <3>3, <2>2, <1>0 DEF WaitersOK
  <2> QED
    BY <2>1, <2>4, <1>2, <1>5
<1> QED
  BY <1>6, <1>7

LEMMA SecondEndsKeeps ==
    ASSUME NEW r \in second, DedupedInv, SecondEnds(r) PROVE DedupedInv'
<1> USE DEF DedupedInv
<1>0. /\ second' = second \ {r}
      /\ got' = [c \in Caller |-> IF c \in r.wakers THEN r.start ELSE got[c]]
      /\ UNCHANGED <<entry, first, sent, start, wants, calls>>
  BY DEF SecondEnds
<1>p. PICK result \in {"delivered", "failed"} :
        doing' = [c \in Caller |-> IF c \in r.wakers THEN result ELSE doing[c]]
  BY DEF SecondEnds
<1>r. r.wakers \subseteq Caller /\ r.start \in Nat
  BY DEF DedupedTypeOK
<1>1. DedupedTypeOK'
  BY <1>0, <1>p, <1>r DEF DedupedTypeOK
<1>t. \A c \in Caller : Table(c)' <=> Table(c)
  BY <1>0 DEF Table
<1>w. \A c \in Caller : c \in r.wakers => doing[c] = "waiting" /\ ~Table(c)
  BY DEF WaitersOK, Round
<1>2. FirstOK'
  <2>1. \A c \in first : c \in Caller /\ c \notin r.wakers
    BY <1>w DEF FirstOK, DedupedTypeOK
  <2> QED
    BY <2>1, <1>0, <1>p DEF FirstOK
<1>3. \A c \in Caller : Round(c)' <=> Round(c) /\ c \notin r.wakers
  <2> TAKE c \in Caller
  <2>1. CASE c \in r.wakers
    BY <2>1, <1>0 DEF Round, WaitersOK
  <2>2. CASE c \notin r.wakers
    BY <2>2, <1>0 DEF Round
  <2> QED
    BY <2>1, <2>2
<1>4. WaitersOK'
  <2>1. \A c \in Caller : (Table(c)' \/ Round(c)') <=> doing'[c] = "waiting"
    BY <1>3, <1>t, <1>w, <1>p DEF WaitersOK
  <2> QED
    BY <2>1, <1>0, <1>3, <1>t DEF WaitersOK
<1>5. AnswersAreFresh'
  <2> SUFFICES ASSUME NEW c \in Caller, doing'[c] = "delivered" PROVE got'[c] >= wants'[c]
    BY DEF AnswersAreFresh
  <2>1. CASE c \in r.wakers
    BY <2>1, <1>0, <1>r DEF WaitersOK, DedupedTypeOK
  <2>2. CASE c \notin r.wakers
    BY <2>2, <1>0, <1>p DEF AnswersAreFresh
  <2> QED
    BY <2>1, <2>2
<1> QED
  BY <1>1, <1>2, <1>4, <1>5

LEMMA DedupedInvHolds == DedupedSpec => []DedupedInv
<1>1. DedupedInv /\ UNCHANGED dedupedVars => DedupedInv'
  BY DEF DedupedInv, DedupedTypeOK, FirstOK, WaitersOK, AnswersAreFresh, Table, Round, dedupedVars
<1>2. DedupedInv /\ RoundEnds => DedupedInv'
  <2>1. ASSUME DedupedInv, NEW c \in first, FirstEnds(c) PROVE DedupedInv'
    <3>1. c \in Caller
      BY <2>1 DEF DedupedInv, DedupedTypeOK
    <3> QED
      BY <2>1, <3>1, FirstEndsKeeps
  <2> QED
    BY <2>1, SecondEndsKeeps DEF RoundEnds
<1>3. DedupedInv /\ [DedupedNext]_dedupedVars => DedupedInv'
  BY <1>1, <1>2, SendMsgKeeps, CallKeeps DEF DedupedNext
<1> QED
  BY <1>3, InitDeduped, PTL DEF DedupedSpec

(* A thread told that delivery succeeded was answered by a round that began *)
(* after its call, however many threads share the table and however their   *)
(* calls fall into first and second rounds.                                 *)
THEOREM DedupedAnswersAreFresh == DedupedSpec => []AnswersAreFresh
<1>1. DedupedInv => AnswersAreFresh
  BY DEF DedupedInv
<1> QED
  BY <1>1, DedupedInvHolds, PTL

(* No waker is lost by the finalizer and none is woken twice, which would   *)
(* make Lwt.wakeup raise inside the thread of a round.                      *)
THEOREM DedupedWaitersAreKnownOnce == DedupedSpec => []WaitersAreKnownOnce
<1>1. ASSUME DedupedInv, NEW c \in Caller
      PROVE  Cardinality({w \in entry : c \in w})
               + Cardinality({r \in second : c \in r.wakers})
             = (IF doing[c] = "waiting" THEN 1 ELSE 0)
  <2> DEFINE E == {w \in entry : c \in w}
             R == {r \in second : c \in r.wakers}
  <2>1. E = {} \/ \E w : E = {w}
    BY <1>1 DEF DedupedInv, DedupedTypeOK
  <2>2. R = {} \/ \E r : R = {r}
    BY <1>1 DEF DedupedInv, WaitersOK
  <2>3. (E # {} <=> Table(c)) /\ (R # {} <=> Round(c))
    BY DEF Table, Round
  <2>4. ~(Table(c) /\ Round(c)) /\ (Table(c) \/ Round(c) <=> doing[c] = "waiting")
    BY <1>1 DEF DedupedInv, WaitersOK
  <2> HIDE DEF E, R
  <2>5. Cardinality(E) = IF Table(c) THEN 1 ELSE 0
    BY <2>1, <2>3, FS_EmptySet, FS_Singleton, Zenon
  <2>6. Cardinality(R) = IF Round(c) THEN 1 ELSE 0
    BY <2>2, <2>3, FS_EmptySet, FS_Singleton, Zenon
  <2>7. Cardinality(E) + Cardinality(R) = (IF doing[c] = "waiting" THEN 1 ELSE 0)
    BY <2>4, <2>5, <2>6
  <2> QED
    BY <2>7 DEF E, R
<1>2. DedupedInv => WaitersAreKnownOnce
  BY <1>1 DEF WaitersAreKnownOnce
<1> QED
  BY <1>2, DedupedInvHolds, PTL
=============================================================================
