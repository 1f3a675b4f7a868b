-------------------------- MODULE MessageDelivery ---------------------------
(***************************************************************************)
(* The messages the manager leaves for one destination, a namespace host   *)
(* or an OSD, and the agents (clients, proxies, maintenance processes)     *)
(* that carry them over.  Any number of agents do so at the same time, and *)
(* each may stop between any two of its requests; a request it no longer   *)
(* waits for may still arrive.  A message is represented by its id.        *)
(***************************************************************************)
EXTENDS Naturals, FiniteSets

CONSTANTS Agent,        \* the processes that deliver messages
          Maintenance,  \* the one that never stops for good
          MaxMsgs,      \* bound: the number of messages sent
          MaxBatch,     \* the number of messages get_next_msgs returns, 10
          MaxInt32,     \* ids from here on take more than four bytes in a key
          MaxLate,      \* bound: requests that outlive the agent's interest
          MaxFailures   \* bound: failures of the maintenance process

ASSUME DeliveryAssumption ==
  /\ Maintenance \in Agent
  /\ MaxMsgs \in Nat /\ MaxBatch \in Nat /\ MaxInt32 \in Nat
  /\ MaxLate \in Nat /\ MaxFailures \in Nat

VARIABLES queue,     \* the ids in the manager's log for the destination
          next_id,   \* the manager: Keys.Msg_log.next_msg_key
          is_osd,    \* the destination is an OSD, not a namespace host
          lost,      \* the manager: Nsm_host.lost
          next_msg,  \* the destination: the id it expects next
          handled,   \* history: how often the destination handled each id
          job,       \* what each agent is doing
          late,      \* requests without an agent that waits for the answer
          failures   \* failures of the maintenance process so far

vars == <<queue, next_id, is_osd, lost, next_msg, handled, job, late, failures>>

Id == 0 .. MaxMsgs - 1

\* skip: the agent takes the destination for lost; batch: the messages it
\* fetched; todo: those it has yet to deliver, or to mark; more: has_more
Job == [pc : {"idle", "get", "deliver", "one", "apply", "mark"}, skip : BOOLEAN,
        batch : SUBSET Id, todo : SUBSET Id, more : BOOLEAN]

Idle == [pc |-> "idle", skip |-> FALSE, batch |-> {}, todo |-> {}, more |-> FALSE]

Request == [op : {"DeliverMsgs", "DeliverMsg", "MarkMsgsDelivered", "MarkMsgDelivered"},
            ids : SUBSET Id]

Init ==
  /\ queue = {} /\ next_id = 0
  /\ is_osd \in BOOLEAN /\ lost = FALSE
  /\ next_msg = 0
  /\ handled = [i \in Id |-> 0]
  /\ job = [a \in Agent |-> Idle]
  /\ late = {} /\ failures = 0

\* the first element of a list of ids kept as a set
IsFirst(i, ids) == i \in ids /\ \A j \in ids : i <= j

-----------------------------------------------------------------------------
\* The manager

\* add_msgs
AddMsgs(n) ==
  /\ next_id + n <= MaxMsgs
  /\ queue' = queue \union (next_id .. next_id + n - 1)
  /\ next_id' = next_id + n
  /\ UNCHANGED <<is_osd, lost, next_msg, handled, job, late, failures>>

\* UpdateNsmHost, which never takes lost back
LoseHost ==
  /\ ~is_osd
  /\ lost' = TRUE
  /\ UNCHANGED <<queue, next_id, is_osd, next_msg, handled, job, late, failures>>

\* get_next_msgs
NextMsgs == {i \in queue : Cardinality({j \in queue : j < i}) < MaxBatch}

MarkedWithoutLast(ids) == {i \in queue : i < MaxInt32 /\ \E j \in ids : i < j}

\* the messages mark_msgs_delivered removes: the range it scans ends with a
\* key of four bytes, which the keys of larger ids follow
MarkedUpTo(ids) == {i \in queue : i < MaxInt32 /\ \E j \in ids : i <= j}

\* MarkMsgsDelivered, of which only the last id is sent
MarkMsgsDelivered(ids) == queue' = queue \ MarkedUpTo(ids)

MarkMsgDeliveredUnchecked(i) == queue' = {j \in queue : ~IsFirst(j, queue)}

\* MarkMsgDelivered looks at the head of the log only and fails on another id
MarkMsgDelivered(i) == queue' = IF IsFirst(i, queue) THEN queue \ {i} ELSE queue

WrongMsgId(i) == queue # {} /\ ~IsFirst(i, queue)

-----------------------------------------------------------------------------
\* The destination

FreshUnfiltered(ids) == ids

\* what deliver_msgs, and the OSD's agent, have not seen handled
Fresh(ids) == {i \in ids : i >= next_msg}

\* deliver_msgs, one transaction for the whole batch
DeliverMsgs(ids) ==
  /\ handled' = [i \in Id |-> IF i \in Fresh(ids) THEN handled[i] + 1 ELSE handled[i]]
  /\ IF Fresh(ids) = {} THEN UNCHANGED next_msg
     ELSE \E last \in ids : (\A j \in ids : j <= last) /\ next_msg' = last + 1

DeliverMsgUnasserted(i) ==
  /\ handled' = [handled EXCEPT ![i] = @ + 1]
  /\ next_msg' = i + 1

\* DeliverMsg of a namespace host, and the sequence an OSD applies under the
\* assertion that its next_msg_id is still the id of the message
DeliverMsg(i) ==
  /\ handled' = IF i = next_msg THEN [handled EXCEPT ![i] = @ + 1] ELSE handled
  /\ next_msg' = IF i = next_msg THEN i + 1 ELSE next_msg

-----------------------------------------------------------------------------
\* The agents

Become(a, j) == job' = [job EXCEPT ![a] = j]

\* the batch has been delivered; what is left is to mark it
Delivered(j) == [j EXCEPT !.pc = "mark", !.todo = j.batch]

\* message i is done; on to the next one, or to marking
Advanced(j, i, pc) ==
  IF j.todo = {i} THEN Delivered(j) ELSE [j EXCEPT !.pc = pc, !.todo = @ \ {i}]

\* everything is marked
Finished(j) == IF j.more THEN [Idle EXCEPT !.pc = "get", !.skip = j.skip] ELSE Idle

\* deliver_nsm_host_messages, which may use cached information on the host,
\* and deliver_osd_messages
Begin(a) ==
  /\ job[a].pc = "idle"
  /\ \E skip \in {FALSE, lost} : Become(a, [Idle EXCEPT !.pc = "get", !.skip = skip])
  /\ UNCHANGED <<queue, next_id, is_osd, lost, next_msg, handled, late, failures>>

\* the start of deliver_messages; there is nothing to deliver to a lost host
GetNextMsgs(a) ==
  /\ job[a].pc = "get"
  /\ IF queue = {} THEN Become(a, Idle)
     ELSE Become(a, [job[a] EXCEPT !.pc = IF job[a].skip THEN "mark" ELSE "deliver",
                                   !.batch = NextMsgs, !.todo = NextMsgs,
                                   !.more = NextMsgs # queue])
  /\ UNCHANGED <<queue, next_id, is_osd, lost, next_msg, handled, late, failures>>

\* do_new: the batch in one request
DeliverBatch(a) ==
  /\ ~is_osd /\ job[a].pc = "deliver" /\ job[a].todo = job[a].batch
  /\ DeliverMsgs(job[a].batch)
  /\ Become(a, Delivered(job[a]))
  /\ UNCHANGED <<queue, next_id, is_osd, lost, late, failures>>

\* do_old: one request per message, to hosts without DeliverMsgs
DeliverNext(a) ==
  /\ ~is_osd /\ job[a].pc = "deliver"
  /\ \E i \in job[a].todo :
        /\ IsFirst(i, job[a].todo)
        /\ DeliverMsg(i)
        /\ Become(a, Advanced(job[a], i, "deliver"))
  /\ UNCHANGED <<queue, next_id, is_osd, lost, late, failures>>

ReadNextMsgIdSkipping(a) ==
  /\ is_osd /\ job[a].pc = "deliver"
  /\ LET todo == {i \in job[a].batch : i > next_msg}
     IN  Become(a, IF todo = {} THEN Delivered(job[a])
                   ELSE [job[a] EXCEPT !.pc = "one", !.todo = todo])
  /\ UNCHANGED <<queue, next_id, is_osd, lost, next_msg, handled, late, failures>>

\* _deliver_osd_messages reads next_msg_id and leaves out what is below it
ReadNextMsgId(a) ==
  /\ is_osd /\ job[a].pc = "deliver"
  /\ LET todo == Fresh(job[a].batch)
     IN  Become(a, IF todo = {} THEN Delivered(job[a])
                   ELSE [job[a] EXCEPT !.pc = "one", !.todo = todo])
  /\ UNCHANGED <<queue, next_id, is_osd, lost, next_msg, handled, late, failures>>

\* do_one reads next_msg_id again; "too far off" is an error
DoOne(a) ==
  /\ job[a].pc = "one"
  /\ \E i \in job[a].todo :
        /\ IsFirst(i, job[a].todo)
        /\ Become(a, IF next_msg = i THEN [job[a] EXCEPT !.pc = "apply"]
                     ELSE IF next_msg > i THEN Advanced(job[a], i, "one")
                     ELSE Idle)
  /\ UNCHANGED <<queue, next_id, is_osd, lost, next_msg, handled, late, failures>>

\* apply_sequence; another agent may have bumped next_msg_id in between
ApplyOne(a) ==
  /\ job[a].pc = "apply"
  /\ \E i \in job[a].todo :
        /\ IsFirst(i, job[a].todo)
        /\ DeliverMsg(i)
        /\ Become(a, IF i = next_msg THEN Advanced(job[a], i, "one") ELSE Idle)
  /\ UNCHANGED <<queue, next_id, is_osd, lost, late, failures>>

\* use_feature: the batch in one request
MarkBatch(a) ==
  /\ job[a].pc = "mark" /\ job[a].todo = job[a].batch
  /\ MarkMsgsDelivered(job[a].batch)
  /\ Become(a, Finished(job[a]))
  /\ UNCHANGED <<next_id, is_osd, lost, next_msg, handled, late, failures>>

\* alternative: one by one, for managers without MarkMsgsDelivered
MarkNext(a) ==
  /\ job[a].pc = "mark"
  /\ \E i \in job[a].todo :
        /\ IsFirst(i, job[a].todo)
        /\ MarkMsgDelivered(i)
        /\ Become(a, IF WrongMsgId(i) THEN Idle
                     ELSE IF job[a].todo = {i} THEN Finished(job[a])
                     ELSE [job[a] EXCEPT !.todo = @ \ {i}])
  /\ UNCHANGED <<next_id, is_osd, lost, next_msg, handled, late, failures>>

\* the request an agent is waiting for
Outstanding(j) ==
  LET Of(op, ids) == [op |-> op, ids |-> ids]
      Next1(op) == {Of(op, {i}) : i \in {k \in j.todo : IsFirst(k, j.todo)}}
      Whole(op) == IF j.todo = j.batch THEN {Of(op, j.batch)} ELSE {}
  IN  CASE j.pc = "deliver" /\ ~is_osd -> Next1("DeliverMsg") \union Whole("DeliverMsgs")
        [] j.pc = "apply" -> Next1("DeliverMsg")
        [] j.pc = "mark" -> Next1("MarkMsgDelivered") \union Whole("MarkMsgsDelivered")
        [] OTHER -> {}

\* A crash, a lost connection or a timeout.  The request under way may be gone
\* or still arrive.
Fail(a) ==
  /\ job[a].pc # "idle"
  /\ failures' = IF a = Maintenance THEN failures + 1 ELSE failures
  /\ failures' <= MaxFailures
  /\ Become(a, Idle)
  /\ \/ UNCHANGED late
     \/ \E r \in Outstanding(job[a]) :
          late' = late \union {r} /\ Cardinality(late') <= MaxLate
  /\ UNCHANGED <<queue, next_id, is_osd, lost, next_msg, handled>>

\* Such a request arrives.  It stays in late: several agents may have sent it.
Arrive(r) ==
  /\ \/ r.op = "DeliverMsgs" /\ DeliverMsgs(r.ids) /\ UNCHANGED queue
     \/ r.op = "DeliverMsg" /\ (\E i \in r.ids : DeliverMsg(i)) /\ UNCHANGED queue
     \/ r.op = "MarkMsgsDelivered" /\ MarkMsgsDelivered(r.ids) /\ UNCHANGED <<next_msg, handled>>
     \/ r.op = "MarkMsgDelivered" /\ (\E i \in r.ids : MarkMsgDelivered(i))
        /\ UNCHANGED <<next_msg, handled>>
  /\ UNCHANGED <<next_id, is_osd, lost, job, late, failures>>

\* what an agent does next when nothing fails
Step(a) ==
  \/ Begin(a) \/ GetNextMsgs(a)
  \/ DeliverBatch(a) \/ DeliverNext(a)
  \/ ReadNextMsgId(a) \/ DoOne(a) \/ ApplyOne(a)
  \/ MarkBatch(a) \/ MarkNext(a)

Next ==
  \/ \E n \in 1 .. MaxMsgs : AddMsgs(n)
  \/ LoseHost
  \/ \E a \in Agent : Step(a) \/ Fail(a)
  \/ \E r \in late : Arrive(r)

Spec == Init /\ [][Next]_vars

\* deliver_all_messages goes round for ever in the maintenance process
FairSpec == Spec /\ WF_vars(Step(Maintenance))

-----------------------------------------------------------------------------
\* Properties

TypeOK ==
  /\ next_id \in 0 .. MaxMsgs /\ queue \subseteq 0 .. next_id - 1
  /\ is_osd \in BOOLEAN /\ lost \in BOOLEAN /\ (is_osd => ~lost)
  /\ next_msg \in 0 .. next_id
  /\ handled \in [Id -> {0, 1}]
  /\ job \in [Agent -> Job]
  /\ late \subseteq Request
  /\ failures \in Nat

\* The destination handles every message at most once and never one below an
\* id it has passed; unless it was declared lost it has handled exactly the
\* messages below the id it expects: double delivery, agents that race, that
\* stop in the middle of a batch, and requests that arrive late change nothing.
HandledOnceInOrder ==
  \A i \in Id : /\ handled[i] <= 1
                /\ i >= next_msg => handled[i] = 0
                /\ ~lost /\ i < next_msg => handled[i] = 1

\* A message leaves the manager's log (and the manager takes its effects for
\* done, upds_for_delivered_msg) only when the destination has handled it,
\* whichever of the two ways of marking is used and whoever marks.
MarkedWereHandled ==
  ~lost => \A i \in 0 .. next_id - 1 : i \notin queue => handled[i] = 1

\* No message below i, up from the one the destination expects, is missing
\* from ids: why deliver_msgs may skip no id although it only checks >=.
HoleFree(ids) == \A i \in ids : \A k \in next_msg .. i : k \in ids

\* What an agent holds: ids that were sent, without a hole the destination
\* would skip; the ones it is done with, and all of them once it marks them,
\* the destination has passed.
JobInv(j) ==
  /\ j.batch \subseteq 0 .. next_id - 1 /\ j.todo \subseteq j.batch
  /\ j.skip => lost
  /\ ~lost =>
       /\ j.pc \in {"deliver", "one", "apply"} =>
            HoleFree(j.batch) /\ \A i \in j.batch \ j.todo : i < next_msg
       /\ j.pc = "mark" => \A i \in j.batch : i < next_msg

\* The same of a request nobody waits for.
RequestInv(r) ==
  /\ r.ids \subseteq 0 .. next_id - 1
  /\ ~lost =>
       /\ r.op = "DeliverMsgs" => HoleFree(r.ids)
       /\ r.op \in {"MarkMsgsDelivered", "MarkMsgDelivered"} =>
            \A i \in r.ids : i < next_msg

\* The inductive invariant: the properties above and what agents and late
\* requests carry.
DeliveryInv ==
  /\ TypeOK /\ HandledOnceInOrder /\ MarkedWereHandled
  /\ \A a \in Agent : JobInv(job[a])
  /\ \A r \in late : RequestInv(r)

\* do_one never meets a next_msg_id below the message it is about to deliver:
\* its "too far off" error is dead code while the OSD keeps its claim.
NeverTooFarOff ==
  \A a \in Agent : is_osd /\ job[a].pc = "one" =>
     \A i \in job[a].todo : IsFirst(i, job[a].todo) => i <= next_msg

\* The manager's log and the destination's counter together are a queue that
\* hands over each message once, in order, before it is dropped.
Queue == INSTANCE MessageQueue WITH sent <- next_id, unmarked <- queue, processed <- next_msg

\* Delivery implements that queue.
ImplementsQueue == Queue!QueueSpec

\* As long as one agent keeps coming back (run_forever in the maintenance
\* process), every message is handled, or its host is lost, and it leaves the
\* manager's log; whatever the other agents do, stop doing or repeat.
MessagesGetThrough ==
  \A i \in Id : i \in queue ~> i \notin queue /\ (lost \/ handled[i] = 1)
=============================================================================
