----------------------------- MODULE OsdReclaim -----------------------------
(***************************************************************************)
(* The messages to an OSD that is purged and then added and claimed again, *)
(* as an OSD that is still running is when it shows up after its purge.    *)
(***************************************************************************)
EXTENDS MessageDelivery

CONSTANT MaxClaims   \* bound: how often the OSD is claimed after the first time

VARIABLE claims      \* how often it was

reclaimVars == <<queue, next_id, is_osd, lost, next_msg, handled, job, late, failures, claims>>

ReclaimInit == Init /\ is_osd /\ claims = 0

\* PurgeOsd drops the log of the old osd_id; AddOsd and MarkOsdClaimed give the
\* OSD a new osd_id, with a log of its own that starts at 0.  claim_osd finds
\* the OSD owned by this manager and writes nothing to it, so that next_msg_id
\* stays what it was.  What agents still do for the old osd_id is over.
Reclaim ==
  /\ claims < MaxClaims
  /\ claims' = claims + 1
  /\ queue' = {} /\ next_id' = 0
  /\ handled' = [i \in Id |-> 0]
  /\ job' = [a \in Agent |-> Idle]
  /\ late' = {}
  /\ UNCHANGED <<is_osd, lost, next_msg, failures>>

ReclaimNext ==
  \/ Next /\ UNCHANGED claims
  \/ Reclaim

ReclaimSpec == ReclaimInit /\ [][ReclaimNext]_reclaimVars
=============================================================================
