-------------------------- MODULE DedupedDelivery ---------------------------
(***************************************************************************)
(* deliver_osd_messages_deduped: within one client the threads that want   *)
(* the messages of one OSD delivered share a round of delivery.  The first *)
(* one runs a round; those that come while it runs wait for a second one,  *)
(* which starts when the first has ended.  A round delivers the messages   *)
(* that were sent before it started.                                       *)
(***************************************************************************)
EXTENDS Naturals, FiniteSets

CONSTANTS Caller,    \* the threads
          MaxSent,   \* bound: the number of messages sent
          MaxCalls   \* bound: how often each thread calls

VARIABLES entry,   \* osd_msg_delivery_threads of the OSD: {} or {waiting threads}
          first,   \* {} or {the thread that runs a round itself}
          second,  \* the rounds started by Lwt.async: their wakers and start
          sent,    \* the messages the manager sent so far
          start,   \* what was sent when the round of first started
          wants,   \* what was sent when each thread called
          got,     \* what was sent when the round that answered it started
          doing,   \* what each thread does
          calls    \* how often it called

dedupedVars == <<entry, first, second, sent, start, wants, got, doing, calls>>

DedupedInit ==
  /\ entry = {} /\ first = {} /\ second = {}
  /\ sent = 0 /\ start = 0
  /\ wants = [c \in Caller |-> 0] /\ got = [c \in Caller |-> 0]
  /\ doing = [c \in Caller |-> "idle"]
  /\ calls = [c \in Caller |-> 0]

\* the manager adds a message for the OSD
SendMsg ==
  /\ sent < MaxSent
  /\ sent' = sent + 1
  /\ UNCHANGED <<entry, first, second, start, wants, got, doing, calls>>

\* the two cases of the match on the table
Call(c) ==
  /\ doing[c] \in {"idle", "delivered", "failed"} /\ calls[c] < MaxCalls
  /\ calls' = [calls EXCEPT ![c] = @ + 1]
  /\ wants' = [wants EXCEPT ![c] = sent]
  /\ IF entry = {}
     THEN /\ entry' = {{}} /\ first' = {c} /\ start' = sent
          /\ doing' = [doing EXCEPT ![c] = "running"]
     ELSE /\ entry' = {wakers \union {c} : wakers \in entry}
          /\ doing' = [doing EXCEPT ![c] = "waiting"]
          /\ UNCHANGED <<first, start>>
  /\ UNCHANGED <<second, sent, got>>

FinalizeStale ==
  IF entry = {{}}
  THEN entry' = {} /\ UNCHANGED second
  ELSE /\ entry' = {{}}
       /\ second' = second \union {[wakers |-> wakers, start |-> start] : wakers \in entry}

FinalizeWithoutReset ==
  IF entry = {{}}
  THEN entry' = {} /\ UNCHANGED second
  ELSE /\ entry' = entry
       /\ second' = second \union {[wakers |-> wakers, start |-> sent] : wakers \in entry}

\* the finalizer: a second round for those that wait, and otherwise the entry
\* is removed
Finalize ==
  IF entry = {{}}
  THEN entry' = {} /\ UNCHANGED second
  ELSE /\ entry' = {{}}
       /\ second' = second \union {[wakers |-> wakers, start |-> sent] : wakers \in entry}

\* The round of the first thread ends, with a result, an error or the timeout.
FirstEnds(c) ==
  /\ c \in first
  /\ first' = {}
  /\ \E result \in {"delivered", "failed"} : doing' = [doing EXCEPT ![c] = result]
  /\ got' = [got EXCEPT ![c] = start]
  /\ Finalize
  /\ UNCHANGED <<sent, start, wants, calls>>

\* A second round ends and wakes its threads.
SecondEnds(r) ==
  /\ r \in second
  /\ second' = second \ {r}
  /\ \E result \in {"delivered", "failed"} :
        doing' = [c \in Caller |-> IF c \in r.wakers THEN result ELSE doing[c]]
  /\ got' = [c \in Caller |-> IF c \in r.wakers THEN r.start ELSE got[c]]
  /\ UNCHANGED <<entry, first, sent, start, wants, calls>>

RoundEnds == (\E c \in first : FirstEnds(c)) \/ (\E r \in second : SecondEnds(r))

DedupedNext == SendMsg \/ (\E c \in Caller : Call(c)) \/ RoundEnds

DedupedSpec == DedupedInit /\ [][DedupedNext]_dedupedVars

\* Every round ends, by with_timeout_no_cancel or with its last request; the
\* rounds are threads of their own.
DedupedFairSpec ==
  /\ DedupedSpec
  /\ \A c \in Caller : WF_dedupedVars(FirstEnds(c))
  /\ \A r \in [wakers : SUBSET Caller, start : 0 .. MaxSent] : WF_dedupedVars(SecondEnds(r))

-----------------------------------------------------------------------------
\* A thread that was told that delivery succeeded may rely on every message
\* sent before its call: it is never answered by a round that had already
\* started, and never by one started for threads of an earlier time.
AnswersAreFresh ==
  \A c \in Caller : doing[c] = "delivered" => got[c] >= wants[c]

\* A thread that waits is known to exactly one place that will wake it, the
\* table or one running round, so that no waker is used twice (Lwt.wakeup fails
\* on the second use) and none is forgotten by the finalizer.
WaitersAreKnownOnce ==
  \A c \in Caller :
     Cardinality({w \in entry : c \in w}) + Cardinality({r \in second : c \in r.wakers})
       = (IF doing[c] = "waiting" THEN 1 ELSE 0)

\* Every thread that asks for delivery is answered: its round, or the one it
\* waits for, comes to an end.
CallersAreAnswered ==
  \A c \in Caller : doing[c] \in {"running", "waiting"} ~> doing[c] \in {"delivered", "failed"}
=============================================================================
