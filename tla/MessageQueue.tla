---------------------------- MODULE MessageQueue ----------------------------
(***************************************************************************)
(* What the manager relies on when it sends messages to a namespace host   *)
(* or an OSD: the destination handles them once each and in the order of   *)
(* their ids, and only then do they leave the manager's queue.  Once a     *)
(* namespace host has been declared lost only the order is left.           *)
(***************************************************************************)
EXTENDS Naturals

CONSTANT Id           \* the ids of messages

VARIABLES sent,       \* the number of messages sent, also the next id
          unmarked,   \* the ids not yet marked as delivered
          processed,  \* the destination is done with the ids below this one
          handled,    \* how often the destination handled each message
          lost        \* the destination was declared lost

queueVars == <<sent, unmarked, processed, handled, lost>>

QueueInit ==
  /\ sent = 0
  /\ unmarked = {}
  /\ processed = 0
  /\ handled = [i \in Id |-> 0]
  /\ lost = FALSE

\* The manager appends messages.
Send ==
  /\ sent' > sent
  /\ unmarked' = unmarked \union (sent .. sent' - 1)
  /\ UNCHANGED <<processed, handled, lost>>

\* The destination handles the next messages, leaving none out.
Process ==
  /\ processed < processed' /\ processed' <= sent
  /\ handled' = [i \in Id |-> IF processed <= i /\ i < processed'
                              THEN handled[i] + 1 ELSE handled[i]]
  /\ UNCHANGED <<sent, unmarked, lost>>

\* Messages leave the queue, each of them handled.
Mark ==
  /\ unmarked' \subseteq unmarked
  /\ \A i \in unmarked \ unmarked' : i < processed
  /\ UNCHANGED <<sent, processed, handled, lost>>

Lose ==
  /\ lost' = TRUE
  /\ UNCHANGED <<sent, unmarked, processed, handled>>

\* After that messages may be marked unhandled, and later ones still arrive.
AfterLoss ==
  /\ lost
  /\ unmarked' \subseteq unmarked
  /\ processed' >= processed
  /\ \A i \in Id : handled'[i] # handled[i] =>
                     i >= processed /\ i < processed' /\ handled'[i] = 1
  /\ UNCHANGED <<sent, lost>>

QueueNext == Send \/ Process \/ Mark \/ Lose \/ AfterLoss

QueueSpec == QueueInit /\ [][QueueNext]_queueVars
=============================================================================
