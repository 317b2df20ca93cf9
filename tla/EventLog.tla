------------------------------ MODULE EventLog ------------------------------
(***************************************************************************)
(* What the table of webhook events promises, without requests, jobs,      *)
(* Redis or crashes: an event is recorded once, taken up once and resolved *)
(* once; its record is stored at most once, while the event is taken up,   *)
(* and the verdict, with its explanation, says what became of it.          *)
(* WebhookInbox implements it.                                             *)
(***************************************************************************)
EXTENDS Naturals

CONSTANTS Webhooks    \* provider event ids

VARIABLES
  event,   \* the status of the event, or "absent"
  stored,  \* times the record of the event was stored
  noted    \* events with an error on record

vars == <<event, stored, noted>>

Init ==
  /\ event = [w \in Webhooks |-> "absent"]
  /\ stored = [w \in Webhooks |-> 0]
  /\ noted = {}

Becomes(w, from, to) ==
  event[w] = from /\ event' = [event EXCEPT ![w] = to]

Record(w) == Becomes(w, "absent", "received") /\ UNCHANGED <<stored, noted>>

TakeUp(w) == Becomes(w, "received", "processing") /\ UNCHANGED <<stored, noted>>

\* The record of an event that is taken up is stored.
Store(w) ==
  /\ event[w] = "processing" /\ stored[w] = 0
  /\ stored' = [stored EXCEPT ![w] = 1]
  /\ UNCHANGED <<event, noted>>

\* The verdicts, each written in one step with the explanation it needs: an
\* event is processed without an error if and only if its record is stored,
\* a failure is always explained, and an ignored event may be.
Explain(w) == noted' = noted \cup {w}

Process(w) ==
  /\ Becomes(w, "processing", "processed") /\ UNCHANGED stored
  /\ IF stored[w] = 1 THEN UNCHANGED noted ELSE Explain(w)

Ignore(w) ==
  /\ stored[w] = 0
  /\ Becomes(w, "processing", "ignored") /\ UNCHANGED stored
  /\ UNCHANGED noted \/ Explain(w)

Fail(w) ==
  /\ stored[w] = 0
  /\ Becomes(w, "processing", "failed") /\ UNCHANGED stored
  /\ Explain(w)

Next == \E w \in Webhooks :
  Record(w) \/ TakeUp(w) \/ Store(w) \/ Process(w) \/ Ignore(w) \/ Fail(w)

Spec == Init /\ [][Next]_vars
=============================================================================
