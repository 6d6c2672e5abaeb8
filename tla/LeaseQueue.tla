------------------------------ MODULE LeaseQueue ------------------------------
(***************************************************************************)
(* What the outbox promises, with nothing of how it keeps the promise      *)
(* (lib/core/outbox/service.ts).                                           *)
(*                                                                         *)
(* A queue of events that workers take one claim at a time.  Every claim   *)
(* of an event has a number of its own, and only the latest claim, and     *)
(* only until it expires, may settle the event or save its progress; what  *)
(* older claims write is void.  Outbox has neither clock-free expiry nor   *)
(* numbers: its leases are times, told apart by when a clock was read.     *)
(***************************************************************************)
EXTENDS Integers

CONSTANTS Workers, Events, MaxAttempts

VARIABLES
  state,    \* event -> its status
  attempts, \* event -> the attempts used up since an operator last requeued it
  token,    \* event -> the number of its latest claim
  saved,    \* event -> the claim that last saved its progress
  held      \* worker -> the claim it acts under, as a set of at most one

vars == <<state, attempts, token, saved, held>>

Init ==
  /\ state = [e \in Events |-> "absent"]
  /\ attempts = [e \in Events |-> 0] /\ token = [e \in Events |-> 0]
  /\ saved = [e \in Events |-> 0]
  /\ held = [w \in Workers |-> {}]

Becomes(e, before, after) == state[e] = before /\ state' = [state EXCEPT ![e] = after]

\* The claim a worker acts under is the latest one, and has not expired.
Valid(w, e) == state[e] = "processing" /\ <<e, token[e]>> \in held[w]

Add(e) == Becomes(e, "absent", "pending") /\ UNCHANGED <<attempts, token, saved, held>>

Withdraw(e) == Becomes(e, "pending", "completed") /\ UNCHANGED <<attempts, token, saved, held>>

Expire(e) == Becomes(e, "processing", "pending") /\ UNCHANGED <<attempts, token, saved, held>>

Revive(e) ==
  /\ Becomes(e, "dead_letter", "pending")
  /\ attempts' = [attempts EXCEPT ![e] = 0]
  /\ UNCHANGED <<token, saved, held>>

Take(w, e) ==
  /\ held[w] = {} /\ Becomes(e, "pending", "processing")
  /\ token' = [token EXCEPT ![e] = @ + 1]
  /\ held' = [held EXCEPT ![w] = {<<e, token[e] + 1>>}]
  /\ UNCHANGED <<attempts, saved>>

Drops(w) == held' = [held EXCEPT ![w] = {}]

\* The claim ends, and the event has not: it did not run, or is to go on.
GiveBack(w, e) ==
  /\ Valid(w, e) /\ Drops(w)
  /\ Becomes(e, "processing", "pending")
  /\ UNCHANGED <<attempts, token, saved>>

Complete(w, e) ==
  /\ Valid(w, e) /\ Drops(w)
  /\ Becomes(e, "processing", "completed")
  /\ UNCHANGED <<attempts, token, saved>>

\* An attempt is used up; after one that timed out the event is withheld a while.
Fail(w, e) ==
  /\ Valid(w, e) /\ Drops(w)
  /\ attempts' = [attempts EXCEPT ![e] = @ + 1]
  /\ IF attempts[e] + 1 >= MaxAttempts
     THEN Becomes(e, "processing", "dead_letter")
     ELSE \E after \in {"pending", "processing"} : Becomes(e, "processing", after)
  /\ UNCHANGED <<token, saved>>

Save(w, e) ==
  /\ Valid(w, e)
  /\ saved' = [saved EXCEPT ![e] = token[e]]
  /\ UNCHANGED <<state, attempts, token, held>>

\* The worker dies, or finds its claim expired or taken over.
Drop(w) == Drops(w) /\ UNCHANGED <<state, attempts, token, saved>>

Next ==
  \/ \E e \in Events : Add(e) \/ Withdraw(e) \/ Expire(e) \/ Revive(e)
  \/ \E w \in Workers, e \in Events :
       Take(w, e) \/ GiveBack(w, e) \/ Complete(w, e) \/ Fail(w, e) \/ Save(w, e)
  \/ \E w \in Workers : Drop(w)

Spec == Init /\ [][Next]_vars
==============================================================================
