-------------------------- MODULE IdempotencyProofs ---------------------------
(***************************************************************************)
(* Theorems about the idempotency service and the chat sends that use its  *)
(* claims, for every number of callers and every setting of the times.     *)
(***************************************************************************)
EXTENDS ChatSend, TLAPS

Writers == {"storing", "recording", "releasing"}
Holders == {"running"} \cup Writers

Callings == [pc : Steps, clock : Nat, token : Nat, due : Nat, seen : Entries]

\* What is stored, and what calls remember, are of their types; tokens have been
\* handed out, no two holders have the same, and a claim under way read the
\* clock before.  An entry of Redis outlives the lease it carries.
Shape ==
  /\ service \in Services /\ now \in Nat /\ entry \in Entries /\ claims \in Nat
  /\ recorded \in Nat \cup {NoTime}
  /\ caller \in [Callers -> Callings]
  /\ entry.token <= claims
  /\ entry.status = "in-progress" => entry.expires <= entry.gone
  /\ \A c \in Callers :
       /\ caller[c].pc = "claiming" => caller[c].clock <= now
       /\ caller[c].pc = "clearing" => caller[c].seen.status = "failed"
       /\ caller[c].pc \in Holders => caller[c].token <= claims
  /\ \A b, c \in Callers : /\ caller[b].pc \in Holders /\ caller[c].pc \in Holders
                           /\ caller[b].token = caller[c].token
                           => b = c

\* A running operation holds the entry, and is due before its lease ends.
Runs ==
  \A c \in Callers : caller[c].pc = "running" =>
    /\ entry.status = "in-progress" /\ entry.token = caller[c].token
    /\ now <= caller[c].due
    /\ caller[c].due < entry.expires /\ caller[c].due < entry.gone

\* A claim that is punctual is made within Latency.
Prompt == \A c \in Callers : caller[c].pc = "claiming" =>
            /\ caller[c].due = caller[c].clock + Latency /\ now <= caller[c].due

RunInv == Shape /\ Prompt /\ Runs

------------------------------------------------------------------------------
LEMMA EntryShape ==
  ASSUME NEW s \in {"none", "in-progress", "completed", "failed"},
         NEW t \in Nat, NEW cr \in Nat, NEW ex \in Nat, NEW g \in Nat
  PROVE  [status |-> s, token |-> t, created |-> cr, expires |-> ex, gone |-> g] \in Entries
  BY DEF Entries

LEMMA NoEntryShape == NoEntry \in Entries
  BY EntryShape DEF NoEntry, Entries

LEMMA IdleShape == Idle \in Callings
  BY NoEntryShape DEF Idle, Callings, Steps

LEMMA ShapeInit == Init => Shape
<1>1. FailedBefore \in Entries
  BY EntryShape, LeaseAssumption DEF FailedBefore
<1> QED
  BY <1>1, NoEntryShape, IdleShape
     DEF Init, Shape, NoTime, NoEntry, FailedBefore, Idle, Holders, Writers

\* Idle calls are what Idle says, in all the ways a proof may ask.
LEMMA EndsShape ==
  ASSUME Shape, NEW c \in Callers, Ends(c)
  PROVE  /\ caller' \in [Callers -> Callings]
         /\ caller'[c].pc = "idle"
         /\ \A b \in Callers : b # c => caller'[b] = caller[b]
  BY IdleShape DEF Shape, Ends, Idle

LEMMA StoredShape ==
  ASSUME Shape, NEW c \in Callers, NEW s \in {"completed", "failed"}, caller[c].pc \in Holders
  PROVE  /\ Stored(c, s) \in Entries /\ Deleted(c) \in Entries
         /\ Stored(c, s).token <= claims /\ Deleted(c).token <= claims
         /\ Stored(c, s) # entry => Owns(c) /\ Stored(c, s).status = s
         /\ Deleted(c) # entry => Owns(c) /\ Deleted(c).status = "none"
<1>1. /\ now \in Nat /\ entry \in Entries /\ claims \in Nat /\ caller[c] \in Callings
      /\ caller[c].token \in Nat /\ caller[c].token <= claims
  BY DEF Shape, Callings
<1>2. now + Ttl \in Nat
  BY <1>1, LeaseAssumption
<1>3. [status |-> s, token |-> caller[c].token, created |-> now, expires |-> 0,
       gone |-> now + Ttl] \in Entries
  BY <1>1, <1>2, EntryShape
<1>4. Stored(c, s) \in Entries /\ Deleted(c) \in Entries
  BY <1>1, <1>3, NoEntryShape DEF Stored, Deleted
<1>5. Stored(c, s).token <= claims /\ Deleted(c).token <= claims
  BY <1>1 DEF Stored, Deleted, Shape, NoEntry
<1> QED
  BY <1>4, <1>5 DEF Stored, Deleted, NoEntry

\* A step that changes one call, and leaves the entry alone.
LEMMA OneCall ==
  ASSUME Shape, NEW c \in Callers, UNCHANGED <<service, now, entry, claims>>,
         caller' \in [Callers -> Callings],
         \A b \in Callers : b # c => caller'[b] = caller[b],
         caller'[c].pc = "claiming" => caller'[c].clock <= now,
         caller'[c].pc = "clearing" => caller'[c].seen.status = "failed",
         caller'[c].pc \in Holders =>
           caller[c].pc \in Holders /\ caller'[c].token = caller[c].token,
         recorded' \in Nat \cup {NoTime}
  PROVE  Shape'
  BY DEF Shape

\* A holder writes the entry, and ends or goes on.
LEMMA OneWrite ==
  ASSUME Shape, NEW c \in Callers, UNCHANGED <<service, now, claims>>,
         caller' \in [Callers -> Callings],
         \A b \in Callers : b # c => caller'[b] = caller[b],
         caller'[c].pc \notin {"claiming", "clearing"},
         caller'[c].pc \in Holders =>
           caller[c].pc \in Holders /\ caller'[c].token = caller[c].token,
         entry' \in Entries, entry'.token <= claims,
         entry' # entry => entry'.status # "in-progress",
         recorded' \in Nat \cup {NoTime}
  PROVE  Shape'
  BY DEF Shape

LEMMA HeedShape ==
  ASSUME Shape, NEW c \in Callers, caller[c].pc \in {"claiming", "looking"}, Heed(c)
  PROVE  /\ caller' \in [Callers -> Callings]
         /\ \A b \in Callers : b # c => caller'[b] = caller[b]
         /\ caller'[c].pc \in {"idle", "clearing", "waiting"}
         /\ caller'[c].pc = "clearing" => caller'[c].seen.status = "failed"
<1>1. CASE entry.status = "failed" /\ RetryFailures
  <2>1. caller' = [caller EXCEPT ![c].pc = "clearing", ![c].seen = entry]
    BY <1>1 DEF Heed
  <2>2. entry \in Entries /\ caller \in [Callers -> Callings]
    BY DEF Shape
  <2> DEFINE d == [caller[c] EXCEPT !.pc = "clearing", !.seen = entry]
  <2>3. d \in Callings /\ d.pc = "clearing" /\ d.seen = entry
    BY <2>2 DEF Callings, Steps
  <2>4. caller' = [caller EXCEPT ![c] = d]
    BY <2>1
  <2> HIDE DEF d
  <2> QED
    BY <1>1, <2>2, <2>3, <2>4
<1>2. CASE entry.status = "in-progress"
  <2>1. caller' = [caller EXCEPT ![c].pc = "waiting", ![c].due = entry.expires]
    BY <1>2 DEF Heed
  <2>2. entry.expires \in Nat /\ caller \in [Callers -> Callings]
    BY DEF Shape, Entries
  <2> DEFINE d == [caller[c] EXCEPT !.pc = "waiting", !.due = entry.expires]
  <2>3. d \in Callings /\ d.pc = "waiting"
    BY <2>2 DEF Callings, Steps
  <2>4. caller' = [caller EXCEPT ![c] = d]
    BY <2>1
  <2> HIDE DEF d
  <2> QED
    BY <2>2, <2>3, <2>4
<1>3. CASE entry.status # "in-progress" /\ ~(entry.status = "failed" /\ RetryFailures)
  <2>1. Ends(c)
    BY <1>3 DEF Heed
  <2> QED
    BY <2>1, EndsShape
<1> QED
  BY <1>1, <1>2, <1>3

LEMMA ShapeStep == Shape /\ [Next]_vars => Shape'
<1> SUFFICES ASSUME Shape, [Next]_vars PROVE Shape'
  OBVIOUS
<1>0. CASE UNCHANGED vars
  BY <1>0 DEF Shape, vars
<1>1. CASE Tick
  <2>1. now \in Nat /\ now' \in Nat /\ now <= now'
    BY <1>1 DEF Tick, Shape
  <2>2. \A c \in Callers : caller[c].clock \in Nat
    BY DEF Shape, Callings
  <2> QED
    BY <1>1, <2>1, <2>2 DEF Tick, Shape
<1>2. ASSUME NEW c \in Callers, Call(c) PROVE Shape'
  <2>1. now \in Nat /\ now + Latency \in Nat
    BY LeaseAssumption DEF Shape
  <2>2. caller' \in [Callers -> Callings]
    BY <1>2, <2>1, IdleShape DEF Call, Shape, Callings, Idle, Steps
  <2> QED
    BY <1>2, <2>1, <2>2, OneCall DEF Call, Shape, Holders, Writers, Idle
<1>3. ASSUME NEW c \in Callers, Claim(c) PROVE Shape'
  <2>1. /\ now \in Nat /\ claims \in Nat /\ caller[c] \in Callings /\ caller[c].clock \in Nat
        /\ caller[c].clock <= now
    BY <1>3 DEF Shape, Callings, Claim
  <2>2. /\ now + Budget \in Nat /\ now + Lease \in Nat /\ caller[c].clock + Lease \in Nat
        /\ claims + 1 \in Nat /\ caller[c].clock + Lease <= now + Lease
    BY <2>1, LeaseAssumption
  <2>3. entry' \in Entries
    BY <1>3, <2>1, <2>2, EntryShape DEF Claim
  <2>4. caller' \in [Callers -> Callings]
    BY <1>3, <2>1, <2>2 DEF Claim, Shape, Callings, Steps
  <2>5. /\ claims' = claims + 1 /\ entry'.token = claims + 1 /\ entry'.expires <= entry'.gone
        /\ caller'[c].pc = "running" /\ caller'[c].token = claims + 1
        /\ \A b \in Callers : b # c => caller'[b] = caller[b]
    BY <1>3, <2>1, <2>2 DEF Claim, Shape
  <2>6. \A b \in Callers : caller[b].pc \in Holders =>
          caller[b].token \in Nat /\ caller[b].token <= claims /\ caller[b].token # claims + 1
    BY <2>1 DEF Shape, Callings
  <2> QED
    BY <1>3, <2>1, <2>2, <2>3, <2>4, <2>5, <2>6 DEF Claim, Shape
<1>4. ASSUME NEW c \in Callers, Refused(c) \/ Look(c) PROVE Shape'
  <2>1. CASE Heed(c)
    BY <1>4, <2>1, HeedShape, OneCall DEF Refused, Look, Shape, Holders, Writers
  <2>2. CASE caller' = [caller EXCEPT ![c].pc = "looking"]
    <3>1. caller' \in [Callers -> Callings]
      BY <2>2 DEF Shape, Callings, Steps
    <3> QED
      BY <1>4, <2>2, <3>1, OneCall DEF Refused, Look, Shape, Holders, Writers
  <2> QED
    BY <1>4, <2>1, <2>2 DEF Refused, Look
<1>5. ASSUME NEW c \in Callers, Clear(c) PROVE Shape'
  <2>1. now \in Nat /\ now + Latency \in Nat
    BY LeaseAssumption DEF Shape
  <2>2. caller' \in [Callers -> Callings]
    BY <1>5, <2>1, IdleShape DEF Clear, Shape, Callings, Idle, Steps
  <2>3. entry' \in Entries /\ entry'.token <= claims
        /\ (entry'.status = "in-progress" => entry'.expires <= entry'.gone)
    BY <1>5, NoEntryShape DEF Clear, Shape, NoEntry
  <2> QED
    BY <1>5, <2>1, <2>2, <2>3 DEF Clear, Shape, Holders, Writers, Idle
<1>6. ASSUME NEW c \in Callers, Poll(c) \/ StopWaiting(c) \/ Abandon(c) PROVE Shape'
  BY <1>6, EndsShape, OneCall DEF Poll, StopWaiting, Abandon, Shape, Holders, Writers
<1>7. ASSUME NEW c \in Callers, Succeeds(c) \/ Throws(c) \/ SetupFails(c) PROVE Shape'
  <2>1. caller' \in [Callers -> Callings]
    BY <1>7 DEF Succeeds, Throws, SetupFails, Shape, Callings, Steps
  <2>2. caller'[c].pc \in Writers /\ caller'[c].token = caller[c].token
    BY <1>7 DEF Succeeds, Throws, SetupFails, Shape, Writers, Callings
  <2> QED
    BY <1>7, <2>1, <2>2, OneCall DEF Succeeds, Throws, SetupFails, Shape, Holders, Writers
<1>8. ASSUME NEW c \in Callers, StoreResult(c) \/ RecordFailure(c) \/ Release(c) PROVE Shape'
  <2>1. caller[c].pc \in Holders
    BY <1>8 DEF StoreResult, RecordFailure, Release, Holders, Writers
  <2>2. entry' \in Entries /\ entry'.token <= claims
        /\ (entry' # entry => entry'.status # "in-progress")
    BY <1>8, <2>1, StoredShape DEF StoreResult, RecordFailure, Release
  <2>3. Ends(c) /\ UNCHANGED <<service, now, claims>>
        /\ recorded' \in Nat \cup {NoTime}
    BY <1>8 DEF StoreResult, RecordFailure, Release, Shape
  <2>4. /\ caller' \in [Callers -> Callings] /\ caller'[c].pc = "idle"
        /\ \A b \in Callers : b # c => caller'[b] = caller[b]
    BY <2>3, EndsShape
  <2>5. caller'[c].pc \notin {"claiming", "clearing"} /\ caller'[c].pc \notin Holders
    BY <2>4 DEF Holders, Writers
  <2> QED
    BY <2>2, <2>3, <2>4, <2>5, OneWrite
<1>9. ASSUME NEW c \in Callers, StoreThrows(c) PROVE Shape'
  <2>1. caller[c].pc \in Holders /\ caller[c].pc = "storing"
    BY <1>9 DEF StoreThrows, Holders, Writers
  <2>2. entry' \in Entries /\ entry'.token <= claims
        /\ (entry' # entry => entry'.status # "in-progress")
        /\ recorded' \in Nat \cup {NoTime}
    BY <1>9, <2>1, StoredShape DEF StoreThrows, Shape
  <2>3. caller' \in [Callers -> Callings] /\ caller'[c].pc \in {"releasing", "recording"}
        /\ caller'[c].token = caller[c].token
        /\ \A b \in Callers : b # c => caller'[b] = caller[b]
    BY <1>9 DEF StoreThrows, AfterFailure, Shape, Callings, Steps
  <2> QED
    BY <1>9, <2>1, <2>2, <2>3, OneWrite DEF StoreThrows, Shape
<1> QED
  BY <1>0, <1>1, <1>2, <1>3, <1>4, <1>5, <1>6, <1>7, <1>8, <1>9 DEF Next, Proceed

\* Spec => []TypeOK, for every number of callers and every setting of the times.
THEOREM Types == Spec => []TypeOK
<1>1. Shape => TypeOK
  BY DEF Shape, TypeOK, Callings
<1> QED
  BY <1>1, ShapeInit, ShapeStep, PTL DEF Spec

------------------------------------------------------------------------------
(* One runner at a time.                                                    *)

LEMMA RunInit == Init => RunInv
  BY ShapeInit DEF Init, RunInv, Prompt, Runs, Idle

\* Whoever writes owns the entry, so it is not the entry of another's operation.
LEMMA WritersApart ==
  ASSUME Shape, Runs, NEW b \in Callers, NEW c \in Callers, b # c,
         caller[b].pc = "running", caller[c].pc \in Holders
  PROVE  ~Owns(c)
  BY DEF Shape, Runs, Owns, Holders

\* A lease is live as long as the operation that runs under it.
LEMMA NotClaimable ==
  ASSUME Shape, Runs, NEW b \in Callers, caller[b].pc = "running",
         NEW t \in Nat, t <= now
  PROVE  ~Claimable(t)
<1>1. /\ entry.status = "in-progress" /\ now <= caller[b].due
      /\ caller[b].due < entry.expires /\ caller[b].due < entry.gone
  BY DEF Runs
<1>2. now \in Nat /\ caller[b].due \in Nat /\ entry.expires \in Nat /\ entry.gone \in Nat
  BY DEF Shape, Callings, Entries
<1> QED
  BY <1>1, <1>2 DEF Claimable, Present

\* What a step of one call may do to the operations of the others.
LEMMA OthersRun ==
  ASSUME Shape, Runs, NEW c \in Callers, UNCHANGED now,
         \A b \in Callers : b # c => caller'[b] = caller[b],
         caller'[c].pc # "running",
         (\E b \in Callers : b # c /\ caller[b].pc = "running") => entry' = entry
  PROVE  Runs'
  BY DEF Shape, Runs

LEMMA RunStep == Punctual /\ RunInv /\ [Next]_vars => RunInv'
<1> SUFFICES ASSUME Punctual, RunInv, [Next]_vars PROVE Prompt' /\ Runs'
  BY ShapeStep DEF RunInv
<1> USE DEF RunInv
<1>0. CASE UNCHANGED vars
  BY <1>0 DEF Prompt, Runs, vars
<1>1. CASE Tick
  <2>1. \A c \in Callers : caller[c].pc \in {"claiming", "running"} => now < caller[c].due
    BY <1>1 DEF Tick, Urgent
  <2>2. now \in Nat /\ now' = now + 1 /\ \A c \in Callers : caller[c].due \in Nat
    BY <1>1 DEF Tick, Shape, Callings
  <2> QED
    BY <1>1, <2>1, <2>2 DEF Tick, Prompt, Runs
<1>2. ASSUME NEW c \in Callers, Call(c) \/ Clear(c) PROVE Prompt' /\ Runs'
  <2>1. now \in Nat /\ now <= now + Latency
    BY LeaseAssumption DEF Shape
  <2>2. /\ caller'[c].pc = "claiming" /\ caller'[c].clock = now /\ caller'[c].due = now + Latency
        /\ \A b \in Callers : b # c => caller'[b] = caller[b]
    BY <1>2 DEF Call, Clear, Shape, Idle
  <2>3. ASSUME NEW b \in Callers, caller[b].pc = "running" PROVE entry' = entry
    BY <1>2, <2>3 DEF Call, Clear, Runs, Observed, Shape
  <2> QED
    BY <1>2, <2>1, <2>2, <2>3, OthersRun DEF Call, Clear, Prompt
<1>3. ASSUME NEW c \in Callers, Claim(c) PROVE Prompt' /\ Runs'
  <2>1. /\ now \in Nat /\ caller[c].clock \in Nat /\ caller[c].due \in Nat
        /\ caller[c].clock <= now /\ now <= caller[c].clock + Latency
    BY <1>3 DEF Claim, Shape, Prompt, Callings
  <2>2. \A b \in Callers : caller[b].pc # "running"
    BY <1>3, <2>1, NotClaimable DEF Claim
  <2>3. /\ caller'[c].pc = "running" /\ caller'[c].token = entry'.token
        /\ caller'[c].due = now + Budget /\ entry'.status = "in-progress"
        /\ entry'.expires = caller[c].clock + Lease /\ entry'.gone = now + Lease
        /\ now' = now /\ \A b \in Callers : b # c => caller'[b] = caller[b]
    BY <1>3 DEF Claim, Shape, Callings
  <2>4. now <= now + Budget /\ now + Budget < caller[c].clock + Lease /\ now + Budget < now + Lease
    BY <2>1, LeaseAssumption
  <2> QED
    BY <2>2, <2>3, <2>4 DEF Prompt, Runs
<1>4. ASSUME NEW c \in Callers, Refused(c) \/ Look(c) PROVE Prompt' /\ Runs'
  <2>1. /\ \A b \in Callers : b # c => caller'[b] = caller[b]
        /\ caller'[c].pc \in {"idle", "clearing", "waiting", "looking"}
    <3>1. CASE Heed(c)
      BY <1>4, <3>1, HeedShape DEF Refused, Look
    <3>2. CASE caller' = [caller EXCEPT ![c].pc = "looking"]
      BY <3>2 DEF Shape, Callings
    <3> QED
      BY <1>4, <3>1, <3>2 DEF Refused, Look
  <2> QED
    BY <1>4, <2>1, OthersRun DEF Refused, Look, Prompt
<1>5. ASSUME NEW c \in Callers, Poll(c) \/ StopWaiting(c) \/ Abandon(c) PROVE Prompt' /\ Runs'
  BY <1>5, EndsShape, OthersRun DEF Poll, StopWaiting, Abandon, Prompt
<1>6. ASSUME NEW c \in Callers, Succeeds(c) \/ Throws(c) \/ SetupFails(c) PROVE Prompt' /\ Runs'
  <2>1. /\ caller'[c].pc \in Writers /\ \A b \in Callers : b # c => caller'[b] = caller[b]
    BY <1>6 DEF Succeeds, Throws, SetupFails, Shape, Writers, Callings
  <2> QED
    BY <1>6, <2>1, OthersRun DEF Succeeds, Throws, SetupFails, Prompt, Writers
<1>7. ASSUME NEW c \in Callers, StoreResult(c) \/ RecordFailure(c) \/ Release(c) \/ StoreThrows(c)
      PROVE  Prompt' /\ Runs'
  <2>1. caller[c].pc \in Writers
    BY <1>7 DEF StoreResult, RecordFailure, Release, StoreThrows, Writers
  <2>2. entry' # entry => Owns(c)
    BY <1>7 DEF StoreResult, RecordFailure, Release, StoreThrows, Stored, Deleted
  <2>3. /\ caller'[c].pc \in {"idle", "releasing", "recording"}
        /\ \A b \in Callers : b # c => caller'[b] = caller[b]
    <3>1. CASE Ends(c)
      BY <3>1, EndsShape
    <3>2. CASE caller' = [caller EXCEPT ![c].pc = AfterFailure]
      BY <3>2 DEF AfterFailure, Shape, Callings
    <3> QED
      BY <1>7, <3>1, <3>2 DEF StoreResult, RecordFailure, Release, StoreThrows
  <2>4. UNCHANGED now
    BY <1>7 DEF StoreResult, RecordFailure, Release, StoreThrows
  <2> QED
    BY <2>1, <2>2, <2>3, <2>4, WritersApart, OthersRun DEF Prompt, Holders
<1> QED
  BY <1>0, <1>1, <1>2, <1>3, <1>4, <1>5, <1>6, <1>7 DEF Next, Proceed

\* While operations keep their time limit no two of them run at a time, however
\* many callers there are, whatever is retried, and whoever crashes.
THEOREM OneAtATime == Spec => []OneRunner
<1>1. RunInv => OneRunner
  BY DEF RunInv, Shape, Runs, OneRunner, Holders
<1>2. CASE Punctual
  BY <1>1, <1>2, RunInit, RunStep, PTL DEF Spec
<1>3. CASE ~Punctual
  <2>1. OneRunner
    BY <1>3 DEF OneRunner
  <2> QED
    BY <2>1, PTL
<1> QED
  BY <1>2, <1>3

------------------------------------------------------------------------------
(* What stands.                                                             *)

\* Steps that leave the entry of a claim alone, and those that own it.
LEMMA ClaimStep == Shape /\ [Next]_vars =>
  (entry.status = "in-progress" /\ entry' # entry
     => \/ \E c \in Callers : caller[c].token = entry.token /\ caller'[c] # caller[c]
        \/ now >= entry.expires)
<1> SUFFICES ASSUME Shape, [Next]_vars, entry.status = "in-progress", entry' # entry,
                    ~(now >= entry.expires)
             PROVE  \E c \in Callers : caller[c].token = entry.token /\ caller'[c] # caller[c]
  OBVIOUS
<1>1. ASSUME NEW c \in Callers, Claim(c) PROVE FALSE
  <2>1. /\ now \in Nat /\ caller[c].clock \in Nat /\ caller[c].clock <= now
        /\ entry.expires \in Nat /\ entry.gone \in Nat /\ entry.expires <= entry.gone
    BY <1>1 DEF Claim, Shape, Callings, Entries
  <2> QED
    BY <1>1, <2>1 DEF Claim, Claimable, Present
<1>2. ASSUME NEW c \in Callers, Clear(c) PROVE FALSE
  BY <1>2 DEF Clear, Observed, Shape
<1>3. ASSUME NEW c \in Callers, StoreResult(c) \/ RecordFailure(c) \/ Release(c) \/ StoreThrows(c)
      PROVE  caller[c].token = entry.token /\ caller'[c] # caller[c]
  <2>1. Owns(c) /\ caller[c].pc \in Writers
    BY <1>3 DEF StoreResult, RecordFailure, Release, StoreThrows, Stored, Deleted, Writers
  <2>2. CASE Ends(c)
    BY <2>1, <2>2, EndsShape DEF Owns, Writers
  <2>3. CASE StoreThrows(c)
    BY <2>1, <2>3 DEF StoreThrows, AfterFailure, Owns, Shape, Callings
  <2> QED
    BY <1>3, <2>2, <2>3 DEF StoreResult, RecordFailure, Release
<1> QED
  BY <1>1, <1>2, <1>3
     DEF Next, Proceed, vars, Tick, Call, Refused, Look, Poll, StopWaiting, Succeeds, Throws,
         SetupFails, Abandon

\* A live claim is ended by its holder, or by nobody before its lease is over.
THEOREM ClaimsStand == Spec => ClaimRespected
  BY ShapeInit, ShapeStep, ClaimStep, PTL DEF Spec, ClaimRespected

\* While a stored success is to be kept, the entry says so (or that its holder's
\* write failed), and nobody who might remove it holds its token.
Kept ==
  /\ \A c \in Callers : caller[c].pc = "clearing" => RetryFailures
  /\ recorded # NoTime => recorded <= now
  /\ recorded # NoTime /\ now < recorded + Ttl =>
       /\ entry.status = "completed" \/ (entry.status = "failed" /\ ~RetryFailures)
       /\ entry.created >= recorded /\ entry.gone >= recorded + Ttl
       /\ \A c \in Callers :
            \/ caller[c].pc \in {"running", "storing", "releasing"}
            \/ caller[c].pc = "recording" /\ RetryFailures
            => caller[c].token # entry.token

LEMMA KeptInit == Init => Kept
  BY DEF Init, Kept, Idle

LEMMA KeptNotClaimable ==
  ASSUME Shape, Kept, recorded # NoTime, now < recorded + Ttl, NEW t \in Nat, t <= now
  PROVE  ~Claimable(t)
<1>1. /\ now \in Nat /\ recorded \in Nat /\ entry.created \in Nat /\ entry.gone \in Nat
      /\ Ttl \in Nat
  BY LeaseAssumption DEF Shape, Entries
<1>2. /\ entry.status \in {"completed", "failed"}
      /\ entry.created >= recorded /\ entry.gone >= recorded + Ttl
  BY DEF Kept
<1> QED
  BY <1>1, <1>2 DEF Claimable, Present

\* Replies are lost only where failures are not retried.
Assured == \A s \in Services : "applied" \in s.faults => ~s.retryFailures

LEMMA SameService == [Next]_vars => service' = service
  BY DEF Next, Proceed, vars, Tick, Call, Claim, Refused, Look, Clear, Poll, StopWaiting, Succeeds,
         Throws, SetupFails, StoreResult, StoreThrows, RecordFailure, Release, Abandon

LEMMA KeptStep == Assured /\ Shape /\ Kept /\ [Next]_vars => Kept'
<1> SUFFICES ASSUME Assured, Shape, Kept, [Next]_vars PROVE Kept'
  OBVIOUS
<1>a. ("applied" \in Faults => ~RetryFailures) /\ RetryFailures' = RetryFailures
  BY SameService DEF Assured, Shape, Faults, RetryFailures
<1> USE <1>a
<1>t. /\ now \in Nat /\ recorded \in Nat \cup {NoTime} /\ Ttl \in Nat
  BY LeaseAssumption DEF Shape
<1>0. CASE UNCHANGED vars
  BY <1>0 DEF Kept, vars
<1>1. CASE Tick
  BY <1>1, <1>t DEF Tick, Kept, NoTime
<1>2. ASSUME NEW c \in Callers, Call(c) PROVE Kept'
  BY <1>2 DEF Call, Kept, Shape, Idle
<1>3. ASSUME NEW c \in Callers, Claim(c) PROVE Kept'
  <2>1. ~(recorded # NoTime /\ now < recorded + Ttl)
    BY <1>3, KeptNotClaimable DEF Claim, Shape, Callings
  <2>2. \A b \in Callers : caller'[b].pc = "clearing" => caller[b].pc = "clearing"
    BY <1>3 DEF Claim, Shape, Callings
  <2> QED
    BY <1>3, <2>1, <2>2 DEF Claim, Kept
<1>4. ASSUME NEW c \in Callers, Refused(c) \/ Look(c) PROVE Kept'
  <2>1. /\ \A b \in Callers : b # c => caller'[b] = caller[b]
        /\ caller'[c].pc \in {"idle", "clearing", "waiting", "looking"}
        /\ caller'[c].pc = "clearing" => RetryFailures
    <3>1. CASE Heed(c)
      <4>1. caller'[c].pc = "clearing" => RetryFailures
        BY <3>1, EndsShape DEF Heed, Shape, Callings
      <4> QED
        BY <1>4, <3>1, <4>1, HeedShape DEF Refused, Look
    <3>2. CASE caller' = [caller EXCEPT ![c].pc = "looking"]
      BY <3>2 DEF Shape, Callings
    <3> QED
      BY <1>4, <3>1, <3>2 DEF Refused, Look
  <2> QED
    BY <1>4, <2>1 DEF Refused, Look, Kept
<1>5. ASSUME NEW c \in Callers, Clear(c) PROVE Kept'
  <2>1. recorded # NoTime /\ now < recorded + Ttl => entry' = entry
    BY <1>5 DEF Clear, Kept, Observed, Shape
  <2>2. /\ caller'[c].pc = "claiming" /\ \A b \in Callers : b # c => caller'[b] = caller[b]
    BY <1>5 DEF Clear, Shape, Idle
  <2> QED
    BY <1>5, <2>1, <2>2 DEF Clear, Kept
<1>6. ASSUME NEW c \in Callers, Poll(c) \/ StopWaiting(c) \/ Abandon(c) PROVE Kept'
  BY <1>6, EndsShape DEF Poll, StopWaiting, Abandon, Kept
<1>7. ASSUME NEW c \in Callers, Succeeds(c) \/ Throws(c) \/ SetupFails(c) PROVE Kept'
  <2>1. /\ caller[c].pc = "running" /\ caller'[c].pc \in Writers /\ caller'[c].token = caller[c].token
        /\ \A b \in Callers : b # c => caller'[b] = caller[b]
    BY <1>7 DEF Succeeds, Throws, SetupFails, Shape, Writers, Callings
  <2> QED
    BY <1>7, <2>1 DEF Succeeds, Throws, SetupFails, Kept, Writers
<1>8. ASSUME NEW c \in Callers, RecordFailure(c) \/ Release(c) PROVE Kept'
  <2>1. Ends(c) /\ UNCHANGED <<now, recorded>> /\ caller[c].pc \in {"recording", "releasing"}
    BY <1>8 DEF RecordFailure, Release
  <2>2. ASSUME recorded # NoTime, now < recorded + Ttl
        PROVE  \/ entry' = entry
               \/ /\ ~RetryFailures /\ entry'.status = "failed" /\ entry'.token = entry.token
                  /\ entry'.created = now /\ entry'.gone = now + Ttl
    <3>1. CASE caller[c].pc = "recording" /\ ~RetryFailures
      BY <1>8, <2>2, <3>1 DEF RecordFailure, Release, Stored, Owns
    <3>2. CASE caller[c].pc = "releasing" \/ RetryFailures
      BY <1>8, <2>1, <2>2, <3>2 DEF RecordFailure, Release, Deleted, Owns, Kept
    <3> QED
      BY <2>1, <3>1, <3>2
  <2>3. recorded # NoTime => recorded \in Nat /\ entry.created \in Nat
    BY <1>t DEF Shape, Entries
  <2> QED
    BY <1>t, <2>1, <2>2, <2>3, EndsShape DEF Kept
<1>9. ASSUME NEW c \in Callers, StoreResult(c) \/ StoreThrows(c) PROVE Kept'
  <2>1. /\ caller[c].pc = "storing" /\ UNCHANGED now
        /\ \A b \in Callers : b # c => caller'[b] = caller[b]
        /\ caller'[c].pc = "idle"
              \/ (caller'[c].pc = AfterFailure /\ caller'[c].token = caller[c].token)
    BY <1>9, EndsShape DEF StoreResult, StoreThrows, Shape, Callings
  <2>2. CASE entry' = entry /\ recorded' = recorded
    BY <2>1, <2>2 DEF Kept, AfterFailure
  <2>3. CASE /\ Owns(c) /\ recorded' = now /\ entry' = Stored(c, "completed")
             /\ caller'[c].pc = "releasing" => ~RetryFailures
             /\ caller'[c].pc = "recording" => ~RetryFailures
    <3>1. /\ entry'.status = "completed" /\ entry'.created = now /\ entry'.gone = now + Ttl
          /\ entry'.token = caller[c].token
      BY <2>3 DEF Stored
    <3>2. \A b \in Callers : b # c /\ caller'[b].pc \in Holders => caller'[b].token # caller[c].token
      BY <2>1 DEF Shape, Holders, Writers
    <3>3. caller'[c].pc \in {"idle", "recording"}
      BY <2>1, <2>3 DEF AfterFailure
    <3> QED
      BY <1>t, <2>1, <2>3, <3>1, <3>2, <3>3 DEF Kept, Holders, Writers
  <2>4. CASE StoreResult(c)
    <3>1. caller'[c].pc = "idle"
      BY <2>4, EndsShape DEF StoreResult
    <3> QED
      BY <2>2, <2>3, <2>4, <3>1 DEF StoreResult, Stored
  <2>5. CASE StoreThrows(c)
    <3>1. CASE UNCHANGED <<entry, recorded>>
      BY <2>2, <3>1
    <3>2. CASE /\ "applied" \in Faults /\ entry' = Stored(c, "completed")
               /\ recorded' = IF Owns(c) THEN now ELSE recorded
      BY <2>2, <2>3, <3>2 DEF Stored
    <3> QED
      BY <2>5, <3>1, <3>2 DEF StoreThrows
  <2> QED
    BY <1>9, <2>4, <2>5
<1> QED
  BY <1>0, <1>1, <1>2, <1>3, <1>4, <1>5, <1>6, <1>7, <1>8, <1>9 DEF Next, Proceed

\* An operation whose success was stored is not started again while the result is
\* kept, provided that replies are not lost where failures are retried.
THEOREM SuccessKept == Assured => (Spec => ResultsHold)
<1> SUFFICES ASSUME Assured PROVE Spec => ResultsHold
  OBVIOUS
<1>1. Shape /\ Kept /\ [Next]_vars =>
        (\A c \in Callers : caller[c].pc # "running" /\ caller'[c].pc = "running" /\ recorded # NoTime
           => now >= recorded + Ttl)
  <2> SUFFICES ASSUME Shape, Kept, [Next]_vars, NEW c \in Callers, recorded # NoTime,
                      caller[c].pc # "running", caller'[c].pc = "running"
               PROVE  now >= recorded + Ttl
    OBVIOUS
  <2>1. CASE Claim(c)
    <3>1. ~(now < recorded + Ttl)
      BY <2>1, KeptNotClaimable DEF Claim, Shape, Callings
    <3> QED
      BY <3>1, LeaseAssumption DEF Shape
  <2>2. ASSUME NEW b \in Callers, Refused(b) \/ Look(b) PROVE FALSE
    <3>1. CASE Heed(b)
      BY <2>2, <3>1, HeedShape DEF Refused, Look
    <3> QED
      BY <2>2, <3>1 DEF Refused, Look, Shape, Callings
  <2>3. ASSUME NEW b \in Callers, ~Claim(c), Call(b) \/ Clear(b) \/ Claim(b) PROVE FALSE
    BY <2>3 DEF Call, Clear, Claim, Shape, Callings, Idle
  <2>4. ASSUME NEW b \in Callers, Ends(b) PROVE FALSE
    BY <2>4, EndsShape
  <2>5. ASSUME NEW b \in Callers, Succeeds(b) \/ Throws(b) \/ SetupFails(b) PROVE FALSE
    BY <2>5 DEF Succeeds, Throws, SetupFails, Shape, Callings
  <2>6. ASSUME NEW b \in Callers, StoreThrows(b) PROVE FALSE
    <3>1. caller' = [caller EXCEPT ![b].pc = AfterFailure] /\ AfterFailure # "running"
      BY <2>6 DEF StoreThrows, AfterFailure
    <3> QED
      BY <3>1 DEF Shape, Callings
  <2> QED
    BY <2>1, <2>2, <2>3, <2>4, <2>5, <2>6
       DEF Next, Proceed, vars, Tick, Poll, StopWaiting, StoreResult, RecordFailure, Release, Abandon
<1> QED
  BY <1>1, ShapeInit, ShapeStep, KeptInit, KeptStep, PTL DEF Spec, ResultsHold

------------------------------------------------------------------------------
(* Chat sends: the claim of a message stands while its turn is running, for  *)
(* every number of retries and every setting of the times.                 *)

\* Past its claim, and not through yet.
Sending == {"running", "storing", "starting", "releasing"}

Sends == [pc : Steps \cup {"starting"}, clock : Nat, token : Nat, due : Nat, seen : Entries]

\* Tokens of claims are numbered from one, and no two sends have the same; a send
\* that goes on without a claim has none, and so owns no entry.
SendShape ==
  /\ service \in Services /\ now \in Nat /\ claims \in Nat /\ recorded \in Nat \cup {NoTime}
  /\ entry \in Entries /\ caller \in [Callers -> Sends]
  /\ entry.token <= claims /\ entry.created <= now
  /\ entry.status # "none" => entry.token > 0
  /\ \A c \in Callers :
       /\ caller[c].pc = "claiming" => caller[c].clock <= now
       /\ caller[c].pc \in Sending => caller[c].token <= claims
  /\ \A b, c \in Callers : /\ caller[b].pc \in Sending /\ caller[c].pc \in Sending
                           /\ caller[b].token = caller[c].token /\ caller[b].token > 0
                           => b = c

\* While the chat of a running turn is kept, nobody is left who could remove it.
Standing ==
  recorded # NoTime =>
    \/ now > recorded + Ttl
    \/ /\ entry.status = "completed" /\ entry.created = recorded
       /\ \A c \in Callers : caller[c].pc \in Sending => caller[c].token # entry.token

SendInv == SendShape /\ Standing

\* The service of chat sends is kept in the database (forceStorage).
InDatabase == \A s \in Services : s.storage = "database"

------------------------------------------------------------------------------
LEMMA SendBegins == SendInit => SendInv
<1> SUFFICES ASSUME SendInit PROVE SendInv
  OBVIOUS
<1>1. Idle \in Sends /\ Idle.pc = "idle"
  BY NoEntryShape DEF Idle, Sends, Steps
<1>2. NoEntry \in Entries /\ NoEntry.token = 0 /\ NoEntry.created = 0 /\ NoEntry.status = "none"
  BY NoEntryShape DEF NoEntry
<1> QED
  BY <1>1, <1>2 DEF SendInit, Init, SendInv, SendShape, Standing, Sending

LEMMA OwnsMeans ==
  ASSUME InDatabase, SendShape, NEW c
  PROVE  Owns(c) <=> entry.status # "none" /\ entry.token = caller[c].token
BY DEF InDatabase, SendShape, Owns, Present, Storage

\* A send goes on by itself, keeping its token, or is through.
LEMMA OneSend ==
  ASSUME SendInv, NEW c \in Callers, UNCHANGED <<service, now, entry, claims, recorded>>,
         caller' \in [Callers -> Sends],
         \A b \in Callers : b # c => caller'[b] = caller[b],
         caller'[c].pc = "claiming" => caller'[c].clock <= now,
         caller'[c].pc \in Sending =>
           caller'[c].token = 0 \/ (caller[c].pc \in Sending /\ caller'[c].token = caller[c].token)
  PROVE  SendInv'
<1>1. SendShape'
  BY DEF SendInv, SendShape
<1>2. Standing'
  <2> SUFFICES ASSUME recorded # NoTime, ~(now > recorded + Ttl),
                      NEW b \in Callers, caller'[b].pc \in Sending
               PROVE  caller'[b].token # entry.token
    BY DEF SendInv, Standing
  <2>1. entry.status = "completed" /\ entry.token > 0
    BY DEF SendInv, SendShape, Standing
  <2> QED
    BY <2>1 DEF SendInv, SendShape, Standing, Entries
<1> QED
  BY <1>1, <1>2 DEF SendInv

\* A step within a send that it takes with its token.
LEMMA GoesOn ==
  ASSUME SendInv, NEW c \in Callers, NEW pc \in Sending, caller[c].pc \in Sending,
         caller' = [caller EXCEPT ![c].pc = pc]
  PROVE  /\ caller' \in [Callers -> Sends]
         /\ \A b \in Callers : b # c => caller'[b] = caller[b]
         /\ caller'[c].pc = pc /\ caller'[c].token = caller[c].token
BY DEF SendInv, SendShape, Sends, Sending, Steps

LEMMA SendEnds ==
  ASSUME SendInv, NEW c \in Callers, Ends(c)
  PROVE  /\ caller' \in [Callers -> Sends] /\ caller'[c].pc = "idle"
         /\ \A b \in Callers : b # c => caller'[b] = caller[b]
<1>1. Idle \in Sends /\ Idle.pc = "idle"
  BY NoEntryShape DEF Idle, Sends, Steps
<1> QED
  BY <1>1 DEF Ends, SendInv, SendShape

\* What a send writes it writes to an entry of its own, and no other send's.
LEMMA OneSendWrites ==
  ASSUME InDatabase, SendInv, NEW c \in Callers, caller[c].pc \in Sending,
         UNCHANGED <<service, now, claims, recorded>>,
         entry' = Stored(c, "completed") \/ entry' = Deleted(c) \/ entry' = entry,
         caller' \in [Callers -> Sends],
         \A b \in Callers : b # c => caller'[b] = caller[b],
         caller'[c].pc # "claiming",
         caller'[c].pc \in Sending => caller'[c].token = caller[c].token
  PROVE  SendInv'
<1>0. /\ now \in Nat /\ now + Ttl \in Nat /\ claims \in Nat /\ caller[c].token \in Nat
      /\ caller[c].token <= claims
  BY LeaseAssumption DEF SendInv, SendShape, Sends
<1>1. CASE ~Owns(c) \/ entry' = entry
  BY <1>1, OneSend DEF Stored, Deleted
<1>2. CASE Owns(c) /\ entry' # entry
  <2>1. entry.token = caller[c].token /\ entry.token > 0
    BY <1>2, OwnsMeans DEF SendInv, SendShape
  <2>2. recorded # NoTime => now > recorded + Ttl
    BY <2>1 DEF SendInv, Standing
  <2>3. \/ /\ entry' \in Entries /\ entry'.token = caller[c].token /\ entry'.created = now
        \/ /\ entry' \in Entries /\ entry'.token = 0 /\ entry'.created = 0
           /\ entry'.status = "none"
    <3>1. CASE entry' = Stored(c, "completed")
      BY <1>0, <1>2, <3>1, EntryShape DEF Stored
    <3>2. CASE entry' = Deleted(c)
      BY <1>2, <3>2, NoEntryShape DEF Deleted, NoEntry
    <3> QED
      BY <1>2, <3>1, <3>2
  <2>4. SendShape'
    BY <1>0, <2>1, <2>3 DEF SendInv, SendShape
  <2>5. Standing'
    BY <2>2 DEF Standing
  <2> QED
    BY <2>4, <2>5 DEF SendInv
<1> QED
  BY <1>1, <1>2

\* The key is claimed only if no turn's chat is kept.
LEMMA ClaimWaits ==
  ASSUME InDatabase, SendInv, NEW c \in Callers, Claim(c), recorded # NoTime
  PROVE  now > recorded + Ttl
<1>1. /\ now \in Nat /\ recorded \in Nat /\ caller[c].clock \in Nat /\ caller[c].clock <= now
      /\ entry.created \in Nat /\ Ttl \in Nat
  BY LeaseAssumption DEF Claim, SendInv, SendShape, Sends, Entries
<1>2. CASE entry.status = "completed" /\ entry.created = recorded
  <2>1. entry.created + Ttl < caller[c].clock
    BY <1>2 DEF Claim, Claimable, Present, Storage, InDatabase, SendInv, SendShape
  <2> QED
    BY <1>1, <1>2, <2>1
<1> QED
  BY <1>2 DEF SendInv, Standing

LEMMA SendStep == InDatabase /\ SendInv /\ [SendNext]_vars => SendInv'
<1> SUFFICES ASSUME InDatabase, SendInv, [SendNext]_vars PROVE SendInv'
  OBVIOUS
<1>0. CASE UNCHANGED vars
  BY <1>0 DEF SendInv, SendShape, Standing, vars
<1>1. CASE SendTick
  <2>1. now \in Nat /\ now' = now + 1 /\ UNCHANGED <<service, entry, caller, claims, recorded>>
    BY <1>1 DEF SendTick, SendInv, SendShape
  <2>2. \A c \in Callers : caller[c].clock \in Nat
    BY DEF SendInv, SendShape, Sends
  <2>3. SendShape'
    BY <2>1, <2>2 DEF SendInv, SendShape, Entries
  <2>4. Standing'
    BY <2>1, LeaseAssumption DEF SendInv, SendShape, Standing, NoTime
  <2> QED
    BY <2>3, <2>4 DEF SendInv
<1>2. ASSUME NEW c \in Callers, Call(c) PROVE SendInv'
  <2>1. now \in Nat /\ now + Latency \in Nat
    BY LeaseAssumption DEF SendInv, SendShape
  <2> DEFINE d == [Idle EXCEPT !.pc = "claiming", !.clock = now, !.due = now + Latency]
  <2>2. d \in Sends /\ d.pc = "claiming" /\ d.clock = now
    BY <2>1, NoEntryShape DEF Idle, Sends, Steps
  <2>3. caller' = [caller EXCEPT ![c] = d]
    BY <1>2 DEF Call
  <2> HIDE DEF d
  <2>4. /\ caller' \in [Callers -> Sends] /\ caller'[c] = d
        /\ \A b \in Callers : b # c => caller'[b] = caller[b]
    BY <2>2, <2>3 DEF SendInv, SendShape
  <2> QED
    BY <1>2, <2>1, <2>2, <2>4, OneSend DEF Call, Sending
<1>3. ASSUME NEW c \in Callers, Claim(c) PROVE SendInv'
  <2>1. /\ now \in Nat /\ claims \in Nat /\ caller[c].clock \in Nat /\ caller[c].clock <= now
        /\ now + Budget \in Nat /\ now + Lease \in Nat /\ caller[c].clock + Lease \in Nat
        /\ claims + 1 \in Nat
    BY <1>3, LeaseAssumption DEF Claim, SendInv, SendShape, Sends
  <2>2. entry' \in Entries
    BY <1>3, <2>1, EntryShape DEF Claim
  <2>3. caller' \in [Callers -> Sends]
    <3> DEFINE d == [caller[c] EXCEPT !.pc = "running", !.token = claims + 1, !.due = now + Budget]
    <3>1. d \in Sends
      BY <2>1 DEF SendInv, SendShape, Sends, Steps
    <3>2. caller' = [caller EXCEPT ![c] = d]
      BY <1>3 DEF Claim
    <3> HIDE DEF d
    <3> QED
      BY <3>1, <3>2 DEF SendInv, SendShape
  <2>4. /\ claims' = claims + 1 /\ entry'.token = claims + 1 /\ entry'.created = caller[c].clock
        /\ caller'[c].pc = "running" /\ caller'[c].token = claims + 1
        /\ UNCHANGED <<service, now, recorded>>
        /\ \A b \in Callers : b # c => caller'[b] = caller[b]
    BY <1>3 DEF Claim, SendInv, SendShape
  <2>5. \A b \in Callers : caller[b].pc \in Sending =>
          caller[b].token \in Nat /\ caller[b].token <= claims /\ caller[b].token # claims + 1
    BY <2>1 DEF SendInv, SendShape, Sends
  <2>6. SendShape'
    BY <2>1, <2>2, <2>3, <2>4, <2>5 DEF SendInv, SendShape
  <2>7. Standing'
    BY <1>3, <2>4, ClaimWaits DEF Standing
  <2> QED
    BY <2>6, <2>7 DEF SendInv
<1>4. ASSUME NEW c \in Callers, ClaimThrows(c) PROVE SendInv'
  <2>1. now + Budget \in Nat
    BY LeaseAssumption DEF SendInv, SendShape
  <2>2. /\ caller' \in [Callers -> Sends] /\ caller'[c].pc = "running" /\ caller'[c].token = 0
        /\ \A b \in Callers : b # c => caller'[b] = caller[b]
    <3> DEFINE d == [caller[c] EXCEPT !.pc = "running", !.token = 0, !.due = now + Budget]
    <3>1. d \in Sends /\ d.pc = "running" /\ d.token = 0
      BY <2>1 DEF SendInv, SendShape, Sends, Steps
    <3>2. caller' = [caller EXCEPT ![c] = d]
      BY <1>4 DEF ClaimThrows
    <3> HIDE DEF d
    <3> QED
      BY <3>1, <3>2 DEF SendInv, SendShape
  <2> QED
    BY <1>4, <2>2, OneSend DEF ClaimThrows
<1>5. ASSUME NEW c \in Callers, Duplicate(c) \/ Abandon(c) PROVE SendInv'
  BY <1>5, SendEnds, OneSend DEF Duplicate, Abandon, Sending
<1>6. ASSUME NEW c \in Callers, Resolve(c) \/ GiveUp(c) PROVE SendInv'
  <2>1. PICK pc \in Sending : caller' = [caller EXCEPT ![c].pc = pc] /\ pc # "claiming"
    BY <1>6 DEF Resolve, GiveUp, Sending
  <2>2. caller[c].pc \in Sending /\ UNCHANGED <<service, now, entry, claims, recorded>>
    BY <1>6 DEF Resolve, GiveUp, Sending
  <2>3. /\ caller' \in [Callers -> Sends]
        /\ \A b \in Callers : b # c => caller'[b] = caller[b]
        /\ caller'[c].pc = pc /\ caller'[c].token = caller[c].token
    BY <2>1, <2>2, GoesOn
  <2> QED
    BY <2>1, <2>2, <2>3, OneSend
<1>7. ASSUME NEW c \in Callers, RecordChat(c) PROVE SendInv'
  <2>1. /\ caller[c].pc \in Sending /\ UNCHANGED <<service, now, claims, recorded>>
        /\ caller' = [caller EXCEPT ![c].pc = "starting"] /\ "starting" \in Sending
        /\ entry' = Stored(c, "completed") \/ entry' = entry
    BY <1>7 DEF RecordChat, Sending
  <2>2. /\ caller' \in [Callers -> Sends]
        /\ \A b \in Callers : b # c => caller'[b] = caller[b]
        /\ caller'[c].pc = "starting" /\ caller'[c].token = caller[c].token
    BY <2>1, GoesOn
  <2> QED
    BY <2>1, <2>2, OneSendWrites
<1>8. ASSUME NEW c \in Callers, StartTurn(c) PROVE SendInv'
  <2>1. /\ caller[c].pc \in Sending /\ UNCHANGED <<service, now, entry, claims>>
        /\ caller' \in [Callers -> Sends] /\ caller'[c].pc = "idle"
        /\ \A b \in Callers : b # c => caller'[b] = caller[b]
    BY <1>8, SendEnds DEF StartTurn, KeepClaim, Sending
  <2>2. CASE ~(Owns(c) /\ entry.status = "completed")
    BY <1>8, <2>1, <2>2, OneSend DEF StartTurn, Sending
  <2>3. CASE Owns(c) /\ entry.status = "completed"
    <3>1. recorded' = entry.created /\ entry.created \in Nat
      BY <1>8, <2>3 DEF StartTurn, SendInv, SendShape, Entries
    <3>2. entry.token = caller[c].token /\ entry.token > 0
      BY <2>3, OwnsMeans DEF SendInv, SendShape
    <3>3. SendShape'
      BY <2>1, <3>1 DEF SendInv, SendShape, Sending
    <3>4. \A b \in Callers : caller'[b].pc \in Sending => caller'[b].token # entry.token
      BY <2>1, <3>2 DEF SendInv, SendShape, Sending
    <3> QED
      BY <2>1, <2>3, <3>1, <3>3, <3>4 DEF SendInv, Standing
  <2> QED
    BY <2>2, <2>3
<1>9. ASSUME NEW c \in Callers, GiveBack(c) PROVE SendInv'
  <2>1. /\ caller[c].pc \in Sending /\ UNCHANGED <<service, now, claims, recorded>>
        /\ entry' = Deleted(c) \/ entry' = entry
        /\ caller' \in [Callers -> Sends] /\ caller'[c].pc = "idle"
        /\ \A b \in Callers : b # c => caller'[b] = caller[b]
    BY <1>9, SendEnds DEF GiveBack, Sending
  <2> QED
    BY <2>1, OneSendWrites DEF Sending
<1> QED
  BY <1>0, <1>1, <1>2, <1>3, <1>4, <1>5, <1>6, <1>7, <1>8, <1>9 DEF SendNext

\* A chat message whose turn is running, with its chat recorded under the claim, is
\* not claimed again while results are kept: whichever of its retries goes on
\* without a claim, fails to record the chat or to release the key, or dies.
THEOREM TurnsStand == InDatabase => (SendSpec => TurnStands)
<1> SUFFICES ASSUME InDatabase PROVE SendSpec => TurnStands
  OBVIOUS
<1>1. SendInv /\ [SendNext]_vars =>
        (claims' # claims /\ recorded # NoTime => now > recorded + Ttl)
  <2> SUFFICES ASSUME SendInv, [SendNext]_vars, claims' # claims, recorded # NoTime
               PROVE  now > recorded + Ttl
    OBVIOUS
  <2>1. PICK c \in Callers : Claim(c)
    BY DEF SendNext, SendTick, Call, ClaimThrows, Duplicate, Resolve, RecordChat, GiveUp,
           StartTurn, GiveBack, Abandon, vars
  <2> QED
    BY <2>1, ClaimWaits
<1> QED
  BY <1>1, SendBegins, SendStep, PTL DEF SendSpec, TurnStands
==============================================================================
