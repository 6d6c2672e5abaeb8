------------------------------ MODULE ChatSend --------------------------------
(***************************************************************************)
(* How a chat message is sent (lib/copilot/chat/post.ts,                   *)
(* handleUnifiedChatPost): the idempotency service's entry, claimed and    *)
(* written by the handler itself.  A send and its retries carry the same   *)
(* userMessageId.  The chat is recorded as soon as it is known; the claim  *)
(* is given back if the handler returns without having started a turn, and *)
(* stays if it has.                                                        *)
(*                                                                         *)
(* Of a caller's steps, "running" is the handler past its claim, "storing" *)
(* with a chat to record, "starting" on the way to its turn.  `recorded'   *)
(* is when the chat of the turn last started under a claim was recorded.   *)
(***************************************************************************)
EXTENDS Idempotency

SendInit == Init /\ entry = NoEntry

\* claimChatSend fails open: the send goes on without a claim.
ClaimThrows(c) ==
  /\ caller[c].pc = "claiming"
  /\ caller' = [caller EXCEPT ![c].pc = "running", ![c].token = 0, ![c].due = now + Budget]
  /\ UNCHANGED <<service, now, entry, claims, recorded>>

\* duplicateChatSendResponse: 409.
Duplicate(c) ==
  /\ caller[c].pc = "claiming" /\ ~Claimable(caller[c].clock)
  /\ Ends(c)
  /\ UNCHANGED <<service, now, entry, claims, recorded>>

\* The branch and the chat are resolved: the send is refused, or has a chat, or
\* has none (neither chatId nor createNewChat).
Resolve(c) ==
  /\ caller[c].pc = "running"
  /\ \E pc \in {"releasing", "storing", "starting"} : caller' = [caller EXCEPT ![c].pc = pc]
  /\ UNCHANGED <<service, now, entry, claims, recorded>>

\* The chat is recorded under the claim; a write that fails is only logged.
RecordChat(c) ==
  /\ caller[c].pc = "storing"
  /\ caller' = [caller EXCEPT ![c].pc = "starting"]
  /\ entry' = Stored(c, "completed") \/ ("lost" \in Faults /\ UNCHANGED entry)
  /\ UNCHANGED <<service, now, claims, recorded>>

\* The chat already has a stream, or the turn cannot be prepared.
GiveUp(c) ==
  /\ caller[c].pc = "starting"
  /\ caller' = [caller EXCEPT ![c].pc = "releasing"]
  /\ UNCHANGED <<service, now, entry, claims, recorded>>

\* Mutant: the claim is released although a turn is running.
AndRelease(c) == caller' = [caller EXCEPT ![c].pc = "releasing"]

\* sendClaim = undefined: the finally block leaves the claim where it is.
KeepClaim(c) == Ends(c)

StartTurn(c) ==
  /\ caller[c].pc = "starting"
  /\ KeepClaim(c)
  /\ recorded' = IF Owns(c) /\ entry.status = "completed" THEN entry.created ELSE recorded
  /\ UNCHANGED <<service, now, entry, claims>>

\* The finally block; the release may fail.
GiveBack(c) ==
  /\ caller[c].pc = "releasing"
  /\ entry' = Deleted(c) \/ ("lost" \in Faults /\ UNCHANGED entry)
  /\ Ends(c)
  /\ UNCHANGED <<service, now, claims, recorded>>

SendTick ==
  /\ now < MaxTime
  /\ \A c \in Callers : caller[c].pc = "claiming" => now < caller[c].due
  /\ now' = now + 1
  /\ UNCHANGED <<service, entry, caller, claims, recorded>>

SendNext ==
  \/ SendTick
  \/ \E c \in Callers :
       Call(c) \/ Claim(c) \/ ClaimThrows(c) \/ Duplicate(c) \/ Resolve(c) \/ RecordChat(c)
         \/ GiveUp(c) \/ StartTurn(c) \/ GiveBack(c) \/ Abandon(c)

SendSpec == SendInit /\ [][SendNext]_vars

------------------------------------------------------------------------------
\* A send whose turn is running, with its chat recorded, is not claimed again by a
\* retry as long as results are kept, however the first handler went on.
TurnStands ==
  [][claims' # claims /\ recorded # NoTime => now > recorded + Ttl]_vars
==============================================================================
