------------------------------- MODULE UploadGate -------------------------------
(***************************************************************************)
(* store.uploadTelegram and the upload half of telegram.HTTPClient.  Every *)
(* bot token has a gate: a slot that one upload holds over the whole call, *)
(* retries and their sleeps included, and the time before which the next   *)
(* one must not be sent.  The client tries four times, waits as long as    *)
(* Telegram asked between two tries, and reports a rate limit only when    *)
(* the last answer was one.                                                *)
(*                                                                         *)
(* Time is a set of count-downs that Tick moves together, so runs have no  *)
(* end.  A back-off of milliseconds takes no tick.                         *)
(***************************************************************************)
EXTENDS Naturals

CONSTANTS Reqs, NoReq,
          Buckets, NoBucket, Tokens, TokenOf,  \* the bot token of each bucket
          MaxTries,  \* four in the code
          Delays     \* the retry_after values of Telegram, 0 when it gives none;
                     \* all below the timeout, to which the client cuts longer ones

ASSUME GateAssumption == /\ TokenOf \in [Buckets -> Tokens]
                         /\ NoReq \notin Reqs /\ NoBucket \notin Buckets
                         /\ MaxTries \in Nat \ {0} /\ Delays \subseteq Nat /\ 0 \in Delays

VARIABLES slot,     \* gate.slot: who holds the slot of each token
          until,    \* time.Until(gate.until) for each token
          pc,       \* where each upload is
          bucket,   \* the bucket it is for
          tries,    \* the attempts made
          nap,      \* how long its back-off still lasts
          told,     \* how long Telegram has asked each token to keep quiet
          denied    \* s.unavailableBuckets

vars == <<slot, until, pc, bucket, tries, nap, told, denied>>

Stages == {"idle", "slot", "cooldown", "sending", "backoff"}
Inside == {"cooldown", "sending", "backoff"}

Init == /\ slot = [t \in Tokens |-> NoReq]
        /\ until = [t \in Tokens |-> 0]
        /\ pc = [r \in Reqs |-> "idle"]
        /\ bucket = [r \in Reqs |-> NoBucket]
        /\ tries = [r \in Reqs |-> 0]
        /\ nap = [r \in Reqs |-> 0]
        /\ told = [t \in Tokens |-> 0]
        /\ denied = {}

Token(r)   == TokenOf[bucket[r]]
Goto(r, s) == pc' = [pc EXCEPT ![r] = s]

Return(r) == /\ Goto(r, "idle")
             /\ bucket' = [bucket EXCEPT ![r] = NoBucket]
             /\ tries' = [tries EXCEPT ![r] = 0]
             /\ nap' = [nap EXCEPT ![r] = 0]

\* The deferred send to gate.slot, when the slot was taken.
GiveSlot(r) == slot' = IF pc[r] \in Inside THEN [slot EXCEPT ![Token(r)] = NoReq] ELSE slot

-------------------------------------------------------------------------------

\* uploadTelegram is called for a bucket that is not known to be denied.
Begin(r, b) ==
  /\ pc[r] = "idle"
  /\ b \notin denied
  /\ Goto(r, "slot")
  /\ bucket' = [bucket EXCEPT ![r] = b]
  /\ UNCHANGED <<slot, until, tries, nap, told, denied>>

\* A bucket known to be denied is refused without a call.
Reject(r, b) ==
  /\ pc[r] = "idle"
  /\ b \in denied
  /\ UNCHANGED vars

\* Mutation: the gate has a slot for everybody.
TakeAnySlot(r) ==
  /\ pc[r] = "slot"
  /\ slot' = [slot EXCEPT ![Token(r)] = r]
  /\ Goto(r, "cooldown")
  /\ UNCHANGED <<until, bucket, tries, nap, told, denied>>

\* The slot is free.
TakeSlot(r) ==
  /\ pc[r] = "slot"
  /\ slot[Token(r)] = NoReq
  /\ slot' = [slot EXCEPT ![Token(r)] = r]
  /\ Goto(r, "cooldown")
  /\ UNCHANGED <<until, bucket, tries, nap, told, denied>>

\* Mutation: nobody waits for gate.until.
SendAtOnce(r) ==
  /\ pc[r] = "cooldown"
  /\ Goto(r, "sending")
  /\ tries' = [tries EXCEPT ![r] = 1]
  /\ UNCHANGED <<slot, until, bucket, nap, told, denied>>

\* The cool-down is over: the first attempt is sent.
Send(r) ==
  /\ pc[r] = "cooldown"
  /\ until[Token(r)] = 0
  /\ Goto(r, "sending")
  /\ tries' = [tries EXCEPT ![r] = 1]
  /\ UNCHANGED <<slot, until, bucket, nap, told, denied>>

\* Telegram posts the message and answers.
Succeed(r) ==
  /\ pc[r] = "sending"
  /\ GiveSlot(r) /\ Return(r)
  /\ UNCHANGED <<until, told, denied>>

\* Telegram refuses for good.  Only "unauthorized" denies the bucket.
Refuse(r) ==
  /\ pc[r] = "sending"
  /\ denied' \in {denied, denied \cup {bucket[r]}}
  /\ GiveSlot(r) /\ Return(r)
  /\ UNCHANGED <<until, told>>

Sleep(r, d) == Goto(r, "backoff") /\ nap' = [nap EXCEPT ![r] = d]

\* Status 429 or 5xx, with or without retry_after: the next attempt waits.
RateLimited(r, d) ==
  /\ pc[r] = "sending" /\ tries[r] < MaxTries
  /\ told' = [told EXCEPT ![Token(r)] = d]
  /\ Sleep(r, d)
  /\ UNCHANGED <<slot, until, bucket, tries, denied>>

\* The connection breaks, before or after Telegram has posted the message.
Disconnected(r) ==
  /\ pc[r] = "sending" /\ tries[r] < MaxTries
  /\ Sleep(r, 0)
  /\ UNCHANGED <<slot, until, bucket, tries, told, denied>>

\* Mutation: the last rate limit is like any other error.
ForgetRateLimit(r, d) ==
  /\ pc[r] = "sending" /\ tries[r] = MaxTries
  /\ told' = [told EXCEPT ![Token(r)] = d]
  /\ GiveSlot(r) /\ Return(r)
  /\ UNCHANGED <<until, denied>>

\* Mutation: the error return keeps the slot.
LastRateLimitedKeepsSlot(r, d) ==
  /\ pc[r] = "sending" /\ tries[r] = MaxTries
  /\ told' = [told EXCEPT ![Token(r)] = d]
  /\ until' = IF d > 0 THEN [until EXCEPT ![Token(r)] = d] ELSE until
  /\ Return(r)
  /\ UNCHANGED <<slot, denied>>

\* The last attempt is rate limited: the gate keeps the time.
LastRateLimited(r, d) ==
  /\ pc[r] = "sending" /\ tries[r] = MaxTries
  /\ told' = [told EXCEPT ![Token(r)] = d]
  /\ until' = IF d > 0 THEN [until EXCEPT ![Token(r)] = d] ELSE until
  /\ GiveSlot(r) /\ Return(r)
  /\ UNCHANGED denied

LastDisconnected(r) ==
  /\ pc[r] = "sending" /\ tries[r] = MaxTries
  /\ GiveSlot(r) /\ Return(r)
  /\ UNCHANGED <<until, told, denied>>

\* The back-off is over: the next attempt is sent.
Retry(r) ==
  /\ pc[r] = "backoff" /\ nap[r] = 0
  /\ Goto(r, "sending")
  /\ tries' = [tries EXCEPT ![r] = tries[r] + 1]
  /\ UNCHANGED <<slot, until, bucket, nap, told, denied>>

\* The request's context ends, wherever the upload waits.  What Telegram asked
\* for in a back-off is forgotten: the gate keeps time for final failures only.
Cancel(r) ==
  /\ pc[r] # "idle"
  /\ GiveSlot(r) /\ Return(r)
  /\ told' = IF pc[r] = "backoff" THEN [told EXCEPT ![Token(r)] = 0] ELSE told
  /\ UNCHANGED <<until, denied>>

Less(n) == IF n = 0 THEN 0 ELSE n - 1

\* Time passes.
Tick ==
  /\ \/ \E t \in Tokens : until[t] > 0 \/ told[t] > 0
     \/ \E r \in Reqs : nap[r] > 0
  /\ until' = [t \in Tokens |-> Less(until[t])]
  /\ told' = [t \in Tokens |-> Less(told[t])]
  /\ nap' = [r \in Reqs |-> Less(nap[r])]
  /\ UNCHANGED <<slot, pc, bucket, tries, denied>>

Answer(r) == \/ Succeed(r) \/ Refuse(r) \/ Disconnected(r) \/ LastDisconnected(r)
             \/ \E d \in Delays : RateLimited(r, d) \/ LastRateLimited(r, d)

Next == \/ \E r \in Reqs : \/ \E b \in Buckets : Begin(r, b) \/ Reject(r, b)
                           \/ TakeSlot(r) \/ Send(r) \/ Retry(r) \/ Answer(r) \/ Cancel(r)
        \/ Tick

Spec == Init /\ [][Next]_vars

\* Time passes, the HTTP client has a timeout, and a channel serves its
\* receivers in the order they came.  No context need ever end.
FairSpec == /\ Spec
            /\ WF_vars(Tick)
            /\ \A r \in Reqs : WF_vars(Send(r) \/ Retry(r) \/ Answer(r)) /\ SF_vars(TakeSlot(r))

-------------------------------------------------------------------------------
(* Properties                                                              *)

\* Types, and an upload past the gate holds the slot of its token.
TypeOK ==
  /\ slot \in [Tokens -> Reqs \cup {NoReq}]
  /\ until \in [Tokens -> Nat] /\ told \in [Tokens -> Nat]
  /\ pc \in [Reqs -> Stages]
  /\ bucket \in [Reqs -> Buckets \cup {NoBucket}]
  /\ tries \in [Reqs -> 0..MaxTries]
  /\ nap \in [Reqs -> Nat]
  /\ denied \subseteq Buckets
  /\ \A r \in Reqs : /\ pc[r] = "idle" <=> bucket[r] = NoBucket
                     /\ pc[r] \in {"sending", "backoff"} <=> tries[r] > 0
                     /\ pc[r] \in Inside => slot[Token(r)] = r

\* Nothing is sent for a token while Telegram has asked it to keep quiet,
\* neither by the upload that was told so nor by the next one, whichever
\* bucket it is for (store.go:1395-1414, client.go:359).  The one exception
\* is what an upload was told that is cancelled in its back-off: the gate
\* learns of final failures only (see Cancel).
RetryAfterHonoured == \A r \in Reqs : pc[r] = "sending" => told[Token(r)] = 0

\* Every upload comes to an end, however many wait for the same token and
\* however often Telegram limits the rate.
EveryUploadEnds == \A r \in Reqs : pc[r] # "idle" ~> pc[r] = "idle"

Pacing == INSTANCE UploadPacing WITH
            turn <- slot, rest <- until,
            sending <- {r \in Reqs : pc[r] \in {"sending", "backoff"}}

\* The gate paces the uploads of every token.
ImplementsUploadPacing == Pacing!Spec

=================================================================================
