---------------------------- MODULE UploadGateProofs ----------------------------
(***************************************************************************)
(* UploadGate for any number of uploads, buckets, bot tokens and attempts, *)
(* and any times Telegram asks for.                                        *)
(***************************************************************************)
EXTENDS UploadGate, TLAPS

-------------------------------------------------------------------------------
(* The slot of a token                                                     *)

\* Only an upload past the gate has a slot, and it has the one of its token.
SlotsUsed ==
  \A t \in Tokens : slot[t] # NoReq => pc[slot[t]] \in Inside /\ Token(slot[t]) = t

\* A back-off is before the last attempt.
AttemptsLeft == \A r \in Reqs : pc[r] = "backoff" => tries[r] < MaxTries

Types == TypeOK /\ SlotsUsed /\ AttemptsLeft

LEMMA InitTypes == Init => Types
BY GateAssumption DEF Init, Types, TypeOK, SlotsUsed, AttemptsLeft, Stages, Inside

LEMMA TokenType ==
  ASSUME TypeOK, NEW r \in Reqs, pc[r] # "idle"
  PROVE  bucket[r] \in Buckets /\ Token(r) \in Tokens
BY GateAssumption DEF TypeOK, Token

\* An upload that has ended leaves the slots of the others alone.
LEMMA ReturnTypes ==
  ASSUME Types, NEW r \in Reqs, pc[r] # "idle", GiveSlot(r), Return(r),
         until' \in [Tokens -> Nat], told' \in [Tokens -> Nat], denied' \subseteq Buckets
  PROVE  Types'
<1>. USE GateAssumption, TokenType DEF Types, TypeOK, SlotsUsed, AttemptsLeft, GiveSlot, Return, Goto, Inside, Stages, Token
<1>1. slot' \in [Tokens -> Reqs \cup {NoReq}]
  OBVIOUS
<1>2. \A q \in Reqs \ {r} : pc'[q] = pc[q] /\ bucket'[q] = bucket[q] /\ tries'[q] = tries[q]
  OBVIOUS
<1>3. \A q \in Reqs \ {r} : pc[q] \in Inside => slot'[Token(q)] = q
  OBVIOUS
<1>4. \A t \in Tokens : slot'[t] # NoReq => slot'[t] = slot[t] /\ slot[t] # r
  OBVIOUS
<1>5. TypeOK'
  BY <1>1, <1>2, <1>3
<1>. QED  BY <1>2, <1>4, <1>5

LEMMA NextTypes == Types /\ [Next]_vars => Types'
<1>. SUFFICES ASSUME Types, [Next]_vars PROVE Types'
  OBVIOUS
<1>. USE GateAssumption DEF Types
<1>1. ASSUME NEW r \in Reqs, NEW b \in Buckets, Begin(r, b)
      PROVE  Types'
  <2>. USE <1>1 DEF Begin, Goto, TypeOK, SlotsUsed, AttemptsLeft, Token, Inside, Stages
  <2>1. \A q \in Reqs \ {r} : pc'[q] = pc[q] /\ bucket'[q] = bucket[q] /\ tries'[q] = tries[q]
    OBVIOUS
  <2>2. \A t \in Tokens : slot[t] # r
    OBVIOUS
  <2>3. TypeOK'
    BY <2>1
  <2>. QED  BY <2>1, <2>2, <2>3
<1>2. ASSUME NEW r \in Reqs, TakeSlot(r)
      PROVE  Types'
  <2>. USE <1>2, TokenType DEF TakeSlot, Goto, TypeOK, SlotsUsed, AttemptsLeft, Token, Inside, Stages
  <2>1. TypeOK'
    OBVIOUS
  <2>. QED  BY <2>1
<1>3. ASSUME NEW r \in Reqs, Send(r) \/ Retry(r)
      PROVE  Types'
  <2>. USE <1>3 DEF Send, Retry, Goto, TypeOK, SlotsUsed, AttemptsLeft, Token, Inside, Stages
  <2>1. TypeOK'
    OBVIOUS
  <2>. QED  BY <2>1
<1>4. ASSUME NEW r \in Reqs, NEW d \in Delays, RateLimited(r, d)
      PROVE  Types'
  <2>. USE <1>4, TokenType DEF RateLimited, Sleep, Goto, TypeOK, SlotsUsed, AttemptsLeft, Token, Inside, Stages
  <2>1. TypeOK'
    OBVIOUS
  <2>. QED  BY <2>1
<1>5. ASSUME NEW r \in Reqs, Disconnected(r)
      PROVE  Types'
  <2>. USE <1>5 DEF Disconnected, Sleep, Goto, TypeOK, SlotsUsed, AttemptsLeft, Token, Inside, Stages
  <2>1. TypeOK'
    OBVIOUS
  <2>. QED  BY <2>1
<1>6. ASSUME NEW r \in Reqs, Succeed(r) \/ Refuse(r) \/ LastDisconnected(r)
      PROVE  Types'
  <2>1. /\ pc[r] # "idle" /\ GiveSlot(r) /\ Return(r)
        /\ UNCHANGED <<until, told>> /\ denied' \subseteq Buckets
    BY <1>6, TokenType DEF Succeed, Refuse, LastDisconnected, TypeOK
  <2>. QED  BY <2>1, ReturnTypes DEF TypeOK
<1>7. ASSUME NEW r \in Reqs, NEW d \in Delays, LastRateLimited(r, d)
      PROVE  Types'
  <2>1. /\ pc[r] # "idle" /\ GiveSlot(r) /\ Return(r) /\ UNCHANGED denied
        /\ until' \in [Tokens -> Nat] /\ told' \in [Tokens -> Nat]
    BY <1>7, TokenType DEF LastRateLimited, TypeOK
  <2>. QED  BY <2>1, ReturnTypes DEF TypeOK
<1>8. ASSUME NEW r \in Reqs, Cancel(r)
      PROVE  Types'
  <2>1. /\ pc[r] # "idle" /\ GiveSlot(r) /\ Return(r) /\ UNCHANGED <<until, denied>>
        /\ told' \in [Tokens -> Nat]
    BY <1>8, TokenType DEF Cancel, TypeOK
  <2>. QED  BY <2>1, ReturnTypes DEF TypeOK
<1>9. CASE Tick
  BY <1>9 DEF Tick, Less, TypeOK, SlotsUsed, AttemptsLeft, Token
<1>10. ASSUME UNCHANGED vars
       PROVE  Types'
  BY <1>10 DEF vars, TypeOK, SlotsUsed, AttemptsLeft, Token
<1>11. ASSUME NEW r \in Reqs, NEW b \in Buckets, Reject(r, b)
       PROVE  Types'
  BY <1>10, <1>11 DEF Reject
<1>. QED  BY <1>1, <1>2, <1>3, <1>4, <1>5, <1>6, <1>7, <1>8, <1>9, <1>10, <1>11 DEF Next, Answer

\* Every step keeps the types; an upload past the gate holds its slot.
THEOREM GateTypes == Spec => []TypeOK
<1>1. Types => TypeOK
  BY DEF Types
<1>. QED  BY <1>1, InitTypes, NextTypes, PTL DEF Spec

-------------------------------------------------------------------------------
(* What Telegram has asked for                                             *)

\* Whatever a token was told, the gate or the back-off of the upload that has
\* the slot lasts as long; and while an upload has requests on the wire the
\* gate has no time left.
Covered(t) == told[t] <= until[t] \/ (slot[t] # NoReq /\ pc[slot[t]] = "backoff")

Quiet ==
  /\ \A r \in Reqs : /\ pc[r] \in {"sending", "backoff"} => until[Token(r)] = 0
                     /\ pc[r] = "sending" => told[Token(r)] = 0
                     /\ pc[r] = "backoff" => told[Token(r)] <= nap[r]
  /\ \A t \in Tokens : Covered(t)

\* The tokens that the step of an upload does not touch.
LEMMA CoveredFrame ==
  ASSUME Types, NEW r \in Reqs, NEW t \in Tokens, Covered(t),
         told'[t] = told[t], until'[t] = until[t], slot'[t] = slot[t], slot[t] # r,
         \A q \in Reqs \ {r} : pc'[q] = pc[q]
  PROVE  Covered(t)'
BY DEF Types, TypeOK, Covered

LEMMA InitQuiet == Init => Quiet
BY DEF Init, Quiet, Covered

\* The end of an upload, when its token is left with a time that covers what
\* it was told.
LEMMA ReturnQuiet ==
  ASSUME Types, Quiet, NEW r \in Reqs, pc[r] # "idle", GiveSlot(r), Return(r),
         until' \in [Tokens -> Nat], told' \in [Tokens -> Nat],
         \A t \in Tokens \ {Token(r)} : until'[t] = until[t] /\ told'[t] = told[t],
         IF pc[r] \in Inside THEN told'[Token(r)] <= until'[Token(r)] ELSE UNCHANGED <<until, told>>
  PROVE  Quiet'
<1>. USE TokenType DEF Types, TypeOK, SlotsUsed, Return, GiveSlot, Goto, Quiet, Stages
<1>1. \A q \in Reqs \ {r} : pc'[q] = pc[q] /\ Token(q)' = Token(q) /\ nap'[q] = nap[q]
  BY DEF Token
<1>2. pc'[r] = "idle"
  OBVIOUS
<1>3. CASE pc[r] \in Inside
  <2>1. \A q \in Reqs \ {r} : pc[q] \in Inside => Token(q) \in Tokens /\ Token(q) # Token(r)
    BY <1>3 DEF Inside
  <2>2. \A t \in Tokens \ {Token(r)} : slot'[t] = slot[t] /\ slot[t] # r
    BY <1>3, GateAssumption DEF Inside
  <2>3. \A t \in Tokens : Covered(t)'
    BY <1>1, <1>3, <2>2, CoveredFrame DEF Covered
  <2>. QED  BY <1>1, <1>2, <2>1, <2>3 DEF Inside
<1>4. CASE pc[r] \notin Inside
  <2>1. UNCHANGED <<slot, until, told>>
    BY <1>4
  <2>2. \A t \in Tokens : slot[t] # r
    BY <1>4, GateAssumption
  <2>3. \A t \in Tokens : Covered(t)'
    BY <1>1, <2>1, <2>2, CoveredFrame
  <2>. QED  BY <1>1, <1>2, <2>1, <2>3
<1>. QED  BY <1>3, <1>4

LEMMA NextQuiet == Types /\ Quiet /\ [Next]_vars => Quiet'
<1>. SUFFICES ASSUME Types, Quiet, [Next]_vars PROVE Quiet'
  OBVIOUS
<1>. USE GateAssumption DEF Types
<1>1. ASSUME NEW r \in Reqs, NEW b \in Buckets, Begin(r, b)
      PROVE  Quiet'
  <2>. USE <1>1 DEF Begin, Goto, TypeOK, SlotsUsed, Token, Inside, Quiet
  <2>1. \A q \in Reqs \ {r} : pc'[q] = pc[q] /\ bucket'[q] = bucket[q]
    OBVIOUS
  <2>2. \A t \in Tokens : slot[t] # r
    OBVIOUS
  <2>3. \A t \in Tokens : Covered(t)'
    BY <2>1, <2>2, CoveredFrame
  <2>. QED  BY <2>1, <2>3
<1>2. ASSUME NEW r \in Reqs, TakeSlot(r)
      PROVE  Quiet'
  <2>. USE <1>2 DEF TakeSlot, Goto, TypeOK, Quiet
  <2>1. \A q \in Reqs : Token(q)' = Token(q)
    BY DEF Token
  <2>2. Token(r) \in Tokens /\ told[Token(r)] <= until[Token(r)]
    BY TokenType DEF Covered
  <2>3. \A q \in Reqs \ {r} : pc'[q] = pc[q]
    OBVIOUS
  <2>4. pc'[r] = "cooldown"
    OBVIOUS
  <2>5. \A t \in Tokens \ {Token(r)} : slot'[t] = slot[t] /\ slot[t] # r
    BY DEF SlotsUsed, Inside
  <2>6. \A t \in Tokens : Covered(t)'
    BY <2>2, <2>3, <2>5, CoveredFrame DEF Covered
  <2>. QED  BY <2>1, <2>3, <2>4, <2>6
<1>3. ASSUME NEW r \in Reqs, Send(r) \/ Retry(r)
      PROVE  Quiet'
  <2>. USE <1>3, TokenType DEF Send, Retry, Goto, TypeOK, SlotsUsed, Token, Inside, Quiet
  <2>1. slot[Token(r)] = r /\ Token(r) \in Tokens /\ until[Token(r)] = 0 /\ told[Token(r)] = 0
    BY DEF Covered, Stages
  <2>2. \A q \in Reqs \ {r} : pc'[q] = pc[q]
    OBVIOUS
  <2>3. \A t \in Tokens \ {Token(r)} : slot[t] # r
    BY DEF SlotsUsed
  <2>4. pc'[r] = "sending" /\ UNCHANGED <<slot, until, told, nap>>
    OBVIOUS
  <2>5. \A q \in Reqs : Token(q)' = Token(q)
    OBVIOUS
  <2>6. \A t \in Tokens : Covered(t)'
    BY <2>1, <2>2, <2>3, <2>4, CoveredFrame DEF Covered
  <2>. QED  BY <2>1, <2>2, <2>4, <2>5, <2>6
<1>4. ASSUME NEW r \in Reqs, NEW d \in Nat, pc[r] = "sending", Sleep(r, d),
             told' = [told EXCEPT ![Token(r)] = d], UNCHANGED <<slot, until, bucket>>
      PROVE  Quiet'
  <2>. USE <1>4, TokenType DEF Sleep, Goto, TypeOK, SlotsUsed, Inside, Quiet
  <2>1. slot[Token(r)] = r /\ Token(r) \in Tokens
    OBVIOUS
  <2>2. \A q \in Reqs : Token(q)' = Token(q)
    BY DEF Token
  <2>3. \A q \in Reqs \ {r} : /\ pc'[q] = pc[q] /\ nap'[q] = nap[q]
                              /\ pc[q] \in Inside => Token(q) \in Tokens /\ Token(q) # Token(r)
    BY <2>1
  <2>4. \A t \in Tokens \ {Token(r)} : slot[t] # r
    BY DEF SlotsUsed
  <2>5. \A t \in Tokens : Covered(t)'
    BY <2>1, <2>3, <2>4, GateAssumption, CoveredFrame DEF Covered
  <2>. QED  BY <2>1, <2>2, <2>3, <2>5
<1>5. ASSUME NEW r \in Reqs, NEW d \in Delays, RateLimited(r, d)
      PROVE  Quiet'
  BY <1>4, <1>5 DEF RateLimited
<1>6. ASSUME NEW r \in Reqs, Disconnected(r)
      PROVE  Quiet'
  <2>1. pc[r] = "sending" /\ told[Token(r)] = 0
    BY <1>6 DEF Disconnected, Quiet
  <2>2. told' = [told EXCEPT ![Token(r)] = 0]
    BY <1>6, <2>1, TokenType DEF Disconnected, TypeOK
  <2>. QED  BY <1>4, <1>6, <2>1, <2>2 DEF Disconnected
<1>7. ASSUME NEW r \in Reqs, Succeed(r) \/ Refuse(r) \/ LastDisconnected(r)
      PROVE  Quiet'
  <2>1. /\ pc[r] = "sending" /\ GiveSlot(r) /\ Return(r) /\ UNCHANGED <<until, told>>
        /\ until[Token(r)] = 0 /\ told[Token(r)] = 0
    BY <1>7 DEF Succeed, Refuse, LastDisconnected, Quiet
  <2>. QED  BY <2>1, ReturnQuiet DEF TypeOK
<1>8. ASSUME NEW r \in Reqs, NEW d \in Delays, LastRateLimited(r, d)
      PROVE  Quiet'
  <2>1. /\ pc[r] = "sending" /\ GiveSlot(r) /\ Return(r) /\ Token(r) \in Tokens /\ d \in Nat
    BY <1>8, TokenType DEF LastRateLimited
  <2>2. /\ until' \in [Tokens -> Nat] /\ told' \in [Tokens -> Nat]
        /\ \A t \in Tokens \ {Token(r)} : until'[t] = until[t] /\ told'[t] = told[t]
        /\ told'[Token(r)] <= until'[Token(r)]
    BY <1>8, <2>1 DEF LastRateLimited, Quiet, Covered, TypeOK
  <2>. QED  BY <2>1, <2>2, ReturnQuiet DEF Inside
<1>9. ASSUME NEW r \in Reqs, Cancel(r)
      PROVE  Quiet'
  <2>1. pc[r] # "idle" /\ GiveSlot(r) /\ Return(r) /\ UNCHANGED until /\ Token(r) \in Tokens
    BY <1>9, TokenType DEF Cancel
  <2>2. /\ told' \in [Tokens -> Nat]
        /\ \A t \in Tokens \ {Token(r)} : told'[t] = told[t]
    BY <1>9, <2>1 DEF Cancel, TypeOK
  <2>3. IF pc[r] \in Inside THEN told'[Token(r)] <= until'[Token(r)] ELSE UNCHANGED told
    <3>1. CASE pc[r] = "backoff"
      BY <1>9, <2>1, <3>1 DEF Cancel, TypeOK, Inside
    <3>2. CASE pc[r] # "backoff"
      <4>1. told' = told
        BY <1>9, <3>2 DEF Cancel
      <4>2. pc[r] \in Inside => slot[Token(r)] = r
        BY DEF TypeOK
      <4>. QED  BY <2>1, <3>2, <4>1, <4>2 DEF Quiet, Covered
    <3>. QED  BY <3>1, <3>2
  <2>. QED  BY <2>1, <2>2, <2>3, ReturnQuiet DEF TypeOK
<1>10. CASE Tick
  <2>1. \A a, b \in Nat : a <= b => Less(a) <= Less(b)
    BY DEF Less
  <2>2. \A r \in Reqs : pc[r] # "idle" => Token(r) \in Tokens
    BY TokenType DEF Types
  <2>3. \A r \in Reqs : Token(r)' = Token(r)
    BY <1>10 DEF Tick, Token
  <2>4. \A r \in Reqs : pc[r] \in {"sending", "backoff"} =>
          /\ until'[Token(r)] = 0
          /\ told'[Token(r)] = Less(told[Token(r)])
    BY <1>10, <2>2 DEF Tick, Quiet, Less
  <2>5. \A r \in Reqs : /\ pc[r] = "sending" => told'[Token(r)] = 0
                        /\ pc[r] = "backoff" => told'[Token(r)] <= nap'[r]
    BY <1>10, <2>1, <2>2, <2>4 DEF Tick, Quiet, TypeOK, Less
  <2>6. \A t \in Tokens : Covered(t)'
    BY <1>10, <2>1 DEF Tick, Quiet, Covered, TypeOK
  <2>. QED  BY <1>10, <2>3, <2>4, <2>5, <2>6 DEF Tick, Quiet
<1>11. ASSUME UNCHANGED vars
       PROVE  Quiet'
  BY <1>11 DEF vars, Quiet, Covered, Token
<1>12. ASSUME NEW r \in Reqs, NEW b \in Buckets, Reject(r, b)
       PROVE  Quiet'
  BY <1>11, <1>12 DEF Reject
<1>. QED  BY <1>1, <1>2, <1>3, <1>5, <1>6, <1>7, <1>8, <1>9, <1>10, <1>11, <1>12 DEF Next, Answer

\* Nothing is sent for a token that was asked to keep quiet.
THEOREM GateKeepsQuiet == Spec => []RetryAfterHonoured
<1>1. Quiet => RetryAfterHonoured
  BY DEF Quiet, RetryAfterHonoured
<1>. QED  BY <1>1, InitTypes, InitQuiet, NextTypes, NextQuiet, PTL DEF Spec

-------------------------------------------------------------------------------
(* Refinement                                                              *)

OnWire == {r \in Reqs : pc[r] \in {"sending", "backoff"}}

\* The end of an upload past the gate is the end of its turn.
LEMMA ReturnEnds ==
  ASSUME Types, NEW r \in Reqs, pc[r] \in Inside, GiveSlot(r), Return(r),
         NEW t \in Tokens, t = Token(r),
         \/ UNCHANGED until
         \/ r \in OnWire /\ \E d \in Delays : until' = [until EXCEPT ![t] = d]
  PROVE  Pacing!End(r, t)
<1>1. slot[t] = r /\ slot' = [slot EXCEPT ![t] = NoReq]
  BY DEF Types, TypeOK, GiveSlot
<1>2. OnWire' = OnWire \ {r}
  BY DEF OnWire, Return, Goto, Types, TypeOK
<1>. QED  BY <1>1, <1>2 DEF Pacing!End, OnWire

LEMMA StepPaces ==
  ASSUME Types, Quiet, [Next]_vars
  PROVE  [Pacing!Next]_(Pacing!vars)
<1>. USE DEF Types
<1>. DEFINE Stutter == UNCHANGED <<slot, OnWire, until>>
<1>0. Stutter => UNCHANGED Pacing!vars
  BY DEF Pacing!vars, OnWire
<1>1. ASSUME NEW r \in Reqs, NEW b \in Buckets, Begin(r, b) \/ Reject(r, b)
      PROVE  Stutter
  BY <1>1 DEF Begin, Reject, Goto, TypeOK, OnWire, vars
<1>. DEFINE Turn(r) == \E t \in Tokens : Pacing!TakeTurn(r, t) \/ Pacing!Start(r, t) \/ Pacing!End(r, t)
<1>2. ASSUME NEW r \in Reqs, TakeSlot(r)
      PROVE  Turn(r)
  <2>1. PICK t \in Tokens : t = Token(r)
    BY <1>2, TokenType DEF TakeSlot
  <2>2. OnWire' = OnWire
    BY <1>2 DEF TakeSlot, Goto, TypeOK, OnWire
  <2>3. Pacing!TakeTurn(r, t)
    BY <1>2, <2>1, <2>2 DEF TakeSlot, Pacing!TakeTurn, OnWire
  <2>. QED  BY <2>3
<1>3. ASSUME NEW r \in Reqs, Send(r)
      PROVE  Turn(r)
  <2>1. PICK t \in Tokens : t = Token(r)
    BY <1>3, TokenType DEF Send
  <2>2. OnWire' = OnWire \cup {r}
    BY <1>3 DEF Send, Goto, TypeOK, OnWire
  <2>3. slot[t] = r
    BY <1>3, <2>1 DEF Send, TypeOK, Inside
  <2>4. Pacing!Start(r, t)
    BY <1>3, <2>1, <2>2, <2>3 DEF Send, Pacing!Start, OnWire
  <2>. QED  BY <2>4
<1>4. ASSUME NEW r \in Reqs, Retry(r) \/ Disconnected(r) \/ \E d \in Delays : RateLimited(r, d)
      PROVE  Stutter
  BY <1>4 DEF Retry, Disconnected, RateLimited, Sleep, Goto, TypeOK, OnWire
<1>5. ASSUME NEW r \in Reqs, Succeed(r) \/ Refuse(r) \/ LastDisconnected(r)
      PROVE  Turn(r)
  <2>1. PICK t \in Tokens : t = Token(r)
    BY <1>5, TokenType DEF Succeed, Refuse, LastDisconnected
  <2>2. Pacing!End(r, t)
    BY <1>5, <2>1, ReturnEnds DEF Succeed, Refuse, LastDisconnected, Inside
  <2>. QED  BY <2>2
<1>6. ASSUME NEW r \in Reqs, NEW d \in Delays, LastRateLimited(r, d)
      PROVE  Turn(r)
  <2>1. PICK t \in Tokens : t = Token(r)
    BY <1>6, TokenType DEF LastRateLimited
  <2>2. /\ pc[r] = "sending" /\ GiveSlot(r) /\ Return(r)
        /\ UNCHANGED until \/ until' = [until EXCEPT ![t] = d]
    BY <1>6, <2>1 DEF LastRateLimited
  <2>3. Pacing!End(r, t)
    BY <2>1, <2>2, ReturnEnds DEF Inside, OnWire
  <2>. QED  BY <2>3
<1>7. ASSUME NEW r \in Reqs, Cancel(r)
      PROVE  Stutter \/ Turn(r)
  <2>1. PICK t \in Tokens : t = Token(r)
    BY <1>7, TokenType DEF Cancel
  <2>2. CASE pc[r] \in Inside
    <3>1. Pacing!End(r, t)
      BY <1>7, <2>1, <2>2, ReturnEnds DEF Cancel
    <3>. QED  BY <3>1
  <2>3. CASE pc[r] \notin Inside
    BY <1>7, <2>3 DEF Cancel, GiveSlot, Return, Goto, TypeOK, OnWire, Inside
  <2>. QED  BY <2>2, <2>3
<1>8. Tick => Pacing!Pass
  BY DEF Tick, Less, Pacing!Pass, OnWire
<1>9. UNCHANGED vars => Stutter
  BY DEF vars, OnWire
<1>10. (\E r \in Reqs : Turn(r)) \/ Pacing!Pass => Pacing!Next
  BY DEF Pacing!Next
<1>. HIDE DEF Stutter, Turn
<1>. QED  BY <1>0, <1>1, <1>2, <1>3, <1>4, <1>5, <1>6, <1>7, <1>8, <1>9, <1>10 DEF Next, Answer

\* The gate implements the pacing of each token.
THEOREM GateImplementsPacing == Spec => ImplementsUploadPacing
<1>1. Init => Pacing!Init
  BY DEF Init, Pacing!Init
<1>. QED  BY <1>1, InitTypes, InitQuiet, NextTypes, NextQuiet, StepPaces, PTL
       DEF Spec, ImplementsUploadPacing, Pacing!Spec

===============================================================================
