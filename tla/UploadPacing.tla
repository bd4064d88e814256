------------------------------ MODULE UploadPacing ------------------------------
(***************************************************************************)
(* What the store promises Telegram for each bot token: uploads are sent   *)
(* one after the other, and after one that failed for the rate limit       *)
(* nothing is sent until the time it asked for is over.  UploadGate.tla    *)
(* implements this specification.                                          *)
(***************************************************************************)
EXTENDS Naturals

CONSTANTS Reqs, Tokens, NoReq, Delays

VARIABLES turn,     \* the upload whose turn it is, for each token
          sending,  \* the uploads whose requests may be on the wire
          rest      \* how long each token still has to keep quiet

vars == <<turn, sending, rest>>

Init == /\ turn = [t \in Tokens |-> NoReq]
        /\ sending = {}
        /\ rest = [t \in Tokens |-> 0]

TakeTurn(r, t) == /\ turn[t] = NoReq
                  /\ turn' = [turn EXCEPT ![t] = r]
                  /\ UNCHANGED <<sending, rest>>

Start(r, t) == /\ turn[t] = r /\ rest[t] = 0
               /\ sending' = sending \cup {r}
               /\ UNCHANGED <<turn, rest>>

\* An upload ends, and may leave a time to keep quiet behind.
End(r, t) == /\ turn[t] = r
             /\ turn' = [turn EXCEPT ![t] = NoReq]
             /\ sending' = sending \ {r}
             /\ \/ UNCHANGED rest
                \/ r \in sending /\ \E d \in Delays : rest' = [rest EXCEPT ![t] = d]

Pass == /\ rest' = [t \in Tokens |-> IF rest[t] = 0 THEN 0 ELSE rest[t] - 1]
        /\ UNCHANGED <<turn, sending>>

Next == \/ \E r \in Reqs, t \in Tokens : TakeTurn(r, t) \/ Start(r, t) \/ End(r, t)
        \/ Pass

Spec == Init /\ [][Next]_vars

=================================================================================
