----------------------------- MODULE BucketsProofs -----------------------------
(***************************************************************************)
(* Buckets for any number of names, chats, keys and requests: what no      *)
(* interleaving of the start, edits of the configuration, crashes, DELETE  *)
(* requests and renames can do to a bucket.                                *)
(***************************************************************************)
EXTENDS Buckets, TLAPS

-------------------------------------------------------------------------------
(* Types and chats                                                         *)

\* A rename that was checked is between buckets of one chat, and whatever has
\* a name is in the chat of that name.
ChatsAgree ==
  /\ rename # NoRename => /\ rename.from \in Names /\ rename.to \in Names
                          /\ ChatOf[rename.from] = ChatOf[rename.to]
  /\ \A n \in Names : /\ Exists(n) => rows[n].chat = ChatOf[n]
                      /\ \A k \in Keys : objects[n][k] # NoObject => objects[n][k] = ChatOf[n]

LEMMA InitTypes == Init => TypeOK /\ ChatsAgree
BY DEF Init, TypeOK, ChatsAgree, Stages, Exists, Empty, NoRename

LEMMA NextTypes == TypeOK /\ [Next]_vars => TypeOK'
<1>. SUFFICES ASSUME TypeOK, [Next]_vars PROVE TypeOK'
  OBVIOUS
<1>. USE DEF TypeOK, service
<1>1. ASSUME NEW n \in Names, Edit(n)
      PROVE  TypeOK'
  BY <1>1 DEF Edit
<1>2. CASE Start
  BY <1>2 DEF Start, Stages
<1>3. ASSUME NEW n \in Names, Upsert(n)
      PROVE  TypeOK'
  BY <1>3, NamesAssumption DEF Upsert, Row
<1>4. CASE Disable
  <2>1. \A n \in Names : Exists(n) => [rows[n] EXCEPT !.enabled = FALSE] \in Row
    BY DEF Exists, Row
  <2>. QED  BY <1>4, <2>1 DEF Disable, Stages
<1>5. CASE Snapshot
  BY <1>5 DEF Snapshot, Stages
<1>6. CASE Stop
  BY <1>6 DEF Stop, Stages
<1>7. ASSUME NEW n \in Names, NEW k \in Keys, Put(n, k) \/ DeleteObject(n, k)
      PROVE  TypeOK'
  BY <1>7, NamesAssumption DEF Put, DeleteObject
<1>8. ASSUME NEW d \in Requests, NEW n \in Names, CheckDrop(d, n)
      PROVE  TypeOK'
  BY <1>8 DEF CheckDrop
<1>9. ASSUME NEW d \in Requests, DropBucket(d)
      PROVE  TypeOK'
  BY <1>9 DEF DropBucket, Empty
<1>10. ASSUME NEW m \in Names, NEW n \in Names, CheckRename(m, n)
       PROVE  TypeOK'
  BY <1>10 DEF CheckRename
<1>11. ASSUME NEW m \in Names, NEW n \in Names, CommitRename(m, n)
       PROVE  TypeOK'
  <2>. USE <1>11 DEF CommitRename
  <2>1. rows' \in [Names -> Row \cup {NoRow}]
    OBVIOUS
  <2>2. objects' \in [Names -> [Keys -> Chats \cup {NoObject}]]
    <3>1. Empty \in [Keys -> Chats \cup {NoObject}]
      BY DEF Empty
    <3>2. [k \in Keys |-> IF k \in Held(m) THEN objects[m][k] ELSE objects[n][k]]
            \in [Keys -> Chats \cup {NoObject}]
      OBVIOUS
    <3>. QED  BY <3>1, <3>2
  <2>3. crossed' \subseteq Names \cup Requests
    BY DEF Overtaken
  <2>4. rename' \in [from : Names \cup {NoName}, to : Names \cup {NoName}]
    BY DEF NoRename
  <2>. QED  BY <2>1, <2>2, <2>3, <2>4
<1>12. CASE RenameFails
  BY <1>12 DEF RenameFails, NoRename
<1>13. CASE UNCHANGED vars
  BY <1>13 DEF vars
<1>. QED  BY <1>1, <1>2, <1>3, <1>4, <1>5, <1>6, <1>7, <1>8, <1>9, <1>10, <1>11, <1>12, <1>13 DEF Next

\* Every step keeps the types.
THEOREM BucketTypes == Spec => []TypeOK
BY InitTypes, NextTypes, PTL DEF Spec

LEMMA NextChats ==
  ASSUME TypeOK, ChatsAgree, [Next]_vars
  PROVE  ChatsAgree'
<1>. USE DEF TypeOK, ChatsAgree
<1>1. ASSUME UNCHANGED <<rows, objects, rename>>
      PROVE  ChatsAgree'
  BY <1>1 DEF Exists
<1>2. ASSUME NEW n \in Names, Upsert(n)
      PROVE  ChatsAgree'
  BY <1>2 DEF Upsert, Exists, Row
<1>3. CASE Disable
  BY <1>3 DEF Disable, Exists, Row
<1>4. ASSUME NEW n \in Names, NEW k \in Keys, Put(n, k) \/ DeleteObject(n, k)
      PROVE  ChatsAgree'
  BY <1>4 DEF Put, DeleteObject, Exists
<1>5. ASSUME NEW d \in Requests, DropBucket(d)
      PROVE  ChatsAgree'
  BY <1>5 DEF DropBucket, Exists, Empty
<1>6. ASSUME NEW m \in Names, NEW n \in Names, CheckRename(m, n)
      PROVE  ChatsAgree'
  BY <1>6 DEF CheckRename, Exists
<1>7. ASSUME NEW m \in Names, NEW n \in Names, CommitRename(m, n)
      PROVE  ChatsAgree'
  <2>. USE <1>7 DEF CommitRename, RenameAllowed
  <2>1. ChatOf[m] = ChatOf[n]
    BY NamesAssumption DEF NoRename
  <2>2. \A q \in Names : Exists(q)' => rows'[q].chat = ChatOf[q]
    BY <2>1 DEF Exists
  <2>3. \A q \in Names, k \in Keys : objects'[q][k] # NoObject => objects'[q][k] = ChatOf[q]
    BY <2>1 DEF Empty, Held
  <2>. QED  BY <2>2, <2>3 DEF NoRename
<1>8. CASE RenameFails
  BY <1>8 DEF RenameFails, Exists
<1>9. ASSUME NEW n \in Names, Edit(n)
      PROVE  UNCHANGED <<rows, objects, rename>>
  BY <1>9 DEF Edit
<1>10. Start \/ Snapshot \/ Stop \/ UNCHANGED vars => UNCHANGED <<rows, objects, rename>>
  BY DEF Start, Snapshot, Stop, vars
<1>11. ASSUME NEW d \in Requests, NEW n \in Names, CheckDrop(d, n)
       PROVE  UNCHANGED <<rows, objects, rename>>
  BY <1>11 DEF CheckDrop
<1>. QED  BY <1>1, <1>2, <1>3, <1>4, <1>5, <1>6, <1>7, <1>8, <1>9, <1>10, <1>11 DEF Next

-------------------------------------------------------------------------------
(* What is served, and what is dropped                                     *)

\* What a DELETE request is about to drop is disabled, unless a rename has
\* overtaken the request, and then it has crossed the name too.
DropsStale ==
  /\ server # "up" => \A d \in Requests : drops[d] = NoName
  /\ \A d \in Requests : /\ drops[d] # NoName /\ Enabled(drops[d]) => d \in crossed
                         /\ d \in crossed => drops[d] # NoName /\ drops[d] \in crossed

\* During the start the buckets that were upserted are enabled, and while the
\* service is up those it serves are, except where a rename came across.
ServedCrossed ==
  /\ server = "upsert" => \A n \in loaded \ pending : Enabled(n) \/ n \in crossed
  /\ server = "snapshot" => \A n \in loaded : Enabled(n) \/ n \in crossed
  /\ server = "up" => /\ startup \subseteq loaded /\ loaded \subseteq startup \cup crossed
                      /\ \A n \in startup : Enabled(n) \/ n \in crossed

\* An object without a bucket is under a name a rename has moved away.
ObjectsHoused == \A n \in Names : Held(n) # {} => Exists(n) \/ n \in crossed

LEMMA InitInvariants == Init => DropsStale /\ ServedCrossed /\ ObjectsHoused
BY DEF Init, DropsStale, ServedCrossed, ObjectsHoused, Held, Empty

LEMMA NextDrops ==
  ASSUME TypeOK, DropsStale, [Next]_vars
  PROVE  DropsStale'
<1>. USE DEF TypeOK, DropsStale, Exists, Enabled, service
<1>1. ASSUME UNCHANGED <<rows, server, drops, crossed>>
      PROVE  DropsStale'
  BY <1>1
<1>2. CASE Start
  BY <1>2 DEF Start
<1>3. ASSUME NEW n \in Names, Upsert(n)
      PROVE  DropsStale'
  BY <1>3, RequestsAssumption DEF Upsert
<1>4. CASE Disable
  BY <1>4 DEF Disable
<1>5. CASE Snapshot
  BY <1>5 DEF Snapshot
<1>6. CASE Stop
  BY <1>6 DEF Stop
<1>7. ASSUME NEW d \in Requests, NEW n \in Names, CheckDrop(d, n)
      PROVE  DropsStale'
  BY <1>7 DEF CheckDrop
<1>8. ASSUME NEW d \in Requests, DropBucket(d)
      PROVE  DropsStale'
  BY <1>8, RequestsAssumption DEF DropBucket
<1>9. ASSUME NEW m \in Names, NEW n \in Names, CommitRename(m, n)
      PROVE  DropsStale'
  <2>. USE <1>9 DEF CommitRename
  <2>1. UNCHANGED <<server, drops>> /\ crossed' = crossed \cup Overtaken(m, n)
    OBVIOUS
  <2>2. \A q \in Names \ {m, n} : rows'[q] = rows[q]
    OBVIOUS
  <2>3. ASSUME NEW d \in Requests, drops[d] # NoName, Enabled(drops[d])'
        PROVE  d \in crossed'
    BY <2>1, <2>2, <2>3 DEF Overtaken
  <2>4. ASSUME NEW d \in Requests, d \in crossed'
        PROVE  drops[d] # NoName /\ drops[d] \in crossed'
    <3>1. CASE d \in crossed
      BY <2>1, <3>1
    <3>2. CASE drops[d] \in {m, n} /\ server = "up"
      BY <2>1, <3>2, NamesAssumption DEF Overtaken
    <3>3. CASE d \notin crossed /\ ~(drops[d] \in {m, n} /\ server = "up")
      BY <2>1, <2>4, <3>3, NamesAssumption, RequestsAssumption DEF Overtaken
    <3>. QED  BY <3>1, <3>2, <3>3
  <2>. QED  BY <2>1, <2>3, <2>4
<1>10. ASSUME NEW n \in Names, Edit(n) \/ \E k \in Keys : Put(n, k) \/ DeleteObject(n, k)
       PROVE  UNCHANGED <<rows, server, drops, crossed>>
  BY <1>10 DEF Edit, Put, DeleteObject
<1>11. ASSUME NEW m \in Names, NEW n \in Names, CheckRename(m, n)
       PROVE  UNCHANGED <<rows, server, drops, crossed>>
  BY <1>11 DEF CheckRename
<1>12. RenameFails \/ UNCHANGED vars => UNCHANGED <<rows, server, drops, crossed>>
  BY DEF RenameFails, vars
<1>. QED  BY <1>1, <1>2, <1>3, <1>4, <1>5, <1>6, <1>7, <1>8, <1>9, <1>10, <1>11, <1>12 DEF Next

\* An upserted bucket exists and is enabled.
LEMMA Upserted ==
  ASSUME TypeOK, NEW n \in Names, Upsert(n)
  PROVE  Enabled(n)'
<1>. DEFINE new == [chat |-> ChatOf[n], enabled |-> TRUE]
<1>1. new \in Row
  BY NamesAssumption DEF Row
<1>2. rows'[n] = new
  BY DEF Upsert, TypeOK
<1>3. new # NoRow /\ new.enabled
  BY <1>1, RowsAssumption
<1>. QED  BY <1>2, <1>3 DEF Enabled, Exists

LEMMA NextServed ==
  ASSUME TypeOK, DropsStale, ServedCrossed, [Next]_vars
  PROVE  ServedCrossed'
<1>. USE DEF TypeOK, ServedCrossed, Exists, Enabled, service
<1>1. ASSUME UNCHANGED <<rows, service, crossed>>
      PROVE  ServedCrossed'
  BY <1>1
<1>2. CASE Start
  BY <1>2 DEF Start
<1>3. ASSUME NEW n \in Names, Upsert(n)
      PROVE  ServedCrossed'
  BY <1>3, Upserted DEF Upsert
<1>4. CASE Disable
  BY <1>4 DEF Disable
<1>5. CASE Snapshot
  BY <1>5, RequestsAssumption DEF Snapshot
<1>6. CASE Stop
  BY <1>6 DEF Stop
<1>7. ASSUME NEW d \in Requests, DropBucket(d)
      PROVE  ServedCrossed'
  <2>. USE <1>7 DEF DropBucket
  <2>1. server = "up" /\ drops[d] \in Names
    BY DEF DropsStale
  <2>2. Enabled(drops[d]) => drops[d] \in crossed
    BY DEF DropsStale
  <2>3. \A n \in Names : n \in crossed' <=> n \in crossed
    BY RequestsAssumption
  <2>. QED  BY <2>1, <2>2, <2>3
<1>8. ASSUME NEW m \in Names, NEW n \in Names, CommitRename(m, n)
      PROVE  ServedCrossed'
  <2>. USE <1>8 DEF CommitRename
  <2>1. UNCHANGED service /\ crossed \subseteq crossed'
    OBVIOUS
  <2>2. \A q \in Names \ {m, n} : rows'[q] = rows[q]
    OBVIOUS
  <2>3. server # "down" => m \in crossed' /\ n \in crossed'
    BY DEF Overtaken
  <2>. QED  BY <2>1, <2>2, <2>3
<1>9. ASSUME NEW n \in Names, Edit(n) \/ \E k \in Keys : Put(n, k) \/ DeleteObject(n, k)
      PROVE  UNCHANGED <<rows, service, crossed>>
  BY <1>9 DEF Edit, Put, DeleteObject
<1>10. ASSUME NEW d \in Requests, NEW n \in Names, CheckDrop(d, n)
       PROVE  UNCHANGED <<rows, service, crossed>>
  BY <1>10 DEF CheckDrop
<1>11. ASSUME NEW m \in Names, NEW n \in Names, CheckRename(m, n)
       PROVE  UNCHANGED <<rows, service, crossed>>
  BY <1>11 DEF CheckRename
<1>12. RenameFails \/ UNCHANGED vars => UNCHANGED <<rows, service, crossed>>
  BY DEF RenameFails, vars
<1>. QED  BY <1>1, <1>2, <1>3, <1>4, <1>5, <1>6, <1>7, <1>8, <1>9, <1>10, <1>11, <1>12 DEF Next

LEMMA NextHoused ==
  ASSUME TypeOK, ServedCrossed, ObjectsHoused, [Next]_vars
  PROVE  ObjectsHoused'
<1>. USE DEF TypeOK, ObjectsHoused, Held, Exists, service
<1>1. ASSUME UNCHANGED <<rows, objects>>, Names \cap crossed \subseteq crossed'
      PROVE  ObjectsHoused'
  BY <1>1
<1>2. ASSUME NEW n \in Names, Upsert(n)
      PROVE  ObjectsHoused'
  BY <1>2, Upserted DEF Upsert, Enabled
<1>3. CASE Disable
  <2>1. \A n \in Names : rows[n] # NoRow => rows'[n] # NoRow
    BY <1>3, RowsAssumption DEF Disable, Row
  <2>. QED  BY <1>3, <2>1 DEF Disable
<1>4. ASSUME NEW n \in Names, NEW k \in Keys, Put(n, k)
      PROVE  ObjectsHoused'
  <2>1. Exists(n) \/ n \in crossed
    BY <1>4 DEF Put, Serves, ServedCrossed, Enabled
  <2>2. \A q \in Names \ {n} : objects'[q] = objects[q]
    BY <1>4 DEF Put
  <2>. QED  BY <1>4, <2>1, <2>2 DEF Put
<1>5. ASSUME NEW n \in Names, NEW k \in Keys, DeleteObject(n, k)
      PROVE  ObjectsHoused'
  <2>1. \A q \in Names, j \in Keys : objects'[q][j] # NoObject => objects[q][j] # NoObject
    BY <1>5 DEF DeleteObject
  <2>. QED  BY <1>5, <2>1 DEF DeleteObject
<1>6. ASSUME NEW d \in Requests, DropBucket(d)
      PROVE  ObjectsHoused'
  BY <1>6, RequestsAssumption DEF DropBucket, Empty
<1>7. ASSUME NEW m \in Names, NEW n \in Names, CommitRename(m, n)
      PROVE  ObjectsHoused'
  <2>. USE <1>7 DEF CommitRename, RenameAllowed
  <2>1. rows'[n] # NoRow /\ objects'[m] = Empty
    OBVIOUS
  <2>2. \A q \in Names \ {m, n} : rows'[q] = rows[q] /\ objects'[q] = objects[q]
    OBVIOUS
  <2>. QED  BY <2>1, <2>2 DEF Empty
<1>8. ASSUME NEW n \in Names, Edit(n)
      PROVE  UNCHANGED <<rows, objects, crossed>>
  BY <1>8 DEF Edit
<1>9. Start \/ Snapshot \/ RenameFails \/ UNCHANGED vars => UNCHANGED <<rows, objects, crossed>>
  BY DEF Start, Snapshot, RenameFails, vars
<1>10. Stop => UNCHANGED <<rows, objects>> /\ Names \cap crossed \subseteq crossed'
  BY RequestsAssumption DEF Stop
<1>11. ASSUME NEW d \in Requests, NEW n \in Names, CheckDrop(d, n)
       PROVE  UNCHANGED <<rows, objects, crossed>>
  BY <1>11 DEF CheckDrop
<1>12. ASSUME NEW m \in Names, NEW n \in Names, CheckRename(m, n)
       PROVE  UNCHANGED <<rows, objects, crossed>>
  BY <1>12 DEF CheckRename
<1>. QED  BY <1>1, <1>2, <1>3, <1>4, <1>5, <1>6, <1>7, <1>8, <1>9, <1>10, <1>11, <1>12 DEF Next

Inv == TypeOK /\ ChatsAgree /\ DropsStale /\ ServedCrossed /\ ObjectsHoused

LEMMA Inductive == (Init => Inv) /\ (Inv /\ [Next]_vars => Inv')
BY InitTypes, InitInvariants, NextTypes, NextChats, NextDrops, NextServed, NextHoused DEF Inv

\* What is served, the rows and the objects agree, but for what a rename has
\* crossed.
THEOREM BucketsAgree == Spec => []BucketsCoherent
<1>1. Inv => BucketsCoherent
  BY DEF Inv, TypeOK, ChatsAgree, ServedCrossed, ObjectsHoused, BucketsCoherent, Held
<1>. QED  BY <1>1, Inductive, PTL DEF Spec

\* No enabled bucket is deleted, unless a rename put it under a name that was
\* checked before.
THEOREM DropsOrphans == Spec => OnlyOrphansAreDropped
<1>1. Inv /\ [Next]_vars =>
        [\A d \in Requests : DropBucket(d) /\ Enabled(drops[d]) => d \in crossed]_vars
  BY DEF Inv, DropsStale, DropBucket
<1>. QED  BY <1>1, Inductive, PTL DEF Spec, OnlyOrphansAreDropped

-------------------------------------------------------------------------------
(* Objects survive                                                         *)

LEMMA LostOnPurpose ==
  ASSUME TypeOK, [Next]_vars, NEW n \in Names, NEW k \in Keys,
         objects[n][k] # NoObject, objects'[n][k] # objects[n][k]
  PROVE  \/ Put(n, k) \/ DeleteObject(n, k)
         \/ \E d \in Requests : drops[d] = n /\ DropBucket(d)
         \/ \E m \in Names : /\ CommitRename(n, m)
                            /\ objects[m][k] = NoObject /\ objects'[m][k] = objects[n][k]
<1>. USE DEF TypeOK
<1>1. ASSUME NEW q \in Names, NEW j \in Keys, Put(q, j) \/ DeleteObject(q, j)
      PROVE  q = n /\ j = k
  BY <1>1 DEF Put, DeleteObject
<1>2. ASSUME NEW d \in Requests, DropBucket(d)
      PROVE  drops[d] = n
  BY <1>2 DEF DropBucket
<1>3. ASSUME NEW m \in Names, NEW q \in Names, CommitRename(m, q)
      PROVE  m = n /\ objects[q][k] = NoObject /\ objects'[q][k] = objects[n][k]
  <2>. USE <1>3 DEF CommitRename, RenameAllowed, Held
  <2>1. n \in {m, q}
    OBVIOUS
  <2>2. objects'[q][k] = IF objects[m][k] # NoObject THEN objects[m][k] ELSE objects[q][k]
    OBVIOUS
  <2>3. n # q
    BY <2>2
  <2>. QED  BY <2>1, <2>2, <2>3
<1>4. ASSUME NEW q \in Names, Edit(q) \/ Upsert(q)
      PROVE  FALSE
  BY <1>4 DEF Edit, Upsert
<1>5. ~Start /\ ~Disable /\ ~Snapshot /\ ~Stop /\ ~RenameFails /\ ~UNCHANGED vars
  BY DEF Start, Disable, Snapshot, Stop, RenameFails, vars
<1>6. ASSUME NEW d \in Requests, NEW q \in Names, CheckDrop(d, q)
      PROVE  FALSE
  BY <1>6 DEF CheckDrop
<1>7. ASSUME NEW m \in Names, NEW q \in Names, CheckRename(m, q)
      PROVE  FALSE
  BY <1>7 DEF CheckRename
<1>. QED  BY <1>1, <1>2, <1>3, <1>4, <1>5, <1>6, <1>7 DEF Next

\* No edit, crash, start or rename loses an object.
THEOREM BucketsKeepObjects == Spec => ObjectsSurvive
<1>. DEFINE Kept == \A n \in Names, k \in Keys :
       objects[n][k] # NoObject /\ objects'[n][k] # objects[n][k] =>
         \/ Put(n, k) \/ DeleteObject(n, k)
         \/ \E d \in Requests : drops[d] = n /\ DropBucket(d)
         \/ \E m \in Names : /\ CommitRename(n, m)
                            /\ objects[m][k] = NoObject /\ objects'[m][k] = objects[n][k]
<1>1. TypeOK /\ [Next]_vars => [Kept]_vars
  BY LostOnPurpose
<1>. QED  BY <1>1, InitTypes, NextTypes, PTL DEF Spec, ObjectsSurvive

===============================================================================
