-------------------------------- MODULE Buckets --------------------------------
(***************************************************************************)
(* The life of a bucket: the start of the service, which brings the bucket *)
(* rows in line with the configuration one row at a time                   *)
(* (cmd/tgnas/main.go, runServiceWithDebug) and then takes its own copy of *)
(* them (store/store.go, NewObjectStore); the deletion of a bucket that is *)
(* no longer configured; and `tgnas bucket rename`, another process on the *)
(* same database.                                                          *)
(*                                                                         *)
(* The service works from its copy: it accepts objects for a bucket whose  *)
(* row a rename has moved away.  Deleting and renaming look at the rows    *)
(* first and change them in a later transaction.                           *)
(***************************************************************************)
EXTENDS FiniteSets

CONSTANTS Names,     \* of buckets
          Chats,
          ChatOf,    \* the chat_id the operator gives a bucket of each name
          Keys,
          Requests,  \* DELETE requests for a bucket
          NoRow, NoName, NoObject

ASSUME NamesAssumption == NoName \notin Names /\ ChatOf \in [Names -> Chats]
ASSUME ChatsAssumption == NoObject \notin Chats
ASSUME RequestsAssumption == Names \cap Requests = {}

VARIABLES config,    \* the names in the configuration file
          rows,      \* the table of buckets
          objects,   \* for each bucket and key, the chat the object is in
          server,    \* where the service is: see Stages
          loaded,    \* the names it read from the configuration
          pending,   \* those it has still to upsert
          startup,   \* startupBuckets, what it serves
          drops,     \* for each request, the bucket it is about to delete
          rename,    \* the rename the CLI has checked and not yet committed
          crossed    \* the names a rename has moved from or to while the
                     \* service was at work and that were not upserted since,
                     \* and the requests a rename has overtaken

service == <<server, loaded, pending, startup>>
vars    == <<config, rows, objects, service, drops, rename, crossed>>

Stages   == {"down", "upsert", "snapshot", "up"}
Row      == [chat : Chats, enabled : BOOLEAN]
ASSUME RowsAssumption == NoRow \notin Row
NoRename == [from |-> NoName, to |-> NoName]

Exists(n)  == rows[n] # NoRow
Enabled(n) == Exists(n) /\ rows[n].enabled
Held(n)    == {k \in Keys : objects[n][k] # NoObject}
Empty      == [k \in Keys |-> NoObject]

Init == /\ config \in (SUBSET Names) \ {{}}
        /\ rows = [n \in Names |-> NoRow]
        /\ objects = [n \in Names |-> Empty]
        /\ server = "down" /\ loaded = {} /\ pending = {} /\ startup = {}
        /\ drops = [d \in Requests |-> NoName]
        /\ rename = NoRename
        /\ crossed = {}

-------------------------------------------------------------------------------
(* The operator and the start of the service                               *)

\* A bucket is added to the configuration file or taken out of it, which must
\* name one at least.
Edit(n) == /\ config' = IF n \in config THEN config \ {n} ELSE config \cup {n}
           /\ config' # {}
           /\ UNCHANGED <<rows, objects, service, drops, rename, crossed>>

\* Mutation: the buckets of earlier configurations are enabled again.
StartAll == /\ server = "down"
            /\ server' = "upsert" /\ loaded' = config
            /\ pending' = config \cup {n \in Names : Exists(n)}
            /\ UNCHANGED <<config, rows, objects, startup, drops, rename, crossed>>

Start == /\ server = "down"
         /\ server' = "upsert" /\ loaded' = config /\ pending' = config
         /\ UNCHANGED <<config, rows, objects, startup, drops, rename, crossed>>

Upsert(n) ==
  /\ server = "upsert" /\ n \in pending
  /\ rows' = [rows EXCEPT ![n] = [chat |-> ChatOf[n], enabled |-> TRUE]]
  /\ pending' = pending \ {n}
  /\ crossed' = crossed \ {n}
  /\ UNCHANGED <<config, objects, server, loaded, startup, drops, rename>>

\* DisableBucketsExcept.
Disable ==
  /\ server = "upsert" /\ pending = {}
  /\ rows' = [n \in Names |-> IF Exists(n) /\ n \notin loaded THEN [rows[n] EXCEPT !.enabled = FALSE]
                              ELSE rows[n]]
  /\ server' = "snapshot"
  /\ UNCHANGED <<config, objects, loaded, pending, startup, drops, rename, crossed>>

\* NewObjectStore takes its copy of the enabled rows.  It refuses one that has
\* no binding, which ends the start.
Snapshot ==
  /\ server = "snapshot"
  /\ \A n \in Names : Enabled(n) => n \in loaded
  /\ startup' = {n \in Names : Enabled(n)}
  /\ server' = "up"
  /\ UNCHANGED <<config, rows, objects, loaded, pending, drops, rename, crossed>>

\* A step of the start fails, or the service stops or is killed; its requests
\* go with it.
Stop == /\ server # "down"
        /\ server' = "down" /\ loaded' = {} /\ pending' = {} /\ startup' = {}
        /\ drops' = [d \in Requests |-> NoName]
        /\ crossed' = crossed \ Requests
        /\ UNCHANGED <<config, rows, objects, rename>>

-------------------------------------------------------------------------------
(* Requests                                                                *)

Serves(n) == server = "up" /\ n \in startup

\* Objects are put to and deleted from the buckets of the copy.  They go to the
\* chat of the binding.
Put(n, k) == /\ Serves(n)
             /\ objects' = [objects EXCEPT ![n][k] = ChatOf[n]]
             /\ UNCHANGED <<config, rows, service, drops, rename, crossed>>

DeleteObject(n, k) == /\ Serves(n)
                      /\ objects' = [objects EXCEPT ![n][k] = NoObject]
                      /\ UNCHANGED <<config, rows, service, drops, rename, crossed>>

\* Mutation: a bucket is deleted whether it is configured or not.
CheckDropAny(d, n) ==
  /\ server = "up" /\ drops[d] = NoName /\ Exists(n)
  /\ drops' = [drops EXCEPT ![d] = n]
  /\ UNCHANGED <<config, rows, objects, service, rename, crossed>>

\* DELETE of a bucket, by S3 or by WebDAV: only one that is disabled.
CheckDrop(d, n) ==
  /\ server = "up" /\ drops[d] = NoName /\ Exists(n) /\ ~Enabled(n)
  /\ drops' = [drops EXCEPT ![d] = n]
  /\ UNCHANGED <<config, rows, objects, service, rename, crossed>>

\* The transaction takes whatever has the name by now.
DropBucket(d) ==
  /\ drops[d] # NoName
  /\ rows' = [rows EXCEPT ![drops[d]] = NoRow]
  /\ objects' = [objects EXCEPT ![drops[d]] = Empty]
  /\ drops' = [drops EXCEPT ![d] = NoName]
  /\ crossed' = crossed \ {d}
  /\ UNCHANGED <<config, service, rename>>

-------------------------------------------------------------------------------
(* tgnas bucket rename                                                     *)

\* Mutation: the chat of the target is not compared.
CheckRenameAnyChat(m, n) ==
  /\ rename = NoRename /\ n \in config /\ Exists(m)
  /\ rename' = [from |-> m, to |-> n]
  /\ UNCHANGED <<config, rows, objects, service, drops, crossed>>

\* The target is configured, and with the chat of the source's row.
CheckRename(m, n) ==
  /\ rename = NoRename /\ n \in config /\ Exists(m)
  /\ rows[m].chat = ChatOf[n]
  /\ rename' = [from |-> m, to |-> n]
  /\ UNCHANGED <<config, rows, objects, service, drops, crossed>>

\* RenameBucket's own checks; the primary keys of the tables refuse a second
\* object of the same key.
RenameAllowed(m, n) == /\ m # n /\ Exists(m) /\ ~Exists(n)
                       /\ Held(m) \cap Held(n) = {}

Overtaken(m, n) == (IF server = "down" THEN {} ELSE {m, n}) \cup {d \in Requests : drops[d] \in {m, n}}

\* Mutation: an object that is in the way is replaced.
CommitRenameOver(m, n) ==
  /\ rename = [from |-> m, to |-> n]
  /\ m # n /\ Exists(m) /\ ~Exists(n)
  /\ rows' = [rows EXCEPT ![n] = rows[m], ![m] = NoRow]
  /\ objects' = [objects EXCEPT ![m] = Empty,
                   ![n] = [k \in Keys |-> IF k \in Held(m) THEN objects[m][k] ELSE objects[n][k]]]
  /\ crossed' = crossed \cup Overtaken(m, n)
  /\ rename' = NoRename
  /\ UNCHANGED <<config, service, drops>>

CommitRename(m, n) ==
  /\ rename = [from |-> m, to |-> n]
  /\ RenameAllowed(m, n)
  /\ rows' = [rows EXCEPT ![n] = rows[m], ![m] = NoRow]
  /\ objects' = [objects EXCEPT ![m] = Empty,
                   ![n] = [k \in Keys |-> IF k \in Held(m) THEN objects[m][k] ELSE objects[n][k]]]
  /\ crossed' = crossed \cup Overtaken(m, n)
  /\ rename' = NoRename
  /\ UNCHANGED <<config, service, drops>>

\* It is refused, or fails, and is rolled back; or the CLI is killed.
RenameFails == /\ rename # NoRename
               /\ rename' = NoRename
               /\ UNCHANGED <<config, rows, objects, service, drops, crossed>>

-------------------------------------------------------------------------------
Next == \/ Start \/ Disable \/ Snapshot \/ Stop \/ RenameFails
        \/ \E n \in Names : Edit(n) \/ Upsert(n)
        \/ \E n \in Names, k \in Keys : Put(n, k) \/ DeleteObject(n, k)
        \/ \E d \in Requests : DropBucket(d) \/ \E n \in Names : CheckDrop(d, n)
        \/ \E m, n \in Names : CheckRename(m, n) \/ CommitRename(m, n)

Spec == Init /\ [][Next]_vars

-------------------------------------------------------------------------------
(* Properties                                                              *)

TypeOK ==
  /\ config \in SUBSET Names /\ config # {}
  /\ rows \in [Names -> Row \cup {NoRow}]
  /\ objects \in [Names -> [Keys -> Chats \cup {NoObject}]]
  /\ server \in Stages
  /\ pending \subseteq loaded /\ loaded \subseteq Names
  /\ startup \subseteq Names
  /\ drops \in [Requests -> Names \cup {NoName}]
  /\ rename \in [from : Names \cup {NoName}, to : Names \cup {NoName}]
  /\ crossed \subseteq Names \cup Requests

\* No object is lost that nobody deleted: the rows of a bucket outlive every
\* edit of the configuration, every crash of a half-done start and every
\* rename, which carries them all to the new name or changes nothing
\* (metadata/sqlite.go:527-574, main.go:797-828).
ObjectsSurvive ==
  [][\A n \in Names, k \in Keys :
       objects[n][k] # NoObject /\ objects'[n][k] # objects[n][k] =>
         \/ Put(n, k) \/ DeleteObject(n, k)
         \/ \E d \in Requests : drops[d] = n /\ DropBucket(d)
         \/ \E m \in Names : /\ CommitRename(n, m)
                            /\ objects[m][k] = NoObject /\ objects'[m][k] = objects[n][k]]_vars

\* "Configured bucket S3 DeleteBucket is forbidden" (webdav-design.md:507):
\* although the row is looked at before the transaction that deletes it
\* (store.go:210-220, handler.go:104-108, 183-189), what goes is an orphan,
\* unless a rename put another bucket under the name in between.
OnlyOrphansAreDropped ==
  [][\A d \in Requests : DropBucket(d) /\ Enabled(drops[d]) => d \in crossed]_vars

\* What the service serves, the rows and the objects agree.  It serves what it
\* read from the configuration; an object is in the chat its bucket's messages
\* are sent to and deleted from, whatever name it was put under (the rename's
\* comparison of chats, main.go:406-408); and it is under a bucket that exists.
\* Only a rename under a running service breaks this, until the next start: the
\* old name is still served and filled, the new one is not served.
BucketsCoherent ==
  /\ server = "up" => startup \subseteq loaded /\ loaded \subseteq startup \cup crossed
  /\ \A n \in Names : /\ \A k \in Held(n) : objects[n][k] = ChatOf[n]
                      /\ Exists(n) => rows[n].chat = ChatOf[n]
                      /\ Held(n) # {} => Exists(n) \/ n \in crossed
===============================================================================
