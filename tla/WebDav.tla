--------------------------------- MODULE WebDav ---------------------------------
(***************************************************************************)
(* internal/dav: WebDAV requests on one enabled bucket.  A request looks   *)
(* at the rows in one or more queries, decides, and changes them in one    *)
(* transaction or by a PutObject, so other requests change the rows in     *)
(* between.  The locks of clients are granted to everybody                 *)
(* (dav/lock.go), so they keep nobody out.                                 *)
(*                                                                         *)
(* A path is what the URL names: a sequence of names and whether it ends   *)
(* in a slash.  Every body written is a content of its own; that of a PUT  *)
(* that breaks off is written as far as it was read, like any other.       *)
(***************************************************************************)
EXTENDS Metadata, FiniteSets

CONSTANTS Reqs,
          Files,        \* the paths of PUT and LOCK, without a slash
          Dirs,         \* the paths of MKCOL
          Targets,      \* the paths of DELETE
          Transfers,    \* source and destination paths of COPY and MOVE
          MaxContents   \* bounds the bodies ever written

Path(names, slash) == [names |-> names, slash |-> slash]

ASSUME PathsAssumption ==
  /\ Files \cup Dirs \subseteq Seq(Names) \ {<<>>}
  /\ Targets \cup {t[1] : t \in Transfers} \cup {t[2] : t \in Transfers}
       \subseteq [names : Seq(Names) \ {<<>>}, slash : BOOLEAN]
  /\ MaxContents \in Nat

VARIABLES rows,   \* SQLite: the object rows of the bucket
          next,   \* the next body
          pc, job \* each request's place and locals

vars == <<rows, next, pc, job>>

\* "put": PUT or LOCK, past the look-ups; "parent", "marker": MKCOL before its
\* second look-up, and past it; "remove": DELETE, past the look-ups; "target":
\* COPY or MOVE, knowing its source; "transfer": about to run its transaction.
Stages == {"idle", "put", "parent", "marker", "remove", "target", "transfer"}

Idle == [verb |-> "", src |-> Path(<<>>, FALSE), dst |-> Path(<<>>, FALSE), tree |-> FALSE, overwrite |-> FALSE]

Init == /\ rows = NoRows
        /\ next = 1
        /\ pc = [r \in Reqs |-> "idle"]
        /\ job = [r \in Reqs |-> Idle]

Key(p)         == IF p.slash THEN Marker(p.names) ELSE p.names
HasObject(key) == key \in DOMAIN rows
\* statCollection: a marker, or any row under the prefix.
HasCollection(dir) == Under(rows, dir) # {}

Goto(r, stage, j) == pc' = [pc EXCEPT ![r] = stage] /\ job' = [job EXCEPT ![r] = j]
Return(r)         == Goto(r, "idle", Idle)

-------------------------------------------------------------------------------

\* PUT and LOCK find no collection of that name; LOCK creates an empty file
\* only where there is nothing.
Put(r, file, verb) ==
  /\ pc[r] = "idle"
  /\ ~HasCollection(file)
  /\ verb = "lock" => ~HasObject(file)
  /\ Goto(r, "put", [Idle EXCEPT !.verb = verb, !.dst = Path(file, FALSE)])
  /\ UNCHANGED <<rows, next>>

\* davFile.Close stores the body, or PutObject fails.  The empty body needs
\* no number of its own.
Write(r) ==
  LET key  == job[r].dst.names
      body == IF job[r].verb = "put" THEN next ELSE 0
  IN /\ pc[r] = "put"
     /\ \/ /\ next <= MaxContents
           /\ rows' = Written(rows, key, Row(body, body))
           /\ next' = IF body = 0 THEN next ELSE next + 1
        \/ UNCHANGED <<rows, next>>
     /\ Return(r)

\* MKCOL finds neither a collection nor an object of that name.
Mkcol(r, dir) ==
  /\ pc[r] = "idle"
  /\ ~HasCollection(dir) /\ ~HasObject(dir)
  /\ Goto(r, "parent", [Idle EXCEPT !.verb = "mkcol", !.dst = Path(dir, TRUE)])
  /\ UNCHANGED <<rows, next>>

\* The parent is the bucket or a collection.
FindParent(r) ==
  LET parent == Front(job[r].dst.names) IN
  /\ pc[r] = "parent"
  /\ IF parent = <<>> \/ HasCollection(parent) THEN Goto(r, "marker", job[r]) ELSE Return(r)
  /\ UNCHANGED <<rows, next>>

WriteMarker(r) ==
  /\ pc[r] = "marker"
  /\ rows' = Written(rows, Key(job[r].dst), Row(0, 0))
  /\ Return(r)
  /\ UNCHANGED next

\* A path without a slash names an object if there is one, and else the
\* collection of that name if there is one.
IsTree(p) == p.slash \/ (~HasObject(p.names) /\ HasCollection(p.names))
Exists(p) == IF IsTree(p) THEN HasCollection(p.names) ELSE HasObject(p.names)

\* DELETE finds what its path names.
Delete(r, p) ==
  /\ pc[r] = "idle"
  /\ Exists(p)
  /\ Goto(r, "remove", [Idle EXCEPT !.verb = "delete", !.src = p, !.tree = IsTree(p)])
  /\ UNCHANGED <<rows, next>>

\* The rows go; the messages of Telegram stay.
RemoveRows(r) ==
  /\ pc[r] = "remove"
  /\ rows' = IF job[r].tree THEN DeletePrefix(rows, job[r].src.names)
             ELSE Without(rows, {job[r].src.names})
  /\ Return(r)
  /\ UNCHANGED next

\* COPY or MOVE finds out what its source is.  Whether it exists comes later.
Transfer(r, verb, src, dst, overwrite) ==
  /\ pc[r] = "idle"
  /\ Goto(r, "target", [verb |-> verb, src |-> src, dst |-> dst, tree |-> IsTree(src), overwrite |-> overwrite])
  /\ UNCHANGED <<rows, next>>

\* An object at the exact destination of a collection, or a collection at
\* that of an object.
KindConflict(tree, dst) == IF tree THEN HasObject(Key(dst)) ELSE HasCollection(dst.names)

\* A MOVE to the same place, and a collection moved or copied into itself.
Forbidden(j) ==
  \/ j.verb = "move" /\ IF j.tree THEN j.src.names = j.dst.names ELSE Key(j.src) = Key(j.dst)
  \/ j.tree /\ IsStrictPrefix(j.src.names, j.dst.names)

\* Mutation: the destination may be anywhere.
CheckKindOnly(r) ==
  /\ pc[r] = "target"
  /\ IF KindConflict(job[r].tree, job[r].dst) THEN Return(r) ELSE Goto(r, "transfer", job[r])
  /\ UNCHANGED <<rows, next>>

CheckTarget(r) ==
  /\ pc[r] = "target"
  /\ IF KindConflict(job[r].tree, job[r].dst) \/ Forbidden(job[r])
     THEN Return(r) ELSE Goto(r, "transfer", job[r])
  /\ UNCHANGED <<rows, next>>

\* Mutation: a destination that has its slash is given another.
TransferTreeTwoSlashes(j) == CopyPrefix(rows, j.src.names, IF j.dst.slash THEN Marker(j.dst.names) ELSE j.dst.names)

TransferTree(j) == IF j.verb = "move" THEN MovePrefix(rows, j.src.names, j.dst.names)
                   ELSE CopyPrefix(rows, j.src.names, j.dst.names)

\* Mutation: whether the destination exists is not looked up again.
CommitTreeAnyway(r) ==
  /\ pc[r] = "transfer" /\ job[r].tree
  /\ rows' = TransferTree(job[r]).rows
  /\ Return(r)
  /\ UNCHANGED next

\* The transaction of a collection.  It is rolled back when it finds a
\* destination it may not overwrite.  With no row left under the source
\* nothing happens.
CommitTree(r) ==
  /\ pc[r] = "transfer" /\ job[r].tree
  /\ LET result == TransferTree(job[r])
     IN rows' = IF result.hit /\ ~job[r].overwrite THEN rows ELSE result.rows
  /\ Return(r)
  /\ UNCHANGED next

\* The transaction of an object, which may be gone by now.
CommitObject(r) ==
  LET src == Key(job[r].src)
      dst == Key(job[r].dst)
      move == job[r].verb = "move"
  IN /\ pc[r] = "transfer" /\ ~job[r].tree
     /\ rows' = IF ~HasObject(src) \/ (HasObject(dst) /\ ~job[r].overwrite) THEN rows
                ELSE IF move THEN MoveObject(rows, src, dst) ELSE CopyObject(rows, src, dst)
     /\ Return(r)
     /\ UNCHANGED next

Next == \E r \in Reqs :
          \/ \E file \in Files, verb \in {"put", "lock"} : Put(r, file, verb)
          \/ \E dir \in Dirs : Mkcol(r, dir)
          \/ \E p \in Targets : Delete(r, p)
          \/ \E verb \in {"copy", "move"}, t \in Transfers, overwrite \in BOOLEAN :
               Transfer(r, verb, t[1], t[2], overwrite)
          \/ Write(r) \/ FindParent(r) \/ WriteMarker(r) \/ RemoveRows(r)
          \/ CheckTarget(r) \/ CommitTree(r) \/ CommitObject(r)

Spec == Init /\ [][Next]_vars

-------------------------------------------------------------------------------
(* Properties                                                              *)

\* Types; no row describes a body that was not written.
TypeOK ==
  /\ \A key \in DOMAIN rows : /\ key # <<>> /\ \A i \in DOMAIN key : key[i] \in Names \/ (key[i] = 0 /\ i = Len(key))
                              /\ rows[key].meta \in 0..(next - 1) /\ rows[key].chunks \in 0..(next - 1)
  /\ next \in 1..(MaxContents + 1)
  /\ pc \in [Reqs -> Stages]
  /\ \A r \in Reqs : pc[r] = "idle" <=> job[r] = Idle

\* Every object row describes the chunks it has, also when a COPY or MOVE
\* rewrites many rows one by one (sqlite.go:759-789 reads the object rows
\* first and the chunks of each as it comes to it).
RowsCoherent == \A key \in DOMAIN rows : rows[key].meta = rows[key].chunks

\* What a request names: the object, or everything in the collection.
Named(j, key) == IF j.tree THEN IsStrictPrefix(j.src.names, key) ELSE key = j.src.names

Arrival(j, key) == IF j.tree THEN j.dst.names \o Rest(j.src.names, key) ELSE Key(j.dst)

Ends(r, stage) == pc[r] = stage /\ pc'[r] = "idle"

\* A row goes away only when a DELETE names it, or when a MOVE names it and
\* leaves the same object at its destination: "Recursive collection
\* operations match only the canonical prefix with a trailing `/`"
\* (docs/superpowers/specs/2026-05-23-tgnas-webdav-design.md:184), and a MOVE
\* deletes nothing that it has not copied (sqlite.go:425-431).
NothingLost ==
  [][\A key \in DOMAIN rows \ DOMAIN rows' : \E r \in Reqs :
       \/ Ends(r, "remove") /\ Named(job[r], key)
       \/ /\ Ends(r, "transfer") /\ job[r].verb = "move" /\ Named(job[r], key)
          /\ Arrival(job[r], key) \in DOMAIN rows'
          /\ rows'[Arrival(job[r], key)] = rows[key]]_vars

\* An object is replaced only by a write to it (of its body, or by MKCOL of a
\* marker), or by a COPY or MOVE onto it that may overwrite: "`Overwrite: F` with an existing destination ... leaves
\* source and destination unchanged"
\* (docs/superpowers/specs/2026-05-23-tgnas-webdav-design.md:281), also when
\* the destination appears after the look-ups.
OverwriteHonoured ==
  [][\A key \in DOMAIN rows \cap DOMAIN rows' : rows'[key] # rows[key] => \E r \in Reqs :
       \/ (Ends(r, "put") \/ Ends(r, "marker")) /\ Key(job[r].dst) = key
       \/ /\ Ends(r, "transfer") /\ job[r].overwrite
          /\ \E k \in DOMAIN rows : Named(job[r], k) /\ Arrival(job[r], k) = key]_vars

================================================================================
