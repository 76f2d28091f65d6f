----------------------------- MODULE WorkQueue -----------------------------
(***************************************************************************)
(* The work queues of the board and the runners that drain them.           *)
(*                                                                         *)
(* Three implementations of QueueStorage behind one runner                 *)
(* (cli/node/queue-runners.ts), chosen by the initial state:               *)
(*   fs         directories of JSON files shared by processes; every file  *)
(*              operation is a step of its own                             *)
(*   firestore  a document per message; a query, then one transaction per  *)
(*              claim                                                      *)
(*   memory     a Map in one process; an operation is one turn of it       *)
(*                                                                         *)
(* A file, document or entry is a member of files.  The token of a lease   *)
(* is the number of leases its message has had (a random UUID in the       *)
(* code, and as unique); that its expiry has passed is a fact about the    *)
(* token, in lapsed.  The order field is the order key of the active file, *)
(* or visibleAfter, or the position in the Map.  A deleted document is     *)
(* one whose place is done, so that what was acknowledged is remembered.   *)
(***************************************************************************)
EXTENDS Integers, FiniteSets, Sequences, Functions

CONSTANTS
  Procs,         \* processes (memory: the runners of one process)
  Backends,      \* subset of {"fs", "firestore", "memory"}
  Kinds,         \* per backend, how messages are created: plain, or with a
                 \* key as active or staged
  Keys,          \* dedup keys
  MaxMessages,   \* per backend, bound on the messages created
  Batch,         \* concurrency of the lane: messages leased at once
  MaxAttempts,   \* maxAttempts of the lane
  MaxFails,      \* bound on handlers that throw
  MaxLapses,     \* bound on leases that expire while their holder lives
  MaxCrashes,    \* bound on crashes
  CrashAt        \* where a process may die: a subset of Pc

NoKey == "no key"

ASSUME QueueAssumption ==
  /\ Backends \subseteq {"fs", "firestore", "memory"}
  /\ NoKey \notin Keys
  /\ \A b \in Backends : Kinds[b] \subseteq {"plain", "active", "staged"}
  /\ \A b \in Backends : MaxMessages[b] \in Nat
  /\ {MaxFails, MaxLapses, MaxCrashes} \subseteq Nat
  /\ {Batch, MaxAttempts} \subseteq Nat \ {0}
  /\ "down" \notin CrashAt

VARIABLES
  backend,   \* which implementation this queue is
  files,     \* the store
  created,   \* messages created so far: ids are 1..created
  orders,    \* order keys given out so far
  pc,        \* what each process is doing
  todo,      \* the listing a process is working through
  rec,       \* the record a process has read
  want,      \* what a producing process wants to create, and its key
  held,      \* the leases of a process not yet settled, the first in hand
  leases,    \* history: leases granted per message
  lapsed,    \* leases <<id, token>> whose expiry has passed
  late,      \* history: messages one of whose leases expired under its holder
  stale,     \* history: messages a process changed from an outdated read
  torn,      \* history: messages whose process died between two file operations
  fails, lapses, crashes   \* bounded events so far

vars == <<backend, files, created, orders, pc, todo, rec, want, held, leases,
          lapsed, late, stale, torn, fails, lapses, crashes>>
store   == <<backend, created, orders>>
history == <<late, fails, lapses, crashes>>

Ids    == UNION {1..MaxMessages[b] : b \in Backends}
Places == {"active", "leased", "staged", "done", "dead"}
File   == [place : Places, id : Ids, order : Nat, attempt : Nat, lease : Nat,
           key : Keys \cup {NoKey}]
NoFile == [place |-> "none", id |-> 0, order |-> 0, attempt |-> 0, lease |-> 0,
           key |-> NoKey]
Lease  == [id : Ids, lease : Nat \ {0}, attempt : Nat]
Pc     == {"idle", "revive", "reviveWrite", "reviveUnlink", "scan", "claim",
           "stamp", "run", "ackRename", "nackWrite", "nackUnlink", "check",
           "create", "commitWrite", "commitUnlink", "discardWrite",
           "discardUnlink", "down"}
NoWant == [goal |-> "none", key |-> NoKey]
Want   == [goal : {"none", "lease", "active", "staged"}, key : Keys \cup {NoKey}]

TypeOK ==
  /\ backend \in Backends
  /\ files \subseteq File
  /\ created \in 0..MaxMessages[backend]
  /\ orders \in Nat
  /\ pc \in [Procs -> Pc]
  /\ \A p \in Procs : todo[p] \subseteq File
  /\ rec \in [Procs -> File \cup {NoFile}]
  /\ want \in [Procs -> Want]
  /\ held \in [Procs -> Seq(Lease)]
  /\ leases \in [Ids -> Nat]
  /\ lapsed \subseteq Ids \X (Nat \ {0})
  /\ late \subseteq Ids /\ stale \subseteq Ids /\ torn \subseteq Ids
  /\ {fails, lapses, crashes} \subseteq Nat

Init ==
  /\ backend \in Backends
  /\ files = {} /\ created = 0 /\ orders = 0
  /\ pc = [p \in Procs |-> "idle"]
  /\ todo = [p \in Procs |-> {}]
  /\ rec = [p \in Procs |-> NoFile]
  /\ want = [p \in Procs |-> NoWant]
  /\ held = [p \in Procs |-> <<>>]
  /\ leases = [i \in Ids |-> 0]
  /\ lapsed = {} /\ late = {} /\ stale = {} /\ torn = {}
  /\ fails = 0 /\ lapses = 0 /\ crashes = 0

-----------------------------------------------------------------------------
(* The store.                                                              *)

In(place)      == {f \in files : f.place = place}
At(place, id)  == {f \in In(place) : f.id = id}
(* The path of a file: its directory and its name.                         *)
SamePath(f, g) == f.place = g.place /\ f.id = g.id /\ (f.place = "active" => f.order = g.order)
(* writeJsonAtomic replaces what is at the path.                           *)
Put(S, f)      == {g \in S : ~SamePath(f, g)} \cup {f}
(* Fault: a lease is over as soon as it is granted. *)
MutExpired(f)  == TRUE
Expired(f)     == <<f.id, f.lease>> \in lapsed
Moved(f, place) == [f EXCEPT !.place = place]
(* The copy that revive, nack and discard write: without lease and key.    *)
Bare(f, place) == [f EXCEPT !.place = place, !.lease = 0, !.key = NoKey]
(* Fault: a staged message does not reserve its key. *)
MutPending(key) == {f \in files : f.key = key /\ f.place \in {"active", "leased"}}
(* The messages that reserve a dedup key.                                  *)
Pending(key)   == {f \in files : f.key = key /\ f.place \in {"active", "leased", "staged"}}
First(S)       == CHOOSE f \in S : \A g \in S : f.order <= g.order
Leased(f)      == [id |-> f.id, lease |-> f.lease, attempt |-> f.attempt]
(* Fault: the token is that of the previous lease. *)
MutStamped(f)   == [f EXCEPT !.place = "leased", !.attempt = @ + 1, !.lease = leases[f.id]]

Stamped(f)     == [f EXCEPT !.place = "leased", !.attempt = @ + 1, !.lease = leases[f.id] + 1]
NewFile(place, key) ==
  [place |-> place, id |-> created + 1, order |-> orders + 1, attempt |-> 0,
   lease |-> 0, key |-> key]

Between(p, id) == pc[p] \in {"reviveUnlink", "nackUnlink", "commitUnlink", "discardUnlink"} /\ rec[p].id = id

(* p acts on a file that has changed since it read it: it writes a copy    *)
(* while the original is gone or another process moves it, renames what is *)
(* not what it read, or unlinks something else than it copied.             *)
OutdatedWrite(p, copy) ==
  IF copy \in files \/ (rec[p] \in files /\ ~\E q \in Procs : Between(q, copy.id)) THEN {} ELSE {copy.id}
OutdatedRename(p, there) == IF there \subseteq {rec[p]} /\ ~\E q \in Procs : Between(q, rec[p].id) THEN {} ELSE {rec[p].id}
OutdatedUnlink(p, there) == IF there \subseteq {rec[p]} THEN {} ELSE {rec[p].id}

Visible(f) == f.place = "active" \/ (f.place = "leased" /\ Expired(f))
(* Fault: expired leases are never revived. *)
MutOverdue == {}
(* What reviveExpiredLeases of the file store finds to do.                 *)
Overdue == IF backend = "fs" THEN {f \in In("leased") : Expired(f)} ELSE {}

Goto(p, label) == pc' = [pc EXCEPT ![p] = label]
Read(p, f)     == rec' = [rec EXCEPT ![p] = f]
List(p, S)     == todo' = [todo EXCEPT ![p] = S]
(* The active directory, or the documents the query finds.                 *)
Listing        == IF backend = "fs" THEN In("active") ELSE {f \in files : Visible(f)}
(* An operation on the Map is not interrupted: a lease of several messages *)
(* is taken message by message, and nothing else is done meanwhile.        *)
MapFree        == backend = "memory" => \A p \in Procs : pc[p] # "scan"
BeginScan(p)   == IF Overdue # {} THEN Goto(p, "revive") /\ List(p, Overdue)
                  ELSE Goto(p, "scan") /\ List(p, Listing)

-----------------------------------------------------------------------------
(* Creating messages.                                                      *)

Create(p, place, key) ==
  /\ created < MaxMessages[backend]
  /\ files' = Put(files, NewFile(place, key))
  /\ created' = created + 1
  /\ orders' = orders + 1

Enqueue(p) ==
  /\ pc[p] = "idle" /\ "plain" \in Kinds[backend] /\ MapFree
  /\ Create(p, "active", NoKey)
  /\ UNCHANGED <<backend, pc, todo, rec, want, held, leases, lapsed, stale, torn, history>>

(* enqueueIfAbsent and stage with a dedupKey: the file store revives       *)
(* expired leases first; it and firestore look and then write, the Map     *)
(* does both at once.                                                      *)
MemoryCreateIfAbsent(p, place, key) ==
  /\ backend = "memory" /\ pc[p] = "idle" /\ MapFree
  /\ Pending(key) = {}
  /\ Create(p, place, key)
  /\ UNCHANGED <<backend, pc, todo, rec, want, held, leases, lapsed, stale, torn, history>>

BeginCreate(p, place, key) ==
  /\ backend # "memory" /\ pc[p] = "idle" /\ created < MaxMessages[backend]
  /\ want' = [want EXCEPT ![p] = [goal |-> place, key |-> key]]
  /\ IF Overdue # {} THEN Goto(p, "revive") /\ List(p, Overdue)
     ELSE Goto(p, "check") /\ UNCHANGED todo
  /\ UNCHANGED <<store, files, rec, held, leases, lapsed, stale, torn, history>>

CheckAbsent(p) ==
  /\ pc[p] = "check"
  /\ IF Pending(want[p].key) = {} /\ created < MaxMessages[backend]
     THEN Goto(p, "create") /\ UNCHANGED want
     ELSE Goto(p, "idle") /\ want' = [want EXCEPT ![p] = NoWant]
  /\ UNCHANGED <<store, files, todo, rec, held, leases, lapsed, stale, torn, history>>

WriteAbsent(p) ==
  /\ pc[p] = "create"
  /\ IF created < MaxMessages[backend] THEN Create(p, want[p].goal, want[p].key)
     ELSE UNCHANGED <<files, created, orders>>
  /\ Goto(p, "idle")
  /\ want' = [want EXCEPT ![p] = NoWant]
  /\ UNCHANGED <<backend, todo, rec, held, leases, lapsed, stale, torn, history>>

(* commitStaged and discardStaged: read the staged file, write the copy,   *)
(* unlink the staged one.  The others do it in one step.  A staged message *)
(* has one owner: two processes do not settle it at once.                  *)
SettleStaged(p, f, label) ==
  /\ pc[p] = "idle" /\ f \in In("staged") /\ backend = "fs"
  /\ \A q \in Procs : rec[q] # f
  /\ Read(p, f) /\ Goto(p, label)
  /\ UNCHANGED <<store, files, todo, want, held, leases, lapsed, stale, torn, history>>

Promoted(f) == [f EXCEPT !.place = "active", !.attempt = 0, !.order = orders + 1]

CommitWrite(p) ==
  /\ pc[p] = "commitWrite"
  /\ files' = Put(files, Promoted(rec[p]))
  /\ orders' = orders + 1
  /\ stale' = stale \cup OutdatedWrite(p, Promoted(rec[p]))
  /\ Goto(p, "commitUnlink")
  /\ UNCHANGED <<backend, created, todo, rec, want, held, leases, lapsed, torn, history>>

DiscardWrite(p) ==
  /\ pc[p] = "discardWrite"
  /\ files' = Put(files, Bare(rec[p], "dead"))
  /\ stale' = stale \cup OutdatedWrite(p, Bare(rec[p], "dead"))
  /\ Goto(p, "discardUnlink")
  /\ UNCHANGED <<store, todo, rec, want, held, leases, lapsed, torn, history>>

UnlinkStaged(p) ==
  /\ pc[p] \in {"commitUnlink", "discardUnlink"}
  /\ files' = files \ At("staged", rec[p].id)
  /\ stale' = stale \cup OutdatedUnlink(p, At("staged", rec[p].id))
  /\ Goto(p, "idle") /\ Read(p, NoFile)
  /\ UNCHANGED <<store, todo, want, held, leases, lapsed, torn, history>>

SettleStagedAtOnce(p, f, g) ==
  /\ pc[p] = "idle" /\ f \in In("staged") /\ backend # "fs" /\ MapFree
  /\ files' = (files \ {f}) \cup {g}
  /\ orders' = orders + 1
  /\ UNCHANGED <<backend, created, pc, todo, rec, want, held, leases, lapsed, stale, torn, history>>

CommitAtOnce(p, f)  == SettleStagedAtOnce(p, f, Promoted(f))
DiscardAtOnce(p, f) == SettleStagedAtOnce(p, f, Moved(f, "dead"))

-----------------------------------------------------------------------------
(* Leasing.  The file store first revives the leases that have expired.    *)
(* A tick that finds nothing to lease does nothing, and is not a step.     *)

BeginLease(p) ==
  /\ pc[p] = "idle" /\ backend # "memory" /\ \E f \in files : Visible(f)
  /\ want' = [want EXCEPT ![p].goal = "lease"]
  /\ BeginScan(p)
  /\ UNCHANGED <<store, files, rec, held, leases, lapsed, stale, torn, history>>

(* A file of the listing is read; one that is gone, or whose lease has no  *)
(* expiry or has not expired, is passed over.                              *)
ReviveRead(p) ==
  /\ pc[p] = "revive"
  /\ \E f \in todo[p] :
       /\ List(p, todo[p] \ {f})
       /\ \E g \in At("leased", f.id) : Expired(g) /\ Read(p, g)
  /\ Goto(p, "reviveWrite")
  /\ UNCHANGED <<store, files, want, held, leases, lapsed, stale, torn, history>>

ReviveWrite(p) ==
  /\ pc[p] = "reviveWrite"
  /\ files' = Put(files, Bare(rec[p], "active"))
  /\ stale' = stale \cup OutdatedWrite(p, Bare(rec[p], "active"))
  /\ Goto(p, "reviveUnlink")
  /\ UNCHANGED <<store, todo, rec, want, held, leases, lapsed, torn, history>>

ReviveUnlink(p) ==
  /\ pc[p] = "reviveUnlink"
  /\ files' = files \ At("leased", rec[p].id)
  /\ stale' = stale \cup OutdatedUnlink(p, At("leased", rec[p].id))
  /\ Goto(p, "revive") /\ Read(p, NoFile)
  /\ UNCHANGED <<store, todo, want, held, leases, lapsed, torn, history>>

EndRevive(p) ==
  /\ pc[p] = "revive"
  /\ \A f \in todo[p] : ~\E g \in At("leased", f.id) : Expired(g)
  /\ IF want[p].goal = "lease" THEN Goto(p, "scan") /\ List(p, Listing)
     ELSE Goto(p, "check") /\ List(p, {})
  /\ UNCHANGED <<store, files, rec, want, held, leases, lapsed, stale, torn, history>>

(* The next file of the listing is read; one that is gone is passed over.  *)
FsRead(p) ==
  /\ backend = "fs" /\ pc[p] = "scan" /\ Len(held[p]) < Batch
  /\ \E f \in todo[p] :
       /\ f = First(todo[p])
       /\ List(p, todo[p] \ {f})
       /\ IF \E g \in files : SamePath(f, g)
          THEN Goto(p, "claim") /\ Read(p, CHOOSE g \in files : SamePath(f, g))
          ELSE UNCHANGED <<pc, rec>>
  /\ UNCHANGED <<store, files, want, held, leases, lapsed, stale, torn, history>>

(* renameSync claims the file: of two processes one fails and goes on.     *)
FsClaim(p) ==
  /\ pc[p] = "claim"
  /\ LET there == {g \in files : SamePath(rec[p], g)} IN
     IF there = {}
     THEN Goto(p, "scan") /\ Read(p, NoFile) /\ UNCHANGED <<files, stale>>
     ELSE /\ files' = {g \in files \ there : ~(g.place = "leased" /\ g.id = rec[p].id)}
                      \cup {Moved(g, "leased") : g \in there}
          /\ stale' = stale \cup OutdatedRename(p, there)
          /\ Goto(p, "stamp") /\ UNCHANGED rec
  /\ UNCHANGED <<store, todo, want, held, leases, lapsed, torn, history>>

(* The lease proper, written from what was read before the claim.          *)
FsStamp(p) ==
  /\ pc[p] = "stamp"
  /\ LET f == Stamped(rec[p]) IN
     /\ stale' = stale \cup (IF Moved(rec[p], "leased") \in files THEN {} ELSE {f.id})
     /\ files' = Put(files, f)
     /\ held' = [held EXCEPT ![p] = Append(@, Leased(f))]
     /\ leases' = [leases EXCEPT ![f.id] = @ + 1]
  /\ Goto(p, "scan") /\ Read(p, NoFile)
  /\ UNCHANGED <<store, todo, want, lapsed, torn, history>>

(* The next document or entry of the listing is leased if it may be by now.*)
LeaseNext(p) ==
  /\ backend # "fs" /\ pc[p] = "scan" /\ Len(held[p]) < Batch
  /\ \E f \in todo[p] :
       /\ f = First(todo[p])
       /\ List(p, todo[p] \ {f})
       /\ IF \E g \in files : g.id = f.id /\ Visible(g)
          THEN LET g == CHOOSE g \in files : g.id = f.id /\ Visible(g) IN
               /\ files' = (files \ {g}) \cup {Stamped(g)}
               /\ held' = [held EXCEPT ![p] = Append(@, Leased(Stamped(g)))]
               /\ leases' = [leases EXCEPT ![g.id] = @ + 1]
          ELSE UNCHANGED <<files, held, leases>>
  /\ UNCHANGED <<store, pc, rec, want, lapsed, stale, torn, history>>

(* A transaction claims the document; for the Map it is the loop of lease, *)
(* over the messages without a token.                                      *)
FirestoreClaim(p) == backend = "firestore" /\ LeaseNext(p)
MemoryClaim(p)    == backend = "memory" /\ LeaseNext(p)

EndScan(p) ==
  /\ pc[p] = "scan" /\ (todo[p] = {} \/ Len(held[p]) = Batch)
  /\ Goto(p, IF held[p] = <<>> THEN "idle" ELSE "run")
  /\ List(p, {})
  /\ want' = [want EXCEPT ![p] = NoWant]
  /\ UNCHANGED <<store, files, rec, held, leases, lapsed, stale, torn, history>>

(* The Map: tokens that have expired are deleted first.                    *)
Cleared(f) == IF f.place = "leased" /\ Expired(f) THEN [f EXCEPT !.place = "active", !.lease = 0] ELSE f

MemoryLease(p) ==
  /\ backend = "memory" /\ pc[p] = "idle" /\ MapFree /\ \E f \in files : Visible(f)
  /\ files' = {Cleared(f) : f \in files}
  /\ want' = [want EXCEPT ![p].goal = "lease"]
  /\ Goto(p, "scan") /\ List(p, {Cleared(f) : f \in {g \in files : Visible(g)}})
  /\ UNCHANGED <<store, rec, held, leases, lapsed, stale, torn, history>>

-----------------------------------------------------------------------------
(* Running the handler, and settling the lease.                            *)

InHand(p)    == Head(held[p])
(* The leased record of the message in hand, if it still bears the token.  *)
Mine(p)      == {f \in At("leased", InHand(p).id) : f.lease = InHand(p).lease}
Next1(p)     == /\ held' = [held EXCEPT ![p] = Tail(@)]
                /\ Goto(p, IF Len(held[p]) > 1 THEN "run" ELSE "idle")
Exhausted(l) == l.attempt >= MaxAttempts

(* ack deletes the document, or the entry of the Map.                      *)
FirestoreAcked(f) == [Moved(f, "done") EXCEPT !.lease = 0]
MemoryAcked(f)    == [Moved(f, "done") EXCEPT !.lease = 0]
Acked(f) == IF backend = "memory" THEN MemoryAcked(f) ELSE FirestoreAcked(f)

HandleOk(p) ==
  /\ pc[p] = "run" /\ MapFree
  /\ IF Mine(p) = {} THEN Next1(p) /\ UNCHANGED <<files, rec>>
     ELSE IF backend = "fs"
     THEN \E f \in Mine(p) : Read(p, f) /\ Goto(p, "ackRename") /\ UNCHANGED <<files, held>>
     ELSE /\ files' = (files \ Mine(p)) \cup {Acked(f) : f \in Mine(p)}
          /\ Next1(p) /\ UNCHANGED rec
  /\ UNCHANGED <<store, todo, want, leases, lapsed, stale, torn, history>>

(* ack compares the token and then renames whatever file is there.         *)
AckRename(p) ==
  /\ pc[p] = "ackRename"
  /\ LET there == At("leased", rec[p].id) IN
     /\ files' = IF there = {} THEN files
                 ELSE {g \in files \ there : ~(g.place = "done" /\ g.id = rec[p].id)}
                      \cup {Moved(g, "done") : g \in there}
     /\ stale' = stale \cup OutdatedRename(p, there)
  /\ Next1(p) /\ Read(p, NoFile)
  /\ UNCHANGED <<store, todo, want, leases, lapsed, torn, history>>

(* The document after nack: dead, or visible from now on, which puts it    *)
(* behind the others.  An entry of the Map keeps its position.             *)
FirestoreNacked(f, dead) ==
  IF dead THEN [Moved(f, "dead") EXCEPT !.lease = 0]
  ELSE [Moved(f, "active") EXCEPT !.lease = 0, !.order = orders + 1]
MemoryNacked(f, dead) == [Moved(f, IF dead THEN "dead" ELSE "active") EXCEPT !.lease = 0]
Nacked(f, dead) == IF backend = "memory" THEN MemoryNacked(f, dead) ELSE FirestoreNacked(f, dead)

HandleThrows(p) ==
  /\ pc[p] = "run" /\ fails < MaxFails /\ MapFree
  /\ fails' = fails + 1
  /\ IF Mine(p) = {} THEN Next1(p) /\ UNCHANGED <<files, rec, orders>>
     ELSE IF backend = "fs"
     THEN \E f \in Mine(p) : Read(p, f) /\ Goto(p, "nackWrite") /\ UNCHANGED <<files, held, orders>>
     ELSE /\ files' = (files \ Mine(p)) \cup {Nacked(f, Exhausted(InHand(p))) : f \in Mine(p)}
          /\ orders' = orders + 1
          /\ Next1(p) /\ UNCHANGED rec
  /\ UNCHANGED <<backend, created, todo, want, leases, lapsed, stale, torn, late, lapses, crashes>>

(* Fault: a message to retry is not written back. *)
MutNackWrite(p) ==
  /\ pc[p] = "nackWrite"
  /\ files' = IF Exhausted(InHand(p)) THEN Put(files, Bare(rec[p], "dead")) ELSE files
  /\ UNCHANGED stale
  /\ Goto(p, "nackUnlink")
  /\ UNCHANGED <<store, todo, rec, want, held, leases, lapsed, torn, history>>

NackWrite(p) ==
  /\ pc[p] = "nackWrite"
  /\ files' = Put(files, Bare(rec[p], IF Exhausted(InHand(p)) THEN "dead" ELSE "active"))
  /\ stale' = stale \cup OutdatedWrite(p, Bare(rec[p], IF Exhausted(InHand(p)) THEN "dead" ELSE "active"))
  /\ Goto(p, "nackUnlink")
  /\ UNCHANGED <<store, todo, rec, want, held, leases, lapsed, torn, history>>

(* Fault: the leased file stays. *)
MutNackUnlink(p) ==
  /\ pc[p] = "nackUnlink"
  /\ Next1(p) /\ Read(p, NoFile)
  /\ UNCHANGED <<store, files, todo, want, leases, lapsed, stale, torn, history>>

NackUnlink(p) ==
  /\ pc[p] = "nackUnlink"
  /\ files' = files \ At("leased", rec[p].id)
  /\ stale' = stale \cup OutdatedUnlink(p, At("leased", rec[p].id))
  /\ Next1(p) /\ Read(p, NoFile)
  /\ UNCHANGED <<store, todo, want, leases, lapsed, torn, history>>

-----------------------------------------------------------------------------
(* Time and crashes.                                                       *)

Holds(p, id, token) == \E k \in DOMAIN held[p] : held[p][k].id = id /\ held[p][k].lease = token
Holder(id, token)   == \E p \in Procs : Holds(p, id, token)

(* The visibility timeout passes while the holder still works.             *)
Lapse(id, token) ==
  /\ lapses < MaxLapses
  /\ Holder(id, token) /\ <<id, token>> \notin lapsed
  /\ lapsed' = lapsed \cup {<<id, token>>}
  /\ late' = late \cup {id}
  /\ lapses' = lapses + 1
  /\ UNCHANGED <<store, files, pc, todo, rec, want, held, leases, stale, torn, fails, crashes>>

(* It passes for a lease nobody holds any more.                            *)
LapseAbandoned(id, token) ==
  /\ ~Holder(id, token) /\ <<id, token>> \notin lapsed
  /\ \E f \in At("leased", id) : f.lease = token
  /\ lapsed' = lapsed \cup {<<id, token>>}
  /\ UNCHANGED <<store, files, pc, todo, rec, want, held, leases, stale, torn, history>>

(* The process dies: what it held in memory is gone.                       *)
Torn(p) == IF pc[p] \in {"reviveUnlink", "stamp", "ackRename", "nackUnlink",
                         "commitUnlink", "discardUnlink"} THEN {rec[p].id} ELSE {}

Crash(p) ==
  /\ backend # "memory" /\ pc[p] \in CrashAt /\ crashes < MaxCrashes
  /\ crashes' = crashes + 1
  /\ torn' = torn \cup Torn(p)
  /\ late' = late \cup {held[p][k].id : k \in DOMAIN held[p]}
  /\ Goto(p, "down") /\ List(p, {}) /\ Read(p, NoFile)
  /\ want' = [want EXCEPT ![p] = NoWant]
  /\ held' = [held EXCEPT ![p] = <<>>]
  /\ UNCHANGED <<store, files, leases, lapsed, stale, fails, lapses>>

Restart(p) ==
  /\ pc[p] = "down"
  /\ Goto(p, "idle")
  /\ UNCHANGED <<store, files, todo, rec, want, held, leases, lapsed, stale, torn, history>>

-----------------------------------------------------------------------------
Produce(p) ==
  \/ Enqueue(p)
  \/ \E place \in Kinds[backend] \ {"plain"}, key \in Keys :
       MemoryCreateIfAbsent(p, place, key) \/ BeginCreate(p, place, key)
  \/ \E f \in In("staged") :
       \/ SettleStaged(p, f, "commitWrite") \/ SettleStaged(p, f, "discardWrite")
       \/ CommitAtOnce(p, f) \/ DiscardAtOnce(p, f)

Effect(p) ==
  \/ CheckAbsent(p) \/ WriteAbsent(p)
  \/ CommitWrite(p) \/ DiscardWrite(p) \/ UnlinkStaged(p)
  \/ ReviveRead(p) \/ ReviveWrite(p) \/ ReviveUnlink(p) \/ EndRevive(p)
  \/ FsRead(p) \/ FsClaim(p) \/ FsStamp(p) \/ FirestoreClaim(p) \/ MemoryClaim(p) \/ EndScan(p)
  \/ AckRename(p) \/ NackWrite(p) \/ NackUnlink(p)

Tick(p) == BeginLease(p) \/ MemoryLease(p)
Work(p) == Effect(p) \/ HandleOk(p)

Abandoned == \E id \in Ids : \E token \in 1..leases[id] : LapseAbandoned(id, token)

Next ==
  \/ \E p \in Procs : Produce(p) \/ Tick(p) \/ Work(p) \/ HandleThrows(p) \/ Crash(p) \/ Restart(p)
  \/ \E id \in Ids : \E token \in 1..leases[id] : Lapse(id, token)
  \/ Abandoned

(* Synchronous code goes on, handlers return, time passes and a process    *)
(* that died is started again.  The timer of a runner fires however often  *)
(* its process serves requests in between, hence strong fairness.          *)
Fairness == \A p \in Procs : WF_vars(Work(p)) /\ SF_vars(Tick(p)) /\ WF_vars(Restart(p))
Spec == Init /\ [][Next]_vars /\ Fairness /\ WF_vars(Abandoned)

-----------------------------------------------------------------------------
(* Properties.                                                             *)

(* Every message created is in exactly one directory of the store, or in   *)
(* two while a process is between writing the copy and unlinking the       *)
(* original: it is never lost, and never settled and pending at once.      *)
(* It is dead only if it was discarded or after MaxAttempts leases, and    *)
(* leased more often than that only if a lease expired under its holder.   *)
(* What breaks it is a process acting on a file that has changed since it  *)
(* read it (two processes reviving the same lease), and a crash between    *)
(* two file operations.                                                    *)
Accounted ==
  \A id \in (1..created) \ (stale \cup torn) :
    LET copies == {f \in files : f.id = id} IN
    /\ copies # {}
    /\ Cardinality(copies) > 1 => \E p \in Procs : Between(p, id) /\ Cardinality(copies) = 2
    /\ At("dead", id) # {} => leases[id] = 0 \/ leases[id] >= MaxAttempts
    /\ leases[id] > MaxAttempts => id \in late

(* A message is handled by one process at a time while leases are in time: *)
(* of two processes that hold it one has outlived its visibility timeout.  *)
(* What breaks it is again an outdated read, or a crash between two file   *)
(* operations.                                                             *)
OneHolder ==
  \A p, q \in Procs : \A k \in DOMAIN held[p] : \A m \in DOMAIN held[q] :
    LET a == held[p][k]  b == held[q][m] IN
    a.id = b.id /\ a.id \notin stale \cup torn /\ (p # q \/ k # m) =>
      <<a.id, a.lease>> \in lapsed \/ <<b.id, b.lease>> \in lapsed

(* At most one message with a key is pending in the Map; the others look   *)
(* before they write, and two processes may both find nothing.             *)
UniqueKey ==
  backend = "memory" =>
    \A key \in Keys :
      Cardinality({f \in files : f.key = key /\ f.place \in {"active", "leased", "staged"}}) <= 1

(* A message that was acknowledged or dead-lettered stays so: no late ack, *)
(* nack or revival brings it back into the queue, unless it acts on an     *)
(* outdated read, or a process died between two file operations.           *)
Settled(id) == At("done", id) \cup At("dead", id) # {}
Waiting(id) == At("active", id) \cup At("leased", id)
SettledStays ==
  [][\A id \in (1..created) \ (stale' \cup torn') :
       Settled(id) => Waiting(id)' \subseteq Waiting(id)]_vars

(* Every message that can be leased is in the end acknowledged or dead-    *)
(* lettered, whatever crashes; except one whose lease file a reviver with  *)
(* an outdated read removed, and one whose process died between the rename *)
(* that claims it and the write of its expiry.                             *)
Drained ==
  \A id \in Ids : At("active", id) # {} ~> Settled(id) \/ id \in stale \cup torn

=============================================================================
