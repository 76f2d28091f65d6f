-------------------------- MODULE WorkQueueProofs --------------------------
(***************************************************************************)
(* Theorems about WorkQueue, for every number of processes, messages,      *)
(* keys, attempts, failures, lapses and crashes, and all three stores.     *)
(***************************************************************************)
EXTENDS WorkQueue, SequenceTheorems, FiniteSetTheorems, TLAPS

----------------------------------------------------------------------------
(* What a process carries from one step to the next.                       *)

(* Where it acts on a file it has read.                                    *)
Reviving == {"reviveWrite", "reviveUnlink"}
Leasing  == {"claim", "stamp"}
Ending   == {"ackRename", "nackWrite", "nackUnlink"}
Deciding == {"commitWrite", "commitUnlink", "discardWrite", "discardUnlink"}

Typed == TypeOK /\ todo \in [Procs -> SUBSET File]

Carries(p) ==
  /\ backend # "fs" => pc[p] \in {"idle", "scan", "run", "check", "create", "down"}
  /\ backend = "memory" => pc[p] \in {"idle", "scan", "run"}
  /\ pc[p] \in Reviving \cup Leasing \cup Ending \cup Deciding => rec[p] \in File /\ rec[p].id <= created /\ rec[p].order <= orders
  /\ pc[p] \in Leasing => rec[p].place = "active" /\ rec[p].lease = 0
  /\ pc[p] \in Reviving => rec[p].place = "leased" /\ Expired(rec[p])
  /\ pc[p] \in Ending => rec[p].place = "leased" /\ rec[p].id = InHand(p).id /\ rec[p].lease = InHand(p).lease
  /\ pc[p] \in Deciding => rec[p].place = "staged" /\ rec[p].lease = 0
  /\ pc[p] \in Ending \cup {"run"} => held[p] # <<>>
  /\ pc[p] \in {"check", "create"} => want[p].goal \in {"active", "staged"}
  /\ pc[p] \in Reviving \cup {"revive"} => want[p].goal # "none"
  /\ backend = "fs" /\ pc[p] \in Leasing \cup {"scan"} => \A f \in todo[p] : f.place = "active"
  /\ \A k \in DOMAIN held[p] : held[p][k].id <= created /\ held[p][k].lease <= leases[held[p][k].id]

(* The store: ids and order keys were given out, a lease is on leased files*)
(* and a path leads to one file.                                           *)
Paths ==
  /\ \A f \in files : f.id <= created /\ f.order <= orders
  /\ \A f \in files : f.place \in {"active", "staged"} => f.lease = 0
  /\ \A f, g \in files : SamePath(f, g) => f = g
  /\ backend # "fs" => \A f, g \in files : f.id = g.id => f = g

Sound == Typed /\ Paths /\ \A p \in Procs : Carries(p)

(* What a step of p leaves the others.                                     *)
Others(p) ==
  /\ backend' = backend /\ created <= created' /\ orders <= orders' /\ lapsed \subseteq lapsed'
  /\ \A i \in Ids : leases[i] <= leases'[i]
  /\ \A q \in Procs \ {p} : /\ pc'[q] = pc[q] /\ rec'[q] = rec[q] /\ want'[q] = want[q]
                            /\ todo'[q] = todo[q] /\ held'[q] = held[q]

LEMMA IdsAreNumbers ==
  /\ \A i \in Ids : i \in Nat \ {0}
  /\ \A b \in Backends : \A n \in 0..MaxMessages[b] : 1..n \subseteq Ids
BY QueueAssumption DEF Ids

LEMMA NoFileIsNone == NoFile \notin File
BY DEF NoFile, File, Places

LEMMA OthersCarry ==
  ASSUME Typed, Typed', NEW p \in Procs, Others(p), NEW q \in Procs \ {p}, Carries(q)
  PROVE  Carries(q)'
<1>1. /\ pc'[q] = pc[q] /\ rec'[q] = rec[q] /\ want'[q] = want[q] /\ todo'[q] = todo[q] /\ held'[q] = held[q]
      /\ backend' = backend /\ created <= created' /\ orders <= orders' /\ lapsed \subseteq lapsed'
      /\ \A i \in Ids : leases[i] <= leases'[i]
  BY DEF Others
<1>2. created \in Nat /\ created' \in Nat /\ orders \in Nat /\ orders' \in Nat /\ held[q] \in Seq(Lease)
      /\ \A i \in Ids : leases[i] \in Nat /\ leases'[i] \in Nat
  BY QueueAssumption DEF Typed, TypeOK
<1>3. \A k \in DOMAIN held[q] : held[q][k] \in Lease
  BY <1>2, ElementOfSeq, LenProperties
<1>4. ASSUME NEW k \in DOMAIN held[q]
      PROVE  held[q][k].id <= created' /\ held[q][k].lease <= leases'[held[q][k].id]
  <2>1. held[q][k].id \in Ids /\ held[q][k].id \in Nat /\ held[q][k].lease \in Nat
    BY <1>3, IdsAreNumbers DEF Lease
  <2>2. held[q][k].id <= created /\ held[q][k].lease <= leases[held[q][k].id]
    BY DEF Carries
  <2>3. leases[held[q][k].id] <= leases'[held[q][k].id] /\ leases[held[q][k].id] \in Nat /\ leases'[held[q][k].id] \in Nat
    BY <1>1, <1>2, <2>1
  <2> QED BY <1>1, <1>2, <2>1, <2>2, <2>3
<1>5. rec[q] \in File => rec[q].id \in Nat /\ rec[q].order \in Nat
  BY IdsAreNumbers DEF File
<1>6. rec[q] \in File /\ rec[q].id <= created /\ rec[q].order <= orders => rec'[q].id <= created' /\ rec'[q].order <= orders'
  BY <1>1, <1>2, <1>5
<1> QED BY <1>1, <1>4, <1>6 DEF Carries, InHand, Expired

(* What every step of p keeps.                                             *)
Steady(p) == Typed' /\ Carries(p)' /\ Others(p)

LEMMA PlainFacts ==
  ASSUME Sound
  PROVE  /\ backend \in Backends /\ MaxMessages[backend] \in Nat /\ created \in Nat /\ orders \in Nat
         /\ files \subseteq File /\ created \in 0..MaxMessages[backend]
         /\ \A i \in Ids : leases[i] \in Nat /\ leases[i] <= leases[i]
         /\ created <= created /\ orders <= orders
         /\ Overdue \subseteq File /\ Listing \subseteq File
         /\ \A place : In(place) \subseteq File
         /\ fails \in Nat /\ lapses \in Nat /\ crashes \in Nat
BY QueueAssumption DEF Sound, Typed, TypeOK, Overdue, Listing, In

LEMMA OwnFacts ==
  ASSUME Sound, NEW p \in Procs
  PROVE  /\ pc \in [Procs -> Pc] /\ todo \in [Procs -> SUBSET File] /\ rec \in [Procs -> File \cup {NoFile}]
         /\ want \in [Procs -> Want] /\ held \in [Procs -> Seq(Lease)]
         /\ Carries(p)
BY DEF Sound, Typed, TypeOK

LEMMA HeldLeases ==
  ASSUME Sound, NEW p \in Procs
  PROVE  /\ held[p] \in Seq(Lease)
         /\ \A k \in DOMAIN held[p] :
              /\ held[p][k] \in Lease /\ held[p][k].id \in Ids /\ held[p][k].id \in Nat
              /\ held[p][k].lease \in Nat \ {0} /\ held[p][k].attempt \in Nat
              /\ held[p][k].id <= created /\ held[p][k].lease <= leases[held[p][k].id]
<1>1. held[p] \in Seq(Lease) /\ Carries(p)
  BY OwnFacts
<1>2. \A k \in DOMAIN held[p] : held[p][k] \in Lease
  BY <1>1, ElementOfSeq, LenProperties
<1> QED BY <1>1, <1>2, IdsAreNumbers DEF Lease, Carries

LEMMA BeginCreateSteady ==
  ASSUME Sound, NEW p \in Procs, NEW place \in Kinds[backend] \ {"plain"}, NEW key \in Keys, BeginCreate(p, place, key)
  PROVE  Steady(p)
<1>1. place \in {"active", "staged"}
  BY QueueAssumption, PlainFacts
<1>2. \/ pc' = [pc EXCEPT ![p] = "revive"] /\ todo' = [todo EXCEPT ![p] = Overdue] /\ backend = "fs"
      \/ pc' = [pc EXCEPT ![p] = "check"] /\ todo' = todo
  BY DEF BeginCreate, Overdue, Goto, List
<1>3. /\ want' = [want EXCEPT ![p] = [goal |-> place, key |-> key]] /\ backend # "memory"
      /\ UNCHANGED <<store, files, rec, held, leases, lapsed, stale, torn, history>>
  BY DEF BeginCreate
<1>4. [goal |-> place, key |-> key] \in Want
  BY <1>1 DEF Want
<1>5. Typed'
  BY <1>2, <1>3, <1>4, PlainFacts DEF Sound, Typed, TypeOK, store, history, Pc
<1>6. Carries(p)'
  BY <1>1, <1>2, <1>3, OwnFacts DEF Carries, Reviving, Leasing, Ending, Deciding, store, Expired, InHand
<1>7. Others(p)
  BY <1>2, <1>3, OwnFacts, PlainFacts DEF Others, store
<1> QED BY <1>5, <1>6, <1>7 DEF Steady

LEMMA CheckAbsentSteady ==
  ASSUME Sound, NEW p \in Procs, CheckAbsent(p)
  PROVE  Steady(p)
<1>1. \/ pc' = [pc EXCEPT ![p] = "create"] /\ want' = want
      \/ pc' = [pc EXCEPT ![p] = "idle"] /\ want' = [want EXCEPT ![p] = NoWant]
  BY DEF CheckAbsent, Goto
<1>2. pc[p] = "check" /\ UNCHANGED <<store, files, todo, rec, held, leases, lapsed, stale, torn, history>>
  BY DEF CheckAbsent
<1>3. NoWant \in Want
  BY DEF NoWant, Want
<1>4. Typed'
  BY <1>1, <1>2, <1>3 DEF Sound, Typed, TypeOK, store, history, Pc
<1>5. Carries(p)'
  BY <1>1, <1>2, OwnFacts DEF Carries, Reviving, Leasing, Ending, Deciding, store, Expired, InHand
<1>6. Others(p)
  BY <1>1, <1>2, OwnFacts, PlainFacts DEF Others, store
<1> QED BY <1>4, <1>5, <1>6 DEF Steady

LEMMA SettleStagedSteady ==
  ASSUME Sound, NEW p \in Procs, NEW f \in In("staged"), NEW label \in {"commitWrite", "discardWrite"},
         SettleStaged(p, f, label)
  PROVE  Steady(p)
<1>1. /\ pc' = [pc EXCEPT ![p] = label] /\ rec' = [rec EXCEPT ![p] = f] /\ backend = "fs"
      /\ UNCHANGED <<store, files, todo, want, held, leases, lapsed, stale, torn, history>>
  BY DEF SettleStaged, Goto, Read
<1>2. f \in File /\ f.place = "staged" /\ f.lease = 0 /\ f.id <= created /\ f.order <= orders
  BY DEF In, Sound, Paths, Typed, TypeOK
<1>3. Typed'
  BY <1>1, <1>2 DEF Sound, Typed, TypeOK, store, history, Pc
<1>4. Carries(p)'
  BY <1>1, <1>2, OwnFacts DEF Carries, Reviving, Leasing, Ending, Deciding, store, Expired, InHand
<1>5. Others(p)
  BY <1>1, OwnFacts, PlainFacts DEF Others, store
<1> QED BY <1>3, <1>4, <1>5 DEF Steady

LEMMA BeginLeaseSteady ==
  ASSUME Sound, NEW p \in Procs, BeginLease(p)
  PROVE  Steady(p)
<1>1. \/ pc' = [pc EXCEPT ![p] = "revive"] /\ todo' = [todo EXCEPT ![p] = Overdue] /\ backend = "fs"
      \/ pc' = [pc EXCEPT ![p] = "scan"] /\ todo' = [todo EXCEPT ![p] = Listing]
  BY DEF BeginLease, BeginScan, Overdue, Goto, List
<1>2. /\ want' = [want EXCEPT ![p].goal = "lease"] /\ backend # "memory"
      /\ UNCHANGED <<store, files, rec, held, leases, lapsed, stale, torn, history>>
  BY DEF BeginLease
<1>3. want' \in [Procs -> Want] /\ want'[p].goal = "lease" /\ \A q \in Procs \ {p} : want'[q] = want[q]
  BY <1>2, OwnFacts DEF Want
<1>4. Typed'
  BY <1>1, <1>2, <1>3, PlainFacts, ZenonT(30) DEF Sound, Typed, TypeOK, store, history, Pc
<1>5. backend = "fs" => \A f \in Listing : f.place = "active"
  BY DEF Listing, In
<1>6. Carries(p)'
  BY <1>1, <1>2, <1>3, <1>5, OwnFacts DEF Carries, Reviving, Leasing, Ending, Deciding, store, Expired, InHand
<1>7. Others(p)
  BY <1>1, <1>2, <1>3, OwnFacts, PlainFacts DEF Others, store
<1> QED BY <1>4, <1>6, <1>7 DEF Steady

LEMMA ReviveReadSteady ==
  ASSUME Sound, NEW p \in Procs, ReviveRead(p)
  PROVE  Steady(p)
<1>1. PICK f \in todo[p] : todo' = [todo EXCEPT ![p] = todo[p] \ {f}]
        /\ \E g \in At("leased", f.id) : Expired(g) /\ rec' = [rec EXCEPT ![p] = g]
  BY DEF ReviveRead, List, Read
<1>2. PICK g \in At("leased", f.id) : Expired(g) /\ rec' = [rec EXCEPT ![p] = g]
  BY <1>1
<1>3. /\ pc' = [pc EXCEPT ![p] = "reviveWrite"] /\ pc[p] = "revive"
      /\ UNCHANGED <<store, files, want, held, leases, lapsed, stale, torn, history>>
  BY DEF ReviveRead, Goto
<1>4. g \in File /\ g.place = "leased" /\ g.id <= created /\ g.order <= orders
  BY DEF At, In, Sound, Paths, Typed, TypeOK
<1>5. backend = "fs"
  BY <1>3, OwnFacts DEF Carries
<1>6. Typed'
  BY <1>1, <1>2, <1>3, <1>4, OwnFacts DEF Sound, Typed, TypeOK, store, history, Pc
<1>7. Carries(p)'
  BY <1>1, <1>2, <1>3, <1>4, <1>5, OwnFacts DEF Carries, Reviving, Leasing, Ending, Deciding, store, Expired, InHand
<1>8. Others(p)
  BY <1>1, <1>2, <1>3, OwnFacts, PlainFacts DEF Others, store
<1> QED BY <1>6, <1>7, <1>8 DEF Steady

LEMMA EndReviveSteady ==
  ASSUME Sound, NEW p \in Procs, EndRevive(p)
  PROVE  Steady(p)
<1>1. \/ pc' = [pc EXCEPT ![p] = "scan"] /\ todo' = [todo EXCEPT ![p] = Listing] /\ want[p].goal = "lease"
      \/ pc' = [pc EXCEPT ![p] = "check"] /\ todo' = [todo EXCEPT ![p] = {}] /\ want[p].goal # "lease"
  BY DEF EndRevive, Goto, List
<1>2. pc[p] = "revive" /\ UNCHANGED <<store, files, rec, want, held, leases, lapsed, stale, torn, history>>
  BY DEF EndRevive
<1>3. Typed'
  BY <1>1, <1>2, PlainFacts DEF Sound, Typed, TypeOK, store, history, Pc
<1>4. want[p].goal \in {"lease", "active", "staged"} /\ backend = "fs"
  BY <1>2, OwnFacts DEF Carries, Want
<1>5. backend = "fs" => \A f \in Listing : f.place = "active"
  BY DEF Listing, In
<1>6. Carries(p)'
  BY <1>1, <1>2, <1>4, <1>5, OwnFacts DEF Carries, Reviving, Leasing, Ending, Deciding, store, Expired, InHand
<1>7. Others(p)
  BY <1>1, <1>2, OwnFacts, PlainFacts DEF Others, store
<1> QED BY <1>3, <1>6, <1>7 DEF Steady

LEMMA FsReadSteady ==
  ASSUME Sound, NEW p \in Procs, FsRead(p)
  PROVE  Steady(p)
<1>1. PICK f \in todo[p] :
        /\ todo' = [todo EXCEPT ![p] = todo[p] \ {f}]
        /\ IF \E g \in files : SamePath(f, g)
           THEN /\ pc' = [pc EXCEPT ![p] = "claim"]
                /\ rec' = [rec EXCEPT ![p] = CHOOSE g \in files : SamePath(f, g)]
           ELSE UNCHANGED <<pc, rec>>
  BY DEF FsRead, List, Goto, Read
<1>2. /\ backend = "fs" /\ pc[p] = "scan"
      /\ UNCHANGED <<store, files, want, held, leases, lapsed, stale, torn, history>>
  BY DEF FsRead
<1>3. f.place = "active"
  BY <1>1, <1>2, OwnFacts DEF Carries
<1>4. ASSUME NEW g, g = (CHOOSE x \in files : SamePath(f, x)), \E x \in files : SamePath(f, x)
      PROVE  g \in File /\ g.place = "active" /\ g.lease = 0 /\ g.id <= created /\ g.order <= orders
  BY <1>3, <1>4 DEF SamePath, Sound, Paths, Typed, TypeOK
<1>5. \/ UNCHANGED <<pc, rec>>
      \/ \E g \in File : /\ pc' = [pc EXCEPT ![p] = "claim"] /\ rec' = [rec EXCEPT ![p] = g]
                         /\ g.place = "active" /\ g.lease = 0 /\ g.id <= created /\ g.order <= orders
  BY <1>1, <1>4
<1>6. Typed'
  <2>1. Typed
    BY DEF Sound
  <2>2. pc' \in [Procs -> Pc] /\ rec' \in [Procs -> File \cup {NoFile}]
    BY <1>5, <2>1 DEF Typed, TypeOK, Pc
  <2>3. todo' \in [Procs -> SUBSET File]
    BY <1>1, <2>1 DEF Typed
  <2> QED BY <1>2, <2>1, <2>2, <2>3 DEF Typed, TypeOK, store, history
<1>7. Carries(p)'
  BY <1>1, <1>2, <1>5, OwnFacts, ZenonT(30) DEF Carries, Reviving, Leasing, Ending, Deciding, store, Expired, InHand
<1>8. Others(p)
  BY <1>1, <1>2, <1>5, OwnFacts, PlainFacts DEF Others, store
<1> QED BY <1>6, <1>7, <1>8 DEF Steady

LEMMA EndScanSteady ==
  ASSUME Sound, NEW p \in Procs, EndScan(p)
  PROVE  Steady(p)
<1>1. /\ pc' = [pc EXCEPT ![p] = IF held[p] = <<>> THEN "idle" ELSE "run"]
      /\ todo' = [todo EXCEPT ![p] = {}] /\ want' = [want EXCEPT ![p] = NoWant] /\ pc[p] = "scan"
      /\ UNCHANGED <<store, files, rec, held, leases, lapsed, stale, torn, history>>
  BY DEF EndScan, Goto, List
<1>2. NoWant \in Want
  BY DEF NoWant, Want
<1>3. Typed'
  BY <1>1, <1>2 DEF Sound, Typed, TypeOK, store, history, Pc
<1>4. Carries(p)'
  BY <1>1, OwnFacts DEF Carries, Reviving, Leasing, Ending, Deciding, store, Expired, InHand
<1>5. Others(p)
  BY <1>1, OwnFacts, PlainFacts DEF Others, store
<1> QED BY <1>3, <1>4, <1>5 DEF Steady

LEMMA CrashSteady ==
  ASSUME Sound, NEW p \in Procs, Crash(p)
  PROVE  Steady(p)
<1>1. /\ pc' = [pc EXCEPT ![p] = "down"] /\ todo' = [todo EXCEPT ![p] = {}] /\ rec' = [rec EXCEPT ![p] = NoFile]
      /\ want' = [want EXCEPT ![p] = NoWant] /\ held' = [held EXCEPT ![p] = <<>>]
      /\ backend # "memory" /\ crashes' = crashes + 1
      /\ torn' = torn \cup Torn(p) /\ late' = late \cup {held[p][k].id : k \in DOMAIN held[p]}
      /\ UNCHANGED <<store, files, leases, lapsed, stale, fails, lapses>>
  BY DEF Crash, Goto, List, Read
<1>2. NoWant \in Want
  BY DEF NoWant, Want
<1>3. Torn(p) \subseteq Ids
  BY OwnFacts DEF Torn, Carries, Reviving, Leasing, Ending, Deciding, File
<1>4. {held[p][k].id : k \in DOMAIN held[p]} \subseteq Ids
  BY HeldLeases
<1>5. Typed'
  <2>1. late' \subseteq Ids /\ torn' \subseteq Ids /\ crashes' \in Nat
    BY <1>1, <1>3, <1>4, PlainFacts DEF Sound, Typed, TypeOK
  <2> QED BY <1>1, <1>2, <2>1 DEF Sound, Typed, TypeOK, store, Pc
<1>6. Carries(p)'
  <2>1. pc'[p] = "down" /\ held'[p] = <<>> /\ backend' = backend
    BY <1>1, OwnFacts DEF store
  <2> QED BY <1>1, <2>1 DEF Carries, Reviving, Leasing, Ending, Deciding
<1>7. Others(p)
  BY <1>1, OwnFacts, PlainFacts DEF Others, store
<1> QED BY <1>5, <1>6, <1>7 DEF Steady

LEMMA RestartSteady ==
  ASSUME Sound, NEW p \in Procs, Restart(p)
  PROVE  Steady(p)
<1>1. /\ pc' = [pc EXCEPT ![p] = "idle"] /\ pc[p] = "down"
      /\ UNCHANGED <<store, files, todo, rec, want, held, leases, lapsed, stale, torn, history>>
  BY DEF Restart, Goto
<1>2. Typed'
  BY <1>1 DEF Sound, Typed, TypeOK, store, history, Pc
<1>3. Carries(p)'
  BY <1>1, OwnFacts DEF Carries, Reviving, Leasing, Ending, Deciding, store, Expired, InHand
<1>4. Others(p)
  BY <1>1, OwnFacts, PlainFacts DEF Others, store
<1> QED BY <1>2, <1>3, <1>4 DEF Steady

(* Writing a file to its path.                                             *)
LEMMA PutPaths ==
  ASSUME Sound, Typed', backend' = backend, created <= created', orders <= orders',
         NEW f \in File, files' = Put(files, f), f.id <= created', f.order <= orders',
         f.place \in {"active", "staged"} => f.lease = 0,
         backend = "fs" \/ \A g \in files : g.id # f.id
  PROVE  Paths'
<1>1. created \in Nat /\ orders \in Nat /\ created' \in Nat /\ orders' \in Nat
  BY QueueAssumption, PlainFacts DEF Typed, TypeOK
<1>2. \A g \in files' : g = f \/ (g \in files /\ ~ SamePath(f, g))
  BY DEF Put
<1>3. \A g \in files : g.id \in Nat /\ g.order \in Nat
  BY PlainFacts, IdsAreNumbers DEF File
<1>4. \A g \in files' : g.id <= created' /\ g.order <= orders'
  BY <1>1, <1>2, <1>3 DEF Sound, Paths
<1>5. \A g \in files' : g.place \in {"active", "staged"} => g.lease = 0
  BY <1>2 DEF Sound, Paths
<1>6. \A g, h \in files' : SamePath(g, h) => g = h
  BY <1>2 DEF Sound, Paths, SamePath
<1>7. backend' # "fs" => \A g, h \in files' : g.id = h.id => g = h
  BY <1>2 DEF Sound, Paths
<1> QED BY <1>4, <1>5, <1>6, <1>7 DEF Paths, SamePath

(* Taking files away.                                                      *)
LEMMA FewerPaths ==
  ASSUME Sound, files' \subseteq files, UNCHANGED <<backend, created, orders>>
  PROVE  Paths'
BY DEF Sound, Paths, SamePath

(* Replacing a document by a version of itself.                            *)
LEMMA VersionPaths ==
  ASSUME Sound, Typed', backend # "fs", UNCHANGED <<backend, created>>, orders <= orders',
         \A h \in files' : \/ h \in files
                           \/ /\ h \in File /\ h.order <= orders' /\ (h.place \in {"active", "staged"} => h.lease = 0)
                              /\ \E g \in files : g.id = h.id /\ g \notin files',
         \A h, g \in files' : h \notin files /\ g \notin files /\ h.id = g.id => h = g
  PROVE  Paths'
<1>1. created \in Nat /\ orders \in Nat /\ orders' \in Nat
  BY PlainFacts DEF Typed, TypeOK
<1>2. \A g \in files : g.id <= created /\ g.order <= orders /\ g.order \in Nat /\ (g.place \in {"active", "staged"} => g.lease = 0)
  BY PlainFacts DEF Sound, Paths, File
<1>3. \A g, h \in files : g.id = h.id => g = h
  BY DEF Sound, Paths
<1>4. \A h \in files' : h.id <= created' /\ h.order <= orders' /\ (h.place \in {"active", "staged"} => h.lease = 0)
  BY <1>1, <1>2
<1>5. \A g, h \in files' : g.id = h.id => g = h
  BY <1>3
<1> QED BY <1>4, <1>5 DEF Paths, SamePath

LEMMA NewFileType ==
  ASSUME Sound, created < MaxMessages[backend], NEW place \in {"active", "staged"}, NEW key \in Keys \cup {NoKey}
  PROVE  /\ NewFile(place, key) \in File /\ NewFile(place, key).id = created + 1
         /\ NewFile(place, key).order = orders + 1 /\ NewFile(place, key).lease = 0 /\ NewFile(place, key).place = place
         /\ created + 1 \in 0..MaxMessages[backend]
         /\ NewFile(place, key).attempt = 0 /\ NewFile(place, key).key = key
<1>1. created + 1 \in 1..MaxMessages[backend] /\ orders + 1 \in Nat
  BY PlainFacts
<1>2. created + 1 \in Ids
  BY <1>1, PlainFacts DEF Ids
<1> QED BY <1>1, <1>2 DEF NewFile, File, Places

LEMMA CreateFacts ==
  ASSUME Sound, NEW p, NEW place \in {"active", "staged"}, NEW key \in Keys \cup {NoKey}, Create(p, place, key)
  PROVE  /\ files' \subseteq File /\ created' = created + 1 /\ orders' = orders + 1
         /\ created' \in 0..MaxMessages[backend] /\ orders' \in Nat /\ created <= created' /\ orders <= orders'
         /\ Typed' /\ backend' = backend => Paths'
<1> DEFINE f == NewFile(place, key)
<1>1. files' = Put(files, f) /\ created' = created + 1 /\ orders' = orders + 1 /\ created < MaxMessages[backend]
  BY DEF Create
<1>2. f \in File /\ f.id = created + 1 /\ f.order = orders + 1 /\ f.lease = 0 /\ created + 1 \in 0..MaxMessages[backend]
  BY <1>1, NewFileType
<1> HIDE DEF f
<1>3. files' \subseteq File /\ created' \in 0..MaxMessages[backend] /\ orders' \in Nat
  BY <1>1, <1>2, PlainFacts DEF Put
<1>4. created <= created' /\ orders <= orders'
  BY <1>1, PlainFacts
<1>5. \A g \in files : g.id # f.id
  <2>1. \A g \in files : g.id <= created /\ g.id \in Nat
    BY PlainFacts, IdsAreNumbers DEF Sound, Paths, File
  <2> QED BY <1>2, <2>1, PlainFacts
<1>6. ASSUME Typed', backend' = backend PROVE Paths'
  <2>1. f.id <= created' /\ f.order <= orders'
    BY <1>1, <1>2, PlainFacts
  <2> QED BY <1>1, <1>2, <1>4, <1>5, <1>6, <2>1, PutPaths
<1> QED BY <1>1, <1>3, <1>4, <1>6

LEMMA EnqueueSteady ==
  ASSUME Sound, NEW p \in Procs,
         \/ Enqueue(p)
         \/ \E place \in Kinds[backend] \ {"plain"}, key \in Keys : MemoryCreateIfAbsent(p, place, key)
  PROVE  Steady(p) /\ Paths'
<1>1. PICK place \in {"active", "staged"}, key \in Keys \cup {NoKey} :
        /\ Create(p, place, key) /\ pc[p] = "idle"
        /\ UNCHANGED <<backend, pc, todo, rec, want, held, leases, lapsed, stale, torn, history>>
  BY QueueAssumption, PlainFacts DEF Enqueue, MemoryCreateIfAbsent
<1>2. /\ files' \subseteq File /\ created' = created + 1 /\ orders' = orders + 1
      /\ created' \in 0..MaxMessages[backend] /\ orders' \in Nat /\ created <= created' /\ orders <= orders'
      /\ Typed' /\ backend' = backend => Paths'
  BY <1>1, CreateFacts
<1>3. Typed'
  BY <1>1, <1>2 DEF Sound, Typed, TypeOK, history
<1>4. Others(p)
  BY <1>1, <1>2, PlainFacts DEF Others
<1>5. Carries(p)'
  <2>1. \A n \in Ids : n <= created => n <= created'
    BY <1>2, PlainFacts, IdsAreNumbers
  <2>2. \A k \in DOMAIN held[p] : held[p][k].id \in Ids
    BY HeldLeases
  <2>3. rec[p] \in File => rec[p].id \in Ids
    BY DEF File
  <2> QED BY <1>1, <2>1, <2>2, OwnFacts DEF Carries, Reviving, Leasing, Ending, Deciding
<1> QED BY <1>1, <1>2, <1>3, <1>4, <1>5 DEF Steady

LEMMA WriteAbsentSteady ==
  ASSUME Sound, NEW p \in Procs, WriteAbsent(p)
  PROVE  Steady(p) /\ Paths'
<1>1. /\ pc[p] = "create" /\ pc' = [pc EXCEPT ![p] = "idle"] /\ want' = [want EXCEPT ![p] = NoWant]
      /\ UNCHANGED <<backend, todo, rec, held, leases, lapsed, stale, torn, history>>
  BY DEF WriteAbsent, Goto
<1>2. want[p].goal \in {"active", "staged"} /\ want[p].key \in Keys \cup {NoKey}
  BY <1>1, OwnFacts DEF Carries, Want
<1>3. Create(p, want[p].goal, want[p].key) \/ UNCHANGED <<files, created, orders>>
  BY DEF WriteAbsent
<1>4. /\ files' \subseteq File /\ created' \in 0..MaxMessages[backend] /\ orders' \in Nat
      /\ created <= created' /\ orders <= orders'
      /\ Typed' /\ backend' = backend => Paths'
  <2>1. CASE UNCHANGED <<files, created, orders>>
    <3>1. backend' = backend => Paths'
      BY <2>1, FewerPaths
    <3> QED BY <2>1, <3>1, PlainFacts
  <2> QED BY <1>2, <1>3, <2>1, CreateFacts
<1>5. NoWant \in Want
  BY DEF NoWant, Want
<1>6. Typed'
  BY <1>1, <1>4, <1>5 DEF Sound, Typed, TypeOK, history, Pc
<1>7. Others(p)
  BY <1>1, <1>4, OwnFacts, PlainFacts DEF Others
<1>8. Carries(p)'
  <2>1. pc'[p] = "idle" /\ held' = held /\ backend' = backend /\ leases' = leases /\ backend # "memory"
    BY <1>1, OwnFacts DEF Carries
  <2>2. \A k \in DOMAIN held[p] : held[p][k].id <= created'
    <3>1. \A k \in DOMAIN held[p] : held[p][k].id \in Ids /\ held[p][k].id <= created
      BY HeldLeases
    <3>2. created' \in Nat
      BY <1>4, PlainFacts
    <3> QED BY <1>4, <3>1, <3>2, PlainFacts, IdsAreNumbers
  <2> QED BY <2>1, <2>2, OwnFacts DEF Carries, Reviving, Leasing, Ending, Deciding
<1> QED BY <1>1, <1>4, <1>6, <1>7, <1>8 DEF Steady

(* The versions of a file that are written.                                *)
LEMMA Versions ==
  ASSUME Sound, NEW f \in File
  PROVE  /\ f.id \in Ids /\ f.id \in Nat /\ f.order \in Nat /\ f.attempt \in Nat /\ f.lease \in Nat
         /\ f.place \in Places /\ f.key \in Keys \cup {NoKey} /\ leases[f.id] \in Nat
         /\ \A place \in Places :
              /\ Moved(f, place) \in File /\ Moved(f, place).place = place /\ Moved(f, place).id = f.id
              /\ Moved(f, place).order = f.order /\ Moved(f, place).attempt = f.attempt
              /\ Moved(f, place).lease = f.lease /\ Moved(f, place).key = f.key
         /\ \A place \in Places :
              /\ Bare(f, place) \in File /\ Bare(f, place).place = place /\ Bare(f, place).id = f.id
              /\ Bare(f, place).order = f.order /\ Bare(f, place).attempt = f.attempt
              /\ Bare(f, place).lease = 0 /\ Bare(f, place).key = NoKey
         /\ Promoted(f) \in File /\ Promoted(f).place = "active" /\ Promoted(f).id = f.id
         /\ Promoted(f).order = orders + 1 /\ Promoted(f).attempt = 0
         /\ Promoted(f).lease = f.lease /\ Promoted(f).key = f.key
         /\ Stamped(f) \in File /\ Stamped(f).place = "leased" /\ Stamped(f).id = f.id
         /\ Stamped(f).order = f.order /\ Stamped(f).attempt = f.attempt + 1
         /\ Stamped(f).lease = leases[f.id] + 1 /\ Stamped(f).key = f.key
         /\ Leased(Stamped(f)) \in Lease /\ Leased(Stamped(f)).id = f.id
         /\ Leased(Stamped(f)).lease = leases[f.id] + 1 /\ Leased(Stamped(f)).attempt = f.attempt + 1
<1>1. /\ f.id \in Ids /\ f.id \in Nat /\ f.order \in Nat /\ f.attempt \in Nat /\ f.lease \in Nat
      /\ f.place \in Places /\ f.key \in Keys \cup {NoKey} /\ leases[f.id] \in Nat
  BY IdsAreNumbers, PlainFacts DEF File
<1>2. orders + 1 \in Nat /\ leases[f.id] + 1 \in Nat \ {0} /\ f.attempt + 1 \in Nat
  BY <1>1, PlainFacts
<1>3. \A place \in Places :
              /\ Moved(f, place) \in File /\ Moved(f, place).place = place /\ Moved(f, place).id = f.id
              /\ Moved(f, place).order = f.order /\ Moved(f, place).attempt = f.attempt
              /\ Moved(f, place).lease = f.lease /\ Moved(f, place).key = f.key
  BY DEF Moved, File
<1>4. \A place \in Places :
              /\ Bare(f, place) \in File /\ Bare(f, place).place = place /\ Bare(f, place).id = f.id
              /\ Bare(f, place).order = f.order /\ Bare(f, place).attempt = f.attempt
              /\ Bare(f, place).lease = 0 /\ Bare(f, place).key = NoKey
  BY DEF Bare, File
<1>5. /\ Promoted(f) \in File /\ Promoted(f).place = "active" /\ Promoted(f).id = f.id
      /\ Promoted(f).order = orders + 1 /\ Promoted(f).attempt = 0
      /\ Promoted(f).lease = f.lease /\ Promoted(f).key = f.key
  BY <1>2 DEF Promoted, File, Places
<1>6. /\ Stamped(f) \in File /\ Stamped(f).place = "leased" /\ Stamped(f).id = f.id
      /\ Stamped(f).order = f.order /\ Stamped(f).attempt = f.attempt + 1
      /\ Stamped(f).lease = leases[f.id] + 1 /\ Stamped(f).key = f.key
  BY <1>2 DEF Stamped, File, Places
<1>7. /\ Leased(Stamped(f)) \in Lease /\ Leased(Stamped(f)).id = f.id
      /\ Leased(Stamped(f)).lease = leases[f.id] + 1 /\ Leased(Stamped(f)).attempt = f.attempt + 1
  BY <1>1, <1>2, <1>6 DEF Leased, Lease
<1> QED BY <1>1, <1>3, <1>4, <1>5, <1>6, <1>7

(* A process that has read a file is of the file store.                    *)
LEMMA ReadFacts ==
  ASSUME Sound, NEW p \in Procs, pc[p] \in Reviving \cup Leasing \cup Ending \cup Deciding
  PROVE  backend = "fs" /\ rec[p] \in File /\ rec[p].id <= created /\ rec[p].order <= orders /\ rec[p].id \in Ids
BY OwnFacts DEF Carries, Reviving, Leasing, Ending, Deciding, File

(* The ids a step adds to stale.                                           *)
LEMMA OutdatedIds ==
  ASSUME Sound, NEW p \in Procs, rec[p] \in File
  PROVE  /\ OutdatedWrite(p, Promoted(rec[p])) \subseteq Ids
         /\ \A place \in Places : OutdatedWrite(p, Bare(rec[p], place)) \subseteq Ids
         /\ \A there : OutdatedRename(p, there) \subseteq Ids /\ OutdatedUnlink(p, there) \subseteq Ids
BY Versions DEF OutdatedWrite, OutdatedRename, OutdatedUnlink

LEMMA CommitWriteSteady ==
  ASSUME Sound, NEW p \in Procs, CommitWrite(p)
  PROVE  Steady(p) /\ Paths'
<1> DEFINE c == Promoted(rec[p])
<1>1. /\ pc[p] = "commitWrite" /\ pc' = [pc EXCEPT ![p] = "commitUnlink"] /\ files' = Put(files, c)
      /\ orders' = orders + 1 /\ stale' = stale \cup OutdatedWrite(p, c)
      /\ UNCHANGED <<backend, created, todo, rec, want, held, leases, lapsed, torn, history>>
  BY DEF CommitWrite, Goto
<1>2. backend = "fs" /\ rec[p] \in File /\ rec[p].id <= created /\ rec[p].order <= orders /\ rec[p].place = "staged" /\ rec[p].lease = 0
  BY <1>1, ReadFacts, OwnFacts DEF Carries, Deciding
<1>3. c \in File /\ c.id = rec[p].id /\ c.order = orders + 1 /\ c.lease = 0 /\ OutdatedWrite(p, c) \subseteq Ids
  BY <1>2, Versions, OutdatedIds
<1> HIDE DEF c
<1>4. files' \subseteq File /\ orders' \in Nat /\ orders <= orders' /\ c.order <= orders'
  BY <1>1, <1>3, PlainFacts DEF Put
<1>5. Typed'
  BY <1>1, <1>3, <1>4 DEF Sound, Typed, TypeOK, history, Pc
<1>6. Carries(p)'
  <2>1. rec[p].order <= orders'
    BY <1>1, <1>2, PlainFacts, Versions
  <2> QED BY <1>1, <1>2, <2>1, OwnFacts DEF Carries, Reviving, Leasing, Ending, Deciding, Expired, InHand
<1>7. Others(p)
  BY <1>1, OwnFacts, PlainFacts DEF Others
<1>8. Paths'
  BY <1>1, <1>2, <1>3, <1>4, <1>5, PlainFacts, PutPaths
<1> QED BY <1>5, <1>6, <1>7, <1>8 DEF Steady

(* The writes of a copy without lease and key.                             *)
LEMMA BareWriteSteady ==
  ASSUME Sound, NEW p \in Procs, NEW place \in {"active", "dead"},
         \/ pc[p] = "discardWrite" /\ pc' = [pc EXCEPT ![p] = "discardUnlink"]
         \/ pc[p] = "reviveWrite" /\ pc' = [pc EXCEPT ![p] = "reviveUnlink"]
         \/ pc[p] = "nackWrite" /\ pc' = [pc EXCEPT ![p] = "nackUnlink"],
         files' = Put(files, Bare(rec[p], place)), stale' = stale \cup OutdatedWrite(p, Bare(rec[p], place)),
         UNCHANGED <<store, todo, rec, want, held, leases, lapsed, torn, history>>
  PROVE  Steady(p) /\ Paths'
<1> DEFINE c == Bare(rec[p], place)
<1>1. UNCHANGED <<backend, created, orders, todo, rec, want, held, leases, lapsed, torn, late, fails, lapses, crashes>>
  BY DEF store, history
<1>2. backend = "fs" /\ rec[p] \in File /\ rec[p].id <= created /\ rec[p].order <= orders
  BY ReadFacts DEF Reviving, Deciding, Ending
<1>3. c \in File /\ c.id = rec[p].id /\ c.order = rec[p].order /\ c.lease = 0 /\ OutdatedWrite(p, c) \subseteq Ids
      /\ c.place = place
  BY <1>2, Versions, OutdatedIds DEF Places
<1>4. files' = Put(files, c) /\ stale' = stale \cup OutdatedWrite(p, c)
  OBVIOUS
<1> HIDE DEF c
<1>5. files' \subseteq File
  BY <1>3, <1>4, PlainFacts DEF Put
<1>6. Typed'
  BY <1>1, <1>3, <1>4, <1>5 DEF Sound, Typed, TypeOK, Pc
<1>7. Carries(p)'
  BY <1>1, <1>2, OwnFacts DEF Carries, Reviving, Leasing, Ending, Deciding, Expired, InHand
<1>8. Others(p)
  BY <1>1, OwnFacts, PlainFacts DEF Others
<1>9. Paths'
  BY <1>1, <1>2, <1>3, <1>4, <1>5, <1>6, PlainFacts, PutPaths
<1> QED BY <1>6, <1>7, <1>8, <1>9 DEF Steady

LEMMA DiscardWriteSteady ==
  ASSUME Sound, NEW p \in Procs, DiscardWrite(p) \/ ReviveWrite(p)
  PROVE  Steady(p) /\ Paths'
<1>1. CASE DiscardWrite(p)
  BY <1>1, BareWriteSteady DEF DiscardWrite, Goto
<1>2. CASE ReviveWrite(p)
  BY <1>2, BareWriteSteady DEF ReviveWrite, Goto
<1> QED BY <1>1, <1>2

LEMMA NackWriteSteady ==
  ASSUME Sound, NEW p \in Procs, NackWrite(p)
  PROVE  Steady(p) /\ Paths'
<1> DEFINE place == IF Exhausted(InHand(p)) THEN "dead" ELSE "active"
<1>1. /\ pc[p] = "nackWrite" /\ pc' = [pc EXCEPT ![p] = "nackUnlink"]
      /\ files' = Put(files, Bare(rec[p], place)) /\ stale' = stale \cup OutdatedWrite(p, Bare(rec[p], place))
      /\ UNCHANGED <<store, todo, rec, want, held, leases, lapsed, torn, history>>
  BY DEF NackWrite, Goto
<1>2. place \in {"active", "dead"}
  OBVIOUS
<1> HIDE DEF place
<1> QED BY <1>1, <1>2, BareWriteSteady

(* A process that goes on to its next lease.                               *)
LEMMA Next1Facts ==
  ASSUME Sound, NEW p \in Procs, held[p] # <<>>, Next1(p)
  PROVE  /\ held' = [held EXCEPT ![p] = Tail(held[p])] /\ Tail(held[p]) \in Seq(Lease)
         /\ \A k \in DOMAIN Tail(held[p]) :
              k \in Nat /\ k + 1 \in DOMAIN held[p] /\ Tail(held[p])[k] = held[p][k + 1]
         /\ \/ pc' = [pc EXCEPT ![p] = "run"] /\ Tail(held[p]) # <<>>
            \/ pc' = [pc EXCEPT ![p] = "idle"] /\ Tail(held[p]) = <<>>
<1>1. held[p] \in Seq(Lease)
  BY HeldLeases
<1>2. /\ Tail(held[p]) \in Seq(Lease) /\ Len(Tail(held[p])) = Len(held[p]) - 1
      /\ \A k \in 1..Len(Tail(held[p])) : Tail(held[p])[k] = held[p][k + 1]
  BY <1>1, HeadTailProperties
<1>3. Len(held[p]) \in Nat /\ DOMAIN held[p] = 1..Len(held[p]) /\ Len(held[p]) # 0
      /\ DOMAIN Tail(held[p]) = 1..Len(Tail(held[p]))
  BY <1>1, <1>2, LenProperties, EmptySeq
<1>4. \A k \in DOMAIN Tail(held[p]) : k \in Nat /\ k + 1 \in DOMAIN held[p] /\ Tail(held[p])[k] = held[p][k + 1]
  BY <1>2, <1>3
<1>5. (Len(held[p]) > 1) <=> Tail(held[p]) # <<>>
  <2>1. Tail(held[p]) = <<>> <=> Len(Tail(held[p])) = 0
    BY <1>2, EmptySeq
  <2>2. Len(held[p]) \in Nat /\ Len(held[p]) # 0 /\ Len(Tail(held[p])) = Len(held[p]) - 1
    BY <1>2, <1>3
  <2>3. ASSUME NEW n \in Nat, NEW m, n # 0, m = n - 1 PROVE (n > 1) <=> (m # 0)
    BY <2>3
  <2>4. (Len(held[p]) > 1) <=> (Len(Tail(held[p])) # 0)
    BY <2>2, <2>3, Zenon
  <2> QED BY <2>1, <2>4, Zenon
<1> QED BY <1>2, <1>4, <1>5 DEF Next1, Goto

LEMMA Next1Steady ==
  ASSUME Sound, NEW p \in Procs, held[p] # <<>>, Next1(p),
         rec' = rec \/ rec' = [rec EXCEPT ![p] = NoFile], files' \subseteq File, stale' \subseteq Ids,
         orders' \in Nat, orders <= orders', fails' \in Nat,
         UNCHANGED <<backend, created, todo, want, leases, lapsed, torn, late, lapses, crashes>>
  PROVE  Steady(p)
<1>1. /\ held' = [held EXCEPT ![p] = Tail(held[p])] /\ Tail(held[p]) \in Seq(Lease)
      /\ \A k \in DOMAIN Tail(held[p]) :
              k \in Nat /\ k + 1 \in DOMAIN held[p] /\ Tail(held[p])[k] = held[p][k + 1]
      /\ \/ pc' = [pc EXCEPT ![p] = "run"] /\ Tail(held[p]) # <<>>
         \/ pc' = [pc EXCEPT ![p] = "idle"] /\ Tail(held[p]) = <<>>
  BY Next1Facts
<1>2. Typed'
  BY <1>1 DEF Sound, Typed, TypeOK, Pc
<1>3. Carries(p)'
  <2>1. held'[p] = Tail(held[p]) /\ pc'[p] \in {"run", "idle"} /\ (pc'[p] = "run" => Tail(held[p]) # <<>>)
        /\ (pc'[p] = "idle" => Tail(held[p]) = <<>>)
        /\ backend' = backend /\ created' = created /\ leases' = leases
    BY <1>1, OwnFacts
  <2>2. \A k \in DOMAIN Tail(held[p]) : Tail(held[p])[k].id <= created /\ Tail(held[p])[k].lease <= leases[Tail(held[p])[k].id]
    BY <1>1, HeldLeases
  <2> QED BY <2>1, <2>2 DEF Carries, Reviving, Leasing, Ending, Deciding
<1>4. Others(p)
  BY <1>1, OwnFacts, PlainFacts DEF Others
<1> QED BY <1>2, <1>3, <1>4 DEF Steady

(* Unlinking the original.                                                 *)
LEMMA UnlinkFacts ==
  ASSUME Sound, NEW p \in Procs, rec[p] \in File, NEW place,
         files' = files \ At(place, rec[p].id), stale' = stale \cup OutdatedUnlink(p, At(place, rec[p].id))
  PROVE  files' \subseteq files /\ files' \subseteq File /\ stale' \subseteq Ids
<1>1. OutdatedUnlink(p, At(place, rec[p].id)) \subseteq Ids
  BY OutdatedIds
<1> QED BY <1>1, PlainFacts DEF Sound, Typed, TypeOK

LEMMA NackUnlinkSteady ==
  ASSUME Sound, NEW p \in Procs, NackUnlink(p)
  PROVE  Steady(p) /\ Paths'
<1>1. /\ pc[p] = "nackUnlink" /\ Next1(p) /\ rec' = [rec EXCEPT ![p] = NoFile]
      /\ files' = files \ At("leased", rec[p].id) /\ stale' = stale \cup OutdatedUnlink(p, At("leased", rec[p].id))
      /\ UNCHANGED <<backend, created, orders, todo, want, leases, lapsed, torn, late, fails, lapses, crashes>>
  BY DEF NackUnlink, Read, store, history
<1>2. rec[p] \in File /\ held[p] # <<>>
  BY <1>1, OwnFacts, ReadFacts DEF Carries, Ending
<1>3. files' \subseteq files /\ files' \subseteq File /\ stale' \subseteq Ids
  BY <1>1, <1>2, UnlinkFacts
<1> QED BY <1>1, <1>2, <1>3, PlainFacts, Next1Steady, FewerPaths

LEMMA AckRenameSteady ==
  ASSUME Sound, NEW p \in Procs, AckRename(p)
  PROVE  Steady(p) /\ Paths'
<1> DEFINE there == At("leased", rec[p].id)
<1>1. /\ pc[p] = "ackRename" /\ Next1(p) /\ rec' = [rec EXCEPT ![p] = NoFile]
      /\ files' = IF there = {} THEN files
                  ELSE {g \in files \ there : ~(g.place = "done" /\ g.id = rec[p].id)}
                       \cup {Moved(g, "done") : g \in there}
      /\ stale' = stale \cup OutdatedRename(p, there)
      /\ UNCHANGED <<backend, created, orders, todo, want, leases, lapsed, torn, late, fails, lapses, crashes>>
  BY DEF AckRename, Read, store, history
<1>2. backend = "fs" /\ rec[p] \in File /\ held[p] # <<>>
  BY <1>1, OwnFacts, ReadFacts DEF Carries, Ending
<1>3. stale' \subseteq Ids
  BY <1>1, <1>2, OutdatedIds DEF Sound, Typed, TypeOK
<1>4. \A g \in there : /\ g \in files /\ g \in File /\ g.id = rec[p].id /\ g.place = "leased"
                       /\ Moved(g, "done") \in File /\ Moved(g, "done").place = "done" /\ Moved(g, "done").id = g.id
                       /\ Moved(g, "done").order = g.order
  BY PlainFacts, Versions DEF At, In, Places
<1>5. files' \subseteq File
  BY <1>1, <1>4, PlainFacts
<1>6. Steady(p)
  BY <1>1, <1>2, <1>3, <1>5, PlainFacts, Next1Steady
<1>7. Paths'
  <2>1. \A f, g \in there : f = g
    BY <1>4 DEF Sound, Paths, SamePath
  <2>2. \A f \in files' : \/ f \in files
                          \/ /\ f.place = "done" /\ f.id <= created /\ f.order <= orders
                             /\ \A g \in files' : g.place = "done" /\ g.id = f.id => g = f
    BY <1>1, <1>4, <2>1 DEF Sound, Paths
  <2> HIDE DEF there
  <2> QED BY <1>1, <1>2, <2>2 DEF Sound, Paths, SamePath
<1> QED BY <1>6, <1>7

LEMMA SettleUnlinkSteady ==
  ASSUME Sound, NEW p \in Procs, UnlinkStaged(p) \/ ReviveUnlink(p)
  PROVE  Steady(p) /\ Paths'
<1>1. /\ \/ pc[p] \in {"commitUnlink", "discardUnlink"} /\ pc' = [pc EXCEPT ![p] = "idle"]
         \/ pc[p] = "reviveUnlink" /\ pc' = [pc EXCEPT ![p] = "revive"]
      /\ rec' = [rec EXCEPT ![p] = NoFile]
      /\ \E place \in {"staged", "leased"} :
            files' = files \ At(place, rec[p].id) /\ stale' = stale \cup OutdatedUnlink(p, At(place, rec[p].id))
      /\ UNCHANGED <<backend, created, orders, todo, want, held, leases, lapsed, torn, late, fails, lapses, crashes>>
  BY DEF UnlinkStaged, ReviveUnlink, Goto, Read, store, history
<1>2. backend = "fs" /\ rec[p] \in File
  BY <1>1, ReadFacts DEF Deciding, Reviving
<1>3. files' \subseteq files /\ files' \subseteq File /\ stale' \subseteq Ids
  BY <1>1, <1>2, UnlinkFacts
<1>4. Typed'
  BY <1>1, <1>3 DEF Sound, Typed, TypeOK, Pc
<1>5. Carries(p)'
  BY <1>1, <1>2, OwnFacts DEF Carries, Reviving, Leasing, Ending, Deciding
<1>6. Others(p)
  BY <1>1, OwnFacts, PlainFacts DEF Others
<1> QED BY <1>1, <1>3, <1>4, <1>5, <1>6, FewerPaths DEF Steady

LEMMA HandleSteady ==
  ASSUME Sound, NEW p \in Procs, HandleOk(p) \/ HandleThrows(p)
  PROVE  Steady(p) /\ Paths'
<1>1. /\ pc[p] = "run" /\ held[p] # <<>> /\ fails' \in Nat
      /\ UNCHANGED <<backend, created, todo, want, leases, lapsed, stale, torn, late, lapses, crashes>>
  BY OwnFacts, PlainFacts DEF HandleOk, HandleThrows, Carries, store, history
<1>2. \A f \in Mine(p) : /\ f \in files /\ f \in File /\ f.place = "leased" /\ f.id = InHand(p).id
                         /\ f.lease = InHand(p).lease /\ f.id <= created /\ f.order <= orders
  BY PlainFacts DEF Mine, At, In, Sound, Paths
<1>3. CASE backend = "fs" /\ \E f \in Mine(p) : /\ rec' = [rec EXCEPT ![p] = f] /\ UNCHANGED <<files, held, orders>>
                                               /\ \E label \in {"ackRename", "nackWrite"} : pc' = [pc EXCEPT ![p] = label]
  <2>1. PICK f \in Mine(p), label \in {"ackRename", "nackWrite"} :
           rec' = [rec EXCEPT ![p] = f] /\ pc' = [pc EXCEPT ![p] = label] /\ UNCHANGED <<files, held, orders>>
    BY <1>3
  <2>2. Typed'
    BY <1>1, <1>2, <2>1 DEF Sound, Typed, TypeOK, Pc
  <2>3. Carries(p)'
    BY <1>1, <1>2, <1>3, <2>1, OwnFacts DEF Carries, Reviving, Leasing, Ending, Deciding, InHand
  <2>4. Others(p)
    BY <1>1, <2>1, OwnFacts, PlainFacts DEF Others
  <2>5. Paths'
    BY <1>1, <2>1, FewerPaths
  <2> QED BY <2>2, <2>3, <2>4, <2>5 DEF Steady
<1>4. CASE Next1(p) /\ rec' = rec /\ files' = files /\ orders' = orders
  <2>1. Steady(p)
    BY <1>1, <1>4, PlainFacts, Next1Steady DEF Sound, Typed, TypeOK
  <2> QED BY <1>1, <1>4, <2>1, FewerPaths
<1>5. CASE /\ backend # "fs" /\ Next1(p) /\ rec' = rec /\ orders' \in {orders, orders + 1}
           /\ \E v \in [Mine(p) -> File] :
                /\ files' = (files \ Mine(p)) \cup {v[f] : f \in Mine(p)}
                /\ \A f \in Mine(p) : /\ v[f].id = f.id /\ v[f].order <= orders' /\ v[f] \notin Mine(p)
                                      /\ v[f].place \in {"active", "staged"} => v[f].lease = 0
  <2>1. PICK v \in [Mine(p) -> File] :
                /\ files' = (files \ Mine(p)) \cup {v[f] : f \in Mine(p)}
                /\ \A f \in Mine(p) : /\ v[f].id = f.id /\ v[f].order <= orders' /\ v[f] \notin Mine(p)
                                      /\ v[f].place \in {"active", "staged"} => v[f].lease = 0
    BY <1>5
  <2>2. files' \subseteq File /\ orders' \in Nat /\ orders <= orders'
    BY <1>5, <2>1, PlainFacts
  <2>3. Steady(p)
    BY <1>1, <1>5, <2>2, PlainFacts, Next1Steady DEF Sound, Typed, TypeOK
  <2>4. Typed'
    BY <2>3 DEF Steady
  <2>5. \A f, g \in Mine(p) : f.id = g.id => f = g
    BY <1>2, <1>5 DEF Sound, Paths
  <2>6. \A f \in Mine(p) : f \notin files'
    BY <2>1
  <2>7. \A h \in files' : h \in files \/ \E f \in Mine(p) : h = v[f]
    BY <2>1
  <2> QED BY <1>1, <1>2, <1>5, <2>1, <2>2, <2>3, <2>4, <2>5, <2>6, <2>7, VersionPaths
<1>6. \A f \in Mine(p) : /\ Acked(f) \in File /\ Acked(f).id = f.id /\ Acked(f).order = f.order /\ Acked(f).place = "done"
  BY <1>2 DEF Acked, FirestoreAcked, MemoryAcked, Moved, File, Places
<1>7. ASSUME NEW dead \in BOOLEAN, NEW f \in Mine(p)
      PROVE  /\ Nacked(f, dead) \in File /\ Nacked(f, dead).id = f.id /\ Nacked(f, dead).order <= orders + 1
             /\ Nacked(f, dead).place \in {"dead", "active"} /\ Nacked(f, dead).lease = 0
  <2>1. f \in File /\ f.order <= orders /\ f.order \in Nat /\ orders \in Nat /\ orders <= orders + 1 /\ orders + 1 \in Nat
        /\ f.order <= orders + 1
    BY <1>2, PlainFacts, Versions
  <2>2. CASE backend = "memory"
    BY <2>1, <2>2 DEF Nacked, MemoryNacked, Moved, File, Places
  <2>3. CASE backend # "memory" /\ dead
    BY <2>1, <2>3 DEF Nacked, FirestoreNacked, Moved, File, Places
  <2>4. CASE backend # "memory" /\ ~dead
    <3> DEFINE m == Moved(f, "active")
    <3>1. m \in File /\ m.id = f.id /\ m.place = "active"
      BY <2>1, Versions DEF Places
    <3>2. Nacked(f, dead) = [m EXCEPT !.lease = 0, !.order = orders + 1]
      BY <2>4 DEF Nacked, FirestoreNacked
    <3> HIDE DEF m
    <3>3. [m EXCEPT !.lease = 0, !.order = orders + 1] \in File
      BY <2>1, <3>1 DEF File
    <3>4. /\ Nacked(f, dead).id = m.id /\ Nacked(f, dead).order = orders + 1
          /\ Nacked(f, dead).place = m.place /\ Nacked(f, dead).lease = 0
      BY <3>1, <3>2 DEF File
    <3> QED BY <2>1, <3>1, <3>2, <3>3, <3>4
  <2> QED BY <2>2, <2>3, <2>4
<1>8. CASE HandleOk(p)
  <2>1. CASE Mine(p) # {} /\ backend # "fs"
    <3>1. /\ files' = (files \ Mine(p)) \cup {Acked(f) : f \in Mine(p)}
          /\ Next1(p) /\ rec' = rec /\ orders' = orders
      BY <1>8, <2>1 DEF HandleOk, store
    <3> DEFINE v == [f \in Mine(p) |-> Acked(f)]
    <3>2. v \in [Mine(p) -> File] /\ {Acked(f) : f \in Mine(p)} = {v[f] : f \in Mine(p)}
      BY <1>6
    <3>3. \A f \in Mine(p) : /\ v[f].id = f.id /\ v[f].order <= orders' /\ v[f] \notin Mine(p)
                             /\ v[f].place \in {"active", "staged"} => v[f].lease = 0
      BY <1>2, <1>6, <3>1
    <3> HIDE DEF v
    <3> QED BY <1>5, <2>1, <3>1, <3>2, <3>3
  <2>2. CASE Mine(p) # {} /\ backend = "fs"
    BY <1>3, <1>8, <2>2 DEF HandleOk, Read, Goto, store
  <2>3. CASE Mine(p) = {}
    BY <1>4, <1>8, <2>3 DEF HandleOk, store
  <2> QED BY <2>1, <2>2, <2>3
<1>9. CASE HandleThrows(p)
  <2>1. CASE Mine(p) # {} /\ backend # "fs"
    <3> DEFINE dead == Exhausted(InHand(p))
    <3>1. /\ files' = (files \ Mine(p)) \cup {Nacked(f, dead) : f \in Mine(p)}
          /\ Next1(p) /\ rec' = rec /\ orders' = orders + 1
      BY <1>9, <2>1 DEF HandleThrows
    <3>2. dead \in BOOLEAN
      BY DEF Exhausted
    <3> HIDE DEF dead
    <3> DEFINE v == [f \in Mine(p) |-> Nacked(f, dead)]
    <3>3. v \in [Mine(p) -> File] /\ {Nacked(f, dead) : f \in Mine(p)} = {v[f] : f \in Mine(p)}
      BY <1>7, <3>2
    <3>4. \A f \in Mine(p) : /\ v[f].id = f.id /\ v[f].order <= orders' /\ v[f] \notin Mine(p)
                             /\ v[f].place \in {"active", "staged"} => v[f].lease = 0
      BY <1>2, <1>7, <3>1, <3>2
    <3> HIDE DEF v
    <3> QED BY <1>5, <2>1, <3>1, <3>3, <3>4
  <2>2. CASE Mine(p) # {} /\ backend = "fs"
    BY <1>3, <1>9, <2>2 DEF HandleThrows, Read, Goto
  <2>3. CASE Mine(p) = {}
    BY <1>4, <1>9, <2>3 DEF HandleThrows
  <2> QED BY <2>1, <2>2, <2>3
<1> QED BY <1>8, <1>9

LEMMA SettleAtOnceSteady ==
  ASSUME Sound, NEW p \in Procs, NEW f \in In("staged"), CommitAtOnce(p, f) \/ DiscardAtOnce(p, f)
  PROVE  Steady(p) /\ Paths'
<1>1. f \in files /\ f \in File /\ f.place = "staged" /\ f.lease = 0 /\ f.order <= orders
  BY PlainFacts DEF In, Sound, Paths
<1>2. PICK g \in {Promoted(f), Moved(f, "dead")} :
        /\ files' = (files \ {f}) \cup {g} /\ orders' = orders + 1 /\ backend # "fs"
        /\ UNCHANGED <<backend, created, pc, todo, rec, want, held, leases, lapsed, stale, torn, history>>
  BY DEF CommitAtOnce, DiscardAtOnce, SettleStagedAtOnce
<1>3. orders \in Nat /\ orders' \in Nat /\ orders <= orders' /\ f.order <= orders'
  BY <1>1, <1>2, PlainFacts, Versions
<1>4. g \in File /\ g.id = f.id /\ g.order <= orders' /\ g.place \in {"active", "dead"} /\ g.lease = 0 /\ g # f
  BY <1>1, <1>2, <1>3, Versions DEF Places
<1>5. Typed'
  BY <1>2, <1>3, <1>4 DEF Sound, Typed, TypeOK, history
<1>6. Carries(p)'
  <2>1. rec[p] \in File => (rec[p].order <= orders => rec[p].order <= orders')
    BY <1>2, PlainFacts, Versions
  <2> QED BY <1>2, <2>1, OwnFacts DEF Carries, Expired, InHand
<1>7. Others(p)
  BY <1>2, <1>3, PlainFacts DEF Others
<1>8. Paths'
  BY <1>1, <1>2, <1>3, <1>4, <1>5, VersionPaths
<1> QED BY <1>5, <1>6, <1>7, <1>8 DEF Steady

(* What a lease changes.                                                   *)
LEMMA LeaseSteady ==
  ASSUME Sound, NEW p \in Procs, NEW f \in File, f.id <= created,
         leases' = [leases EXCEPT ![f.id] = @ + 1],
         held' = [held EXCEPT ![p] = Append(@, Leased(Stamped(f)))],
         pc'[p] \in {"scan", "run"}, pc' = [pc EXCEPT ![p] = pc'[p]],
         backend = "fs" => pc'[p] = "scan" /\ \A g \in todo'[p] : g.place = "active",
         todo' \in [Procs -> SUBSET File], rec' = rec \/ rec' = [rec EXCEPT ![p] = NoFile],
         \A q \in Procs \ {p} : todo'[q] = todo[q],
         files' \subseteq File, stale' \subseteq Ids,
         UNCHANGED <<backend, created, orders, want, lapsed, torn, history>>
  PROVE  Steady(p)
<1> DEFINE l == Leased(Stamped(f))
<1>1. /\ l \in Lease /\ l.id = f.id /\ l.lease = leases[f.id] + 1 /\ f.id \in Ids /\ leases[f.id] \in Nat
  BY Versions
<1>2. held[p] \in Seq(Lease)
  BY HeldLeases
<1> HIDE DEF l
<1>3. held' = [held EXCEPT ![p] = Append(held[p], l)]
  BY DEF l
<1>4. /\ Append(held[p], l) \in Seq(Lease) /\ Append(held[p], l) # <<>>
      /\ \A k \in DOMAIN Append(held[p], l) : (k \in DOMAIN held[p] /\ Append(held[p], l)[k] = held[p][k]) \/ Append(held[p], l)[k] = l
  <2>1. Len(held[p]) \in Nat /\ DOMAIN held[p] = 1..Len(held[p])
    BY <1>2, LenProperties
  <2>2. /\ Append(held[p], l) \in Seq(Lease) /\ Len(Append(held[p], l)) = Len(held[p]) + 1
        /\ \A i \in 1..Len(held[p]) : Append(held[p], l)[i] = held[p][i]
        /\ Append(held[p], l)[Len(held[p]) + 1] = l
    BY <1>1, <1>2, AppendProperties
  <2>3. DOMAIN Append(held[p], l) = 1..(Len(held[p]) + 1)
    BY <2>2, LenProperties
  <2>4. Append(held[p], l) # <<>>
    BY <2>1, <2>2
  <2>5. \A k \in 1..(Len(held[p]) + 1) : k \in 1..Len(held[p]) \/ k = Len(held[p]) + 1
    BY <2>1
  <2> QED BY <2>1, <2>2, <2>3, <2>4, <2>5
<1>5. Typed'
  <2>1. held' \in [Procs -> Seq(Lease)]
    BY <1>3, <1>4, OwnFacts
  <2>2. leases' \in [Ids -> Nat]
    BY <1>1 DEF Sound, Typed, TypeOK
  <2>3. pc' \in [Procs -> Pc] /\ rec' \in [Procs -> File \cup {NoFile}]
    <3>1. pc'[p] \in Pc
      BY DEF Pc
    <3> QED BY <3>1, OwnFacts
  <2> QED BY <2>1, <2>2, <2>3 DEF Sound, Typed, TypeOK, history
<1>6. /\ \A i \in Ids : leases[i] <= leases'[i] /\ leases'[i] \in Nat
      /\ leases'[f.id] = leases[f.id] + 1
  BY <1>1 DEF Sound, Typed, TypeOK
<1>7. Others(p)
  BY <1>3, <1>6, OwnFacts, PlainFacts DEF Others
<1>8. Carries(p)'
  <2>1. held'[p] = Append(held[p], l)
    BY <1>3, OwnFacts
  <2>2. \A k \in DOMAIN held'[p] : held'[p][k] = l \/ (k \in DOMAIN held[p] /\ held'[p][k] = held[p][k])
    BY <1>4, <2>1
  <2>3. ASSUME NEW k \in DOMAIN held[p] PROVE held[p][k].lease <= leases'[held[p][k].id] /\ held[p][k].id <= created
    <3>1. held[p][k].id \in Ids /\ held[p][k].lease \in Nat \ {0} /\ held[p][k].lease <= leases[held[p][k].id] /\ held[p][k].id <= created
      BY HeldLeases
    <3>2. leases[held[p][k].id] \in Nat
      BY <3>1, PlainFacts
    <3> QED BY <1>6, <3>1, <3>2
  <2>4. l.lease <= leases'[l.id] /\ l.id <= created
    BY <1>1, <1>6
  <2>5. held'[p] # <<>>
    BY <1>4, <2>1
  <2>6. \A k \in DOMAIN held'[p] : held'[p][k].id <= created' /\ held'[p][k].lease <= leases'[held'[p][k].id]
    BY <2>2, <2>3, <2>4
  <2> QED BY <2>5, <2>6, OwnFacts DEF Carries, Reviving, Leasing, Ending, Deciding
<1> QED BY <1>5, <1>7, <1>8 DEF Steady

LEMMA FsStampSteady ==
  ASSUME Sound, NEW p \in Procs, FsStamp(p)
  PROVE  Steady(p) /\ Paths'
<1> DEFINE f == rec[p]
<1>1. /\ pc[p] = "stamp" /\ pc' = [pc EXCEPT ![p] = "scan"] /\ rec' = [rec EXCEPT ![p] = NoFile]
      /\ stale' = stale \cup (IF Moved(f, "leased") \in files THEN {} ELSE {Stamped(f).id})
      /\ files' = Put(files, Stamped(f))
      /\ held' = [held EXCEPT ![p] = Append(@, Leased(Stamped(f)))]
      /\ leases' = [leases EXCEPT ![Stamped(f).id] = @ + 1]
      /\ UNCHANGED <<backend, created, orders, todo, want, lapsed, torn, history>>
  BY DEF FsStamp, Goto, Read, store
<1>2. backend = "fs" /\ f \in File /\ f.id <= created /\ f.order <= orders /\ \A g \in todo[p] : g.place = "active"
  BY <1>1, ReadFacts, OwnFacts DEF Carries, Leasing
<1> HIDE DEF f
<1>3. Stamped(f) \in File /\ Stamped(f).id = f.id /\ Stamped(f).order = f.order /\ Stamped(f).place = "leased" /\ f.id \in Ids
  BY <1>2, Versions
<1>4. files' \subseteq File /\ stale' \subseteq Ids
  BY <1>1, <1>3, PlainFacts DEF Put, Sound, Typed, TypeOK
<1>5. pc'[p] = "scan" /\ todo' \in [Procs -> SUBSET File] /\ leases' = [leases EXCEPT ![f.id] = @ + 1]
  BY <1>1, <1>3, OwnFacts
<1>6. Steady(p)
  BY <1>1, <1>2, <1>4, <1>5, LeaseSteady
<1>7. Paths'
  <2>1. Typed'
    BY <1>6 DEF Steady
  <2> QED BY <1>1, <1>2, <1>3, <2>1, PlainFacts, PutPaths
<1> QED BY <1>6, <1>7

LEMMA FsClaimSteady ==
  ASSUME Sound, NEW p \in Procs, FsClaim(p)
  PROVE  Steady(p) /\ Paths'
<1> DEFINE there == {g \in files : SamePath(rec[p], g)}
<1>1. /\ pc[p] = "claim"
      /\ UNCHANGED <<backend, created, orders, todo, want, held, leases, lapsed, torn, history>>
      /\ \/ pc' = [pc EXCEPT ![p] = "scan"] /\ rec' = [rec EXCEPT ![p] = NoFile] /\ UNCHANGED <<files, stale>>
         \/ /\ files' = {g \in files \ there : ~(g.place = "leased" /\ g.id = rec[p].id)}
                        \cup {Moved(g, "leased") : g \in there}
            /\ stale' = stale \cup OutdatedRename(p, there)
            /\ pc' = [pc EXCEPT ![p] = "stamp"] /\ rec' = rec
  BY DEF FsClaim, Goto, Read, store
<1>2. backend = "fs" /\ rec[p] \in File /\ OutdatedRename(p, there) \subseteq Ids
  BY <1>1, ReadFacts, OutdatedIds DEF Leasing
<1>3. \A g \in there : /\ g \in files /\ g \in File /\ g.id = rec[p].id
                       /\ Moved(g, "leased") \in File /\ Moved(g, "leased").place = "leased"
                       /\ Moved(g, "leased").id = g.id /\ Moved(g, "leased").order = g.order
  BY PlainFacts, Versions DEF SamePath, Places
<1>4. \A f, g \in there : f = g
  BY <1>3 DEF Sound, Paths, SamePath
<1> HIDE DEF there
<1>5. files' \subseteq File /\ stale' \subseteq Ids
  BY <1>1, <1>2, <1>3, PlainFacts DEF Sound, Typed, TypeOK
<1>6. Typed'
  BY <1>1, <1>5 DEF Sound, Typed, TypeOK, history, Pc
<1>7. Carries(p)'
  BY <1>1, <1>2, OwnFacts, ZenonT(30) DEF Carries, Reviving, Leasing, Ending, Deciding, Expired, InHand
<1>8. Others(p)
  BY <1>1, OwnFacts, PlainFacts DEF Others
<1>9. Paths'
  <2>1. \A f \in files' : \/ f \in files
                          \/ /\ f.place = "leased" /\ f.id <= created /\ f.order <= orders
                             /\ \A g \in files' : g.place = "leased" /\ g.id = f.id => g = f
    BY <1>1, <1>3, <1>4 DEF Sound, Paths
  <2> QED BY <1>1, <1>2, <2>1 DEF Sound, Paths, SamePath
<1> QED BY <1>6, <1>7, <1>8, <1>9 DEF Steady

(* What the beginning of a memory lease does: the expired ones lose their  *)
(* token.                                                                  *)
LEMMA ClearedFacts ==
  ASSUME Sound, NEW f \in files
  PROVE  /\ Cleared(f) \in File /\ Cleared(f).id = f.id /\ Cleared(f).order = f.order
         /\ Cleared(f).attempt = f.attempt /\ Cleared(f).key = f.key
         /\ \/ Cleared(f) = f
            \/ f.place = "leased" /\ Expired(f) /\ Cleared(f).place = "active" /\ Cleared(f).lease = 0
         /\ Cleared(f).place \in {"active", "staged"} => Cleared(f).lease = 0
<1>1. f \in File /\ (f.place \in {"active", "staged"} => f.lease = 0)
  BY PlainFacts DEF Sound, Paths
<1> QED BY <1>1 DEF Cleared, File, Places

LEMMA MemoryLeaseSteady ==
  ASSUME Sound, NEW p \in Procs, MemoryLease(p)
  PROVE  Steady(p) /\ Paths'
<1> DEFINE list == {Cleared(f) : f \in {g \in files : Visible(g)}}
<1>1. /\ pc' = [pc EXCEPT ![p] = "scan"] /\ backend = "memory" /\ pc[p] = "idle"
      /\ want' = [want EXCEPT ![p].goal = "lease"] /\ todo' = [todo EXCEPT ![p] = list]
      /\ files' = {Cleared(f) : f \in files}
      /\ UNCHANGED <<backend, created, orders, rec, held, leases, lapsed, stale, torn, history>>
  BY DEF MemoryLease, Goto, List, store
<1>2. files' \subseteq File /\ list \subseteq File
  BY <1>1, ClearedFacts
<1>3. want' \in [Procs -> Want] /\ want'[p].goal = "lease" /\ \A q \in Procs \ {p} : want'[q] = want[q]
  BY <1>1, OwnFacts DEF Want
<1> HIDE DEF list
<1>4. todo' \in [Procs -> SUBSET File] /\ \A q \in Procs \ {p} : todo'[q] = todo[q]
  BY <1>1, <1>2, OwnFacts
<1>5. Typed'
  BY <1>1, <1>2, <1>3, <1>4, ZenonT(30) DEF Sound, Typed, TypeOK, history, Pc
<1>6. Carries(p)'
  BY <1>1, <1>3, OwnFacts DEF Carries, Reviving, Leasing, Ending, Deciding
<1>7. Others(p)
  BY <1>1, <1>3, <1>4, OwnFacts, PlainFacts DEF Others
<1>8. Paths'
  <2>1. \A g, h \in files : g.id = h.id => g = h
    BY <1>1 DEF Sound, Paths
  <2>2. \A h \in files' : \E g \in files : h = Cleared(g) /\ g.id = h.id
    BY <1>1, ClearedFacts
  <2>3. \A h, g \in files' : h.id = g.id => h = g
    BY <2>1, <2>2
  <2>4. \A h \in files' : h.id <= created' /\ h.order <= orders' /\ (h.place \in {"active", "staged"} => h.lease = 0)
    <3>1. \A g \in files : g.id <= created /\ g.order <= orders
      BY DEF Sound, Paths
    <3> QED BY <1>1, <2>2, <3>1, ClearedFacts
  <2> QED BY <2>3, <2>4 DEF Paths, SamePath
<1> QED BY <1>5, <1>6, <1>7, <1>8 DEF Steady

(* What a claim does to the document or entry.                             *)
LEMMA LeaseNextFacts ==
  ASSUME Sound, NEW p \in Procs, LeaseNext(p)
  PROVE  /\ backend # "fs" /\ pc[p] = "scan"
         /\ \E f \in todo[p] : todo' = [todo EXCEPT ![p] = todo[p] \ {f}]
         /\ UNCHANGED <<backend, created, orders, pc, rec, want, lapsed, stale, torn, history>>
         /\ \/ UNCHANGED <<files, held, leases>>
            \/ \E g \in files : /\ Visible(g) /\ files' = (files \ {g}) \cup {Stamped(g)}
                                /\ held' = [held EXCEPT ![p] = Append(@, Leased(Stamped(g)))]
                                /\ leases' = [leases EXCEPT ![g.id] = @ + 1]
<1>1. PICK f \in todo[p] :
       /\ todo' = [todo EXCEPT ![p] = todo[p] \ {f}]
       /\ IF \E g \in files : g.id = f.id /\ Visible(g)
          THEN LET g == CHOOSE g \in files : g.id = f.id /\ Visible(g) IN
               /\ files' = (files \ {g}) \cup {Stamped(g)}
               /\ held' = [held EXCEPT ![p] = Append(@, Leased(Stamped(g)))]
               /\ leases' = [leases EXCEPT ![g.id] = @ + 1]
          ELSE UNCHANGED <<files, held, leases>>
  BY DEF LeaseNext, List
<1>2. CASE \E g \in files : g.id = f.id /\ Visible(g)
  <2> DEFINE g == CHOOSE g \in files : g.id = f.id /\ Visible(g)
  <2>1. g \in files /\ Visible(g)
    BY <1>2
  <2>2. /\ files' = (files \ {g}) \cup {Stamped(g)}
        /\ held' = [held EXCEPT ![p] = Append(@, Leased(Stamped(g)))]
        /\ leases' = [leases EXCEPT ![g.id] = @ + 1]
    BY <1>1, <1>2
  <2> HIDE DEF g
  <2> QED BY <1>1, <2>1, <2>2 DEF LeaseNext, store
<1>3. CASE ~ \E g \in files : g.id = f.id /\ Visible(g)
  BY <1>1, <1>3 DEF LeaseNext, store
<1> QED BY <1>2, <1>3

LEMMA LeaseNextSteady ==
  ASSUME Sound, NEW p \in Procs, LeaseNext(p)
  PROVE  Steady(p) /\ Paths'
<1>1. /\ backend # "fs" /\ pc[p] = "scan"
      /\ \E f \in todo[p] : todo' = [todo EXCEPT ![p] = todo[p] \ {f}]
      /\ UNCHANGED <<backend, created, orders, pc, rec, want, lapsed, stale, torn, history>>
  BY LeaseNextFacts
<1>2. todo' \in [Procs -> SUBSET File] /\ (\A q \in Procs \ {p} : todo'[q] = todo[q])
      /\ pc'[p] = "scan" /\ pc' = [pc EXCEPT ![p] = pc'[p]]
  BY <1>1, OwnFacts
<1>3. CASE UNCHANGED <<files, held, leases>>
  <2>1. Typed'
    BY <1>1, <1>2, <1>3 DEF Sound, Typed, TypeOK, history
  <2>2. Carries(p)'
    BY <1>1, <1>2, <1>3, OwnFacts DEF Carries, Reviving, Leasing, Ending, Deciding
  <2>3. Others(p)
    BY <1>1, <1>2, <1>3, PlainFacts DEF Others
  <2> QED BY <1>1, <1>3, <2>1, <2>2, <2>3, FewerPaths DEF Steady
<1>4. CASE \E g \in files : /\ Visible(g) /\ files' = (files \ {g}) \cup {Stamped(g)}
                            /\ held' = [held EXCEPT ![p] = Append(@, Leased(Stamped(g)))]
                            /\ leases' = [leases EXCEPT ![g.id] = @ + 1]
  <2>1. PICK g \in files : /\ files' = (files \ {g}) \cup {Stamped(g)}
                           /\ held' = [held EXCEPT ![p] = Append(@, Leased(Stamped(g)))]
                           /\ leases' = [leases EXCEPT ![g.id] = @ + 1]
    BY <1>4
  <2>2. /\ g \in File /\ g.id <= created /\ g.order <= orders /\ g.attempt \in Nat
        /\ Stamped(g) \in File /\ Stamped(g).id = g.id /\ Stamped(g).order = g.order
        /\ Stamped(g).place = "leased" /\ Stamped(g).attempt = g.attempt + 1
    BY PlainFacts, Versions DEF Sound, Paths
  <2>3. files' \subseteq File /\ stale' \subseteq Ids
    BY <1>1, <2>1, <2>2, PlainFacts DEF Sound, Typed, TypeOK
  <2>4. Steady(p)
    BY <1>1, <1>2, <2>1, <2>2, <2>3, LeaseSteady
  <2>5. Typed'
    BY <2>4 DEF Steady
  <2>6. g # Stamped(g)
    BY <2>2
  <2>7. Paths'
    BY <1>1, <2>1, <2>2, <2>5, <2>6, PlainFacts, VersionPaths
  <2> QED BY <2>4, <2>7
<1> QED BY <1>3, <1>4, LeaseNextFacts

LEMMA LapseSound ==
  ASSUME Sound, NEW id \in Ids, NEW token \in 1..leases[id], Lapse(id, token) \/ LapseAbandoned(id, token)
  PROVE  Sound'
<1>1. /\ lapsed' = lapsed \cup {<<id, token>>} /\ late' \in {late, late \cup {id}} /\ lapses' \in {lapses, lapses + 1}
      /\ UNCHANGED <<store, files, pc, todo, rec, want, held, leases, stale, torn, fails, crashes>>
  BY DEF Lapse, LapseAbandoned, history
<1>2. token \in Nat \ {0} /\ lapses' \in Nat
  BY <1>1, PlainFacts
<1>3. Typed'
  BY <1>1, <1>2 DEF Sound, Typed, TypeOK, store
<1>4. Paths'
  BY <1>1, FewerPaths DEF store
<1>5. ASSUME NEW p \in Procs PROVE Carries(p)'
  BY <1>1, OwnFacts DEF Carries, store, Expired, InHand
<1> QED BY <1>3, <1>4, <1>5 DEF Sound

(* One step of one process.                                                *)
LEMMA QuietPaths ==
  ASSUME Sound, UNCHANGED <<backend, created, orders, files>>
  PROVE  Paths'
BY FewerPaths

Step(p) == Produce(p) \/ Tick(p) \/ Work(p) \/ HandleThrows(p) \/ Crash(p) \/ Restart(p)

LEMMA StepSteady ==
  ASSUME Sound, NEW p \in Procs, Step(p)
  PROVE  Steady(p) /\ Paths'
<1>1. CASE Produce(p)
  <2>1. CASE Enqueue(p) \/ \E place \in Kinds[backend] \ {"plain"}, key \in Keys : MemoryCreateIfAbsent(p, place, key)
    BY <2>1, EnqueueSteady
  <2>2. CASE \E place \in Kinds[backend] \ {"plain"}, key \in Keys : BeginCreate(p, place, key)
    <3>1. PICK place \in Kinds[backend] \ {"plain"}, key \in Keys : BeginCreate(p, place, key)
      BY <2>2
    <3>2. Steady(p)
      BY <3>1, BeginCreateSteady
    <3> QED BY <3>1, <3>2, QuietPaths DEF BeginCreate, store
  <2>3. CASE \E f \in In("staged") : SettleStaged(p, f, "commitWrite") \/ SettleStaged(p, f, "discardWrite")
    <3>1. PICK f \in In("staged") : SettleStaged(p, f, "commitWrite") \/ SettleStaged(p, f, "discardWrite")
      BY <2>3
    <3>2. Steady(p)
      BY <3>1, SettleStagedSteady
    <3> QED BY <3>1, <3>2, QuietPaths DEF SettleStaged, store
  <2>4. CASE \E f \in In("staged") : CommitAtOnce(p, f) \/ DiscardAtOnce(p, f)
    BY <2>4, SettleAtOnceSteady
  <2> QED BY <1>1, <2>1, <2>2, <2>3, <2>4 DEF Produce
<1>2. CASE Tick(p)
  <2>1. CASE BeginLease(p)
    BY <2>1, BeginLeaseSteady, QuietPaths DEF BeginLease, store
  <2>2. CASE MemoryLease(p)
    BY <2>2, MemoryLeaseSteady
  <2> QED BY <1>2, <2>1, <2>2 DEF Tick
<1>3. CASE CheckAbsent(p) \/ ReviveRead(p) \/ EndRevive(p) \/ FsRead(p) \/ EndScan(p)
  <2>1. Steady(p)
    BY <1>3, CheckAbsentSteady, ReviveReadSteady, EndReviveSteady, FsReadSteady, EndScanSteady
  <2>2. UNCHANGED <<backend, created, orders, files>>
    BY <1>3 DEF CheckAbsent, ReviveRead, EndRevive, FsRead, EndScan, store
  <2> QED BY <2>1, <2>2, QuietPaths
<1>4. CASE WriteAbsent(p) \/ CommitWrite(p) \/ DiscardWrite(p) \/ UnlinkStaged(p) \/ ReviveWrite(p) \/ ReviveUnlink(p)
  BY <1>4, WriteAbsentSteady, CommitWriteSteady, DiscardWriteSteady, SettleUnlinkSteady
<1>5. CASE FsClaim(p) \/ FsStamp(p) \/ LeaseNext(p) \/ AckRename(p) \/ NackWrite(p) \/ NackUnlink(p)
  BY <1>5, FsClaimSteady, FsStampSteady, LeaseNextSteady, AckRenameSteady, NackWriteSteady, NackUnlinkSteady
<1>6. CASE HandleOk(p) \/ HandleThrows(p)
  BY <1>6, HandleSteady
<1>7. CASE Crash(p) \/ Restart(p)
  BY <1>7, CrashSteady, RestartSteady, QuietPaths DEF Crash, Restart, store
<1> QED BY <1>1, <1>2, <1>3, <1>4, <1>5, <1>6, <1>7 DEF Step, Work, Effect, FirestoreClaim, MemoryClaim

LEMMA SoundInit ==
  ASSUME Init
  PROVE  Sound
<1>1. TypeOK
  <2>1. backend \in Backends /\ MaxMessages[backend] \in Nat /\ 0 \in 0..MaxMessages[backend]
    BY QueueAssumption DEF Init
  <2>2. NoWant \in Want /\ <<>> \in Seq(Lease)
    BY DEF NoWant, Want
  <2> QED BY <2>1, <2>2 DEF Init, TypeOK, Pc
<1>2. todo \in [Procs -> SUBSET File] /\ Paths
  BY DEF Init, Paths
<1>3. \A p \in Procs : Carries(p)
  BY DEF Init, Carries, Reviving, Leasing, Ending, Deciding
<1> QED BY <1>1, <1>2, <1>3 DEF Sound, Typed

LEMMA SoundStep ==
  ASSUME Sound, [Next]_vars
  PROVE  Sound'
<1>1. ASSUME NEW p \in Procs, Step(p) PROVE Sound'
  <2>1. Typed' /\ Carries(p)' /\ Others(p) /\ Paths'
    BY <1>1, StepSteady DEF Steady
  <2>2. ASSUME NEW q \in Procs \ {p} PROVE Carries(q)'
    BY <2>1, OthersCarry DEF Sound
  <2> QED BY <2>1, <2>2 DEF Sound
<1>2. CASE UNCHANGED vars
  <2>1. Typed'
    BY <1>2 DEF Sound, Typed, TypeOK, vars
  <2>2. Paths'
    BY <1>2, QuietPaths DEF vars
  <2>3. ASSUME NEW p \in Procs PROVE Carries(p)'
    BY <1>2, OwnFacts DEF Carries, Expired, InHand, vars
  <2> QED BY <2>1, <2>2, <2>3 DEF Sound
<1> QED BY <1>1, <1>2, LapseSound DEF Next, Abandoned, Step

(* What the store and the processes keep in memory is what the code says   *)
(* it is, in all three implementations.                                    *)
THEOREM TypeCorrect == Spec => []TypeOK
<1>1. Init => Sound
  BY SoundInit
<1>2. Sound /\ [Next]_vars => Sound'
  BY SoundStep
<1>3. Sound => TypeOK
  BY DEF Sound, Typed
<1> QED BY <1>1, <1>2, <1>3, PTL DEF Spec

----------------------------------------------------------------------------
(* Keys.  Of the messages of the Map that are not settled no two bear the  *)
(* same key.                                                               *)
Live(f) == f.place \in {"active", "leased", "staged"}

KeysInv == backend = "memory" =>
  \A f, g \in files : Live(f) /\ Live(g) /\ f.key = g.key /\ f.key # NoKey => f = g

LEMMA KeysKept ==
  ASSUME Sound, KeysInv, Paths', backend' = backend, backend = "memory",
         \A h \in files' : \E g \in files : g.id = h.id /\ g.key = h.key /\ (Live(h) => Live(g))
  PROVE  KeysInv'
<1> SUFFICES ASSUME NEW f \in files', NEW g \in files', Live(f), Live(g), f.key = g.key, f.key # NoKey
             PROVE  f = g
  BY DEF KeysInv, Live
<1>1. PICK a \in files : a.id = f.id /\ a.key = f.key /\ Live(a)
  OBVIOUS
<1>2. PICK b \in files : b.id = g.id /\ b.key = g.key /\ Live(b)
  OBVIOUS
<1>3. a = b
  BY <1>1, <1>2 DEF KeysInv
<1> QED BY <1>1, <1>2, <1>3 DEF Paths

LEMMA KeysCreated ==
  ASSUME Sound, KeysInv, backend' = backend, backend = "memory", NEW f \in File,
         files' \subseteq files \cup {f}, f.key = NoKey \/ Pending(f.key) = {}
  PROVE  KeysInv'
<1>1. \A g \in files : Live(g) /\ g.key = f.key => f.key = NoKey
  BY DEF Pending, Live
<1> QED BY <1>1 DEF KeysInv, Live

LEMMA KeysStep ==
  ASSUME Sound, KeysInv, NEW p \in Procs, Step(p)
  PROVE  KeysInv'
<1>1. Paths' /\ backend' = backend
  BY StepSteady DEF Steady, Others
<1> SUFFICES ASSUME backend = "memory" PROVE KeysInv'
  BY <1>1 DEF KeysInv
<1>2. pc[p] \in {"idle", "scan", "run"}
  BY OwnFacts DEF Carries
<1>3. ASSUME NEW place \in {"active", "staged"}, NEW key \in Keys \cup {NoKey}, Create(p, place, key),
             key = NoKey \/ Pending(key) = {}
      PROVE  KeysInv'
  <2>1. created < MaxMessages[backend] /\ files' = Put(files, NewFile(place, key))
    BY <1>3 DEF Create
  <2>2. NewFile(place, key) \in File /\ NewFile(place, key).key = key
    BY <2>1, NewFileType
  <2> QED BY <1>1, <1>3, <2>1, <2>2, KeysCreated DEF Put
<1>4. CASE Produce(p)
  <2>1. CASE Enqueue(p)
    BY <1>3, <2>1 DEF Enqueue
  <2>2. CASE \E place \in Kinds[backend] \ {"plain"}, key \in Keys : MemoryCreateIfAbsent(p, place, key)
    <3>1. PICK place \in Kinds[backend] \ {"plain"}, key \in Keys : Create(p, place, key) /\ Pending(key) = {}
      BY <2>2 DEF MemoryCreateIfAbsent
    <3>2. place \in {"active", "staged"}
      BY QueueAssumption, PlainFacts
    <3> QED BY <1>3, <3>1, <3>2
  <2>3. CASE \E f \in In("staged") : CommitAtOnce(p, f) \/ DiscardAtOnce(p, f)
    <3>1. PICK f \in In("staged") : CommitAtOnce(p, f) \/ DiscardAtOnce(p, f)
      BY <2>3
    <3>2. f \in files /\ f.place = "staged" /\ f \in File
      BY PlainFacts DEF In
    <3>3. PICK g \in {Promoted(f), Moved(f, "dead")} : files' = (files \ {f}) \cup {g}
      BY <3>1 DEF CommitAtOnce, DiscardAtOnce, SettleStagedAtOnce
    <3>4. g.id = f.id /\ g.key = f.key /\ Live(f)
      BY <3>2, Versions DEF Places, Live
    <3> QED BY <1>1, <3>2, <3>3, <3>4, KeysKept
  <2> QED BY <1>4, <2>1, <2>2, <2>3 DEF Produce, BeginCreate, SettleStaged
<1>5. CASE Tick(p)
  <2>1. files' = {Cleared(f) : f \in files}
    BY <1>5 DEF Tick, BeginLease, MemoryLease
  <2>2. \A g \in files : Cleared(g).id = g.id /\ Cleared(g).key = g.key /\ (Live(Cleared(g)) => Live(g))
    BY ClearedFacts DEF Live
  <2> QED BY <1>1, <2>1, <2>2, KeysKept
<1>6. CASE HandleOk(p) \/ HandleThrows(p)
  <2>1. \A f \in Mine(p) : f \in files /\ f \in File /\ f.place = "leased"
    BY PlainFacts DEF Mine, At, In
  <2>2. \A f \in Mine(p) : /\ Acked(f).id = f.id /\ Acked(f).key = f.key
                           /\ \A dead \in BOOLEAN : Nacked(f, dead).id = f.id /\ Nacked(f, dead).key = f.key
    BY <2>1 DEF Acked, MemoryAcked, Nacked, MemoryNacked, Moved, File
  <2>3. Exhausted(InHand(p)) \in BOOLEAN
    BY DEF Exhausted
  <2>4. \A h \in files' : \/ h \in files
                          \/ \E f \in Mine(p) : h \in {Acked(f), Nacked(f, Exhausted(InHand(p)))}
    BY <1>6 DEF HandleOk, HandleThrows
  <2>5. \A f \in Mine(p) : Live(f)
    BY <2>1 DEF Live
  <2> QED BY <1>1, <2>1, <2>2, <2>3, <2>4, <2>5, KeysKept
<1>7. CASE Effect(p)
  <2>1. CASE LeaseNext(p)
    <3>1. \A g \in files : Stamped(g).id = g.id /\ Stamped(g).key = g.key
      BY PlainFacts, Versions
    <3>2. \A g \in files : Visible(g) => Live(g)
      BY DEF Visible, Live
    <3>3. files' = files \/ \E g \in files : Visible(g) /\ files' = (files \ {g}) \cup {Stamped(g)}
      BY <2>1, LeaseNextFacts
    <3> QED BY <1>1, <3>1, <3>2, <3>3, KeysKept
  <2>2. CASE EndScan(p)
    BY <1>1, <2>2, KeysKept DEF EndScan
  <2> QED BY <1>2, <1>7, <2>1, <2>2
          DEF Effect, CheckAbsent, WriteAbsent, CommitWrite, DiscardWrite, UnlinkStaged, ReviveRead, ReviveWrite,
              ReviveUnlink, EndRevive, FsRead, FsClaim, FsStamp, FirestoreClaim, MemoryClaim, AckRename, NackWrite,
              NackUnlink
<1>8. CASE Crash(p) \/ Restart(p)
  BY <1>2, <1>8 DEF Crash, Restart
<1> QED BY <1>4, <1>5, <1>6, <1>7, <1>8 DEF Step, Work

LEMMA KeysNext ==
  ASSUME Sound, KeysInv, [Next]_vars
  PROVE  KeysInv'
<1>1. ASSUME NEW p \in Procs, Step(p) PROVE KeysInv'
  BY <1>1, KeysStep
<1>2. UNCHANGED <<files, backend>> => KeysInv'
  BY DEF KeysInv, Live
<1>3. UNCHANGED vars => UNCHANGED <<files, backend>>
  BY DEF vars
<1> QED BY <1>1, <1>2, <1>3 DEF Next, Abandoned, Step, Lapse, LapseAbandoned, store

LEMMA AtMostOne ==
  ASSUME NEW S, \A x, y \in S : x = y
  PROVE  Cardinality(S) <= 1
<1>1. CASE S = {}
  BY <1>1, FS_EmptySet
<1>2. CASE S # {}
  <2>1. PICK x \in S : TRUE
    BY <1>2
  <2>2. S = {x}
    BY <2>1
  <2> QED BY <2>2, FS_Singleton
<1> QED BY <1>1, <1>2

(* At most one message with a key is pending in the Map: enqueueIfAbsent   *)
(* and stage look and insert in one step, and nothing brings a settled     *)
(* message back.                                                           *)
THEOREM KeysAreUnique == Spec => []UniqueKey
<1>1. Init => Sound /\ KeysInv
  <2>1. Init => KeysInv
    BY DEF Init, KeysInv
  <2> QED BY <2>1, SoundInit
<1>2. Sound /\ KeysInv /\ [Next]_vars => (Sound /\ KeysInv)'
  BY SoundStep, KeysNext
<1>3. KeysInv => UniqueKey
  <2> SUFFICES ASSUME KeysInv, backend = "memory", NEW key \in Keys
               PROVE  Cardinality({f \in files : f.key = key /\ f.place \in {"active", "leased", "staged"}}) <= 1
    BY DEF UniqueKey
  <2>1. key # NoKey
    BY QueueAssumption
  <2> DEFINE S == {f \in files : f.key = key /\ f.place \in {"active", "leased", "staged"}}
  <2>2. \A f, g \in S : f = g
    BY <2>1 DEF KeysInv, Live
  <2> HIDE DEF S
  <2>3. Cardinality(S) <= 1
    BY <2>2, AtMostOne
  <2> QED BY <2>3 DEF S
<1> QED BY <1>1, <1>2, <1>3, PTL DEF Spec

----------------------------------------------------------------------------
(* Staged files have one owner, tokens are given out once and only to      *)
(* messages that were created.                                             *)
Owners == \A p \in Procs : pc[p] \in Deciding =>
            /\ rec[p] \in files
            /\ \A q \in Procs : pc[q] \in Deciding /\ rec[q].id = rec[p].id => q = p
Given  == /\ \A i \in Ids : i > created => leases[i] = 0
          /\ \A i \in Ids, t \in Nat : <<i, t>> \in lapsed => t <= leases[i]
Tokens == \A p, q \in Procs : \A k \in DOMAIN held[p], m \in DOMAIN held[q] :
            held[p][k].id = held[q][m].id /\ held[p][k].lease = held[q][m].lease => p = q /\ k = m
Ledger == Owners /\ Given /\ Tokens

(* A step of p grants a lease, ends one, loses all or leaves them alone.   *)
Grants(p, f) ==
  /\ f \in File /\ f.id <= created
  /\ held' = [held EXCEPT ![p] = Append(held[p], Leased(Stamped(f)))]
  /\ leases' = [leases EXCEPT ![f.id] = @ + 1]

LEMMA HeldEffect ==
  ASSUME Sound, NEW p \in Procs, Step(p)
  PROVE  \/ held' = held /\ leases' = leases
         \/ held[p] # <<>> /\ Next1(p) /\ leases' = leases
         \/ \E f \in File : Grants(p, f)
         \/ held' = [held EXCEPT ![p] = <<>>] /\ leases' = leases
<1>1. CASE MemoryLease(p)
  BY <1>1 DEF MemoryLease
<1>2. CASE FsStamp(p)
  <2>1. rec[p] \in File /\ rec[p].id <= created
    BY <1>2, ReadFacts DEF FsStamp, Leasing
  <2>2. Stamped(rec[p]).id = rec[p].id
    BY <2>1, Versions
  <2>3. Grants(p, rec[p])
    BY <1>2, <2>1, <2>2 DEF FsStamp, Grants
  <2> QED BY <2>1, <2>3
<1>3. CASE LeaseNext(p)
  <2>1. \A g \in files : g \in File /\ g.id <= created
    BY PlainFacts DEF Sound, Paths
  <2>2. UNCHANGED <<files, held, leases>> \/ \E g \in files : Grants(p, g)
    BY <1>3, <2>1, LeaseNextFacts DEF Grants
  <2> QED BY <2>1, <2>2
<1>4. CASE HandleOk(p) \/ HandleThrows(p) \/ AckRename(p) \/ NackUnlink(p)
  <2>1. held[p] # <<>>
    BY <1>4, OwnFacts DEF HandleOk, HandleThrows, AckRename, NackUnlink, Carries, Ending
  <2> QED BY <1>4, <2>1 DEF HandleOk, HandleThrows, AckRename, NackUnlink
<1>5. CASE Crash(p)
  BY <1>5 DEF Crash
<1>6. CASE Produce(p)
  BY <1>6 DEF Produce, Enqueue, MemoryCreateIfAbsent, BeginCreate, SettleStaged, CommitAtOnce, DiscardAtOnce, SettleStagedAtOnce
<1>7. CASE BeginLease(p) \/ Restart(p)
  BY <1>7 DEF BeginLease, Restart
<1>8. CASE \/ CheckAbsent(p) \/ WriteAbsent(p)
           \/ CommitWrite(p) \/ DiscardWrite(p) \/ UnlinkStaged(p)
           \/ ReviveRead(p) \/ ReviveWrite(p) \/ ReviveUnlink(p) \/ EndRevive(p)
           \/ FsRead(p) \/ FsClaim(p) \/ EndScan(p) \/ NackWrite(p)
  BY <1>8 DEF CheckAbsent, WriteAbsent, CommitWrite, DiscardWrite, UnlinkStaged, ReviveRead, ReviveWrite,
       ReviveUnlink, EndRevive, FsRead, FsClaim, EndScan, NackWrite
<1> QED BY <1>1, <1>2, <1>3, <1>4, <1>5, <1>6, <1>7, <1>8 DEF Step, Tick, Work, Effect, FirestoreClaim, MemoryClaim

(* What a granted lease is, and where it stands.                           *)
LEMMA GrantFacts ==
  ASSUME Sound, NEW p \in Procs, NEW f \in File, Grants(p, f)
  PROVE  LET l == Leased(Stamped(f)) IN
         /\ l \in Lease /\ l.id = f.id /\ l.lease = leases[f.id] + 1 /\ l.attempt = f.attempt + 1
         /\ \A q \in Procs \ {p} : held'[q] = held[q]
         /\ DOMAIN held[p] = 1..Len(held[p]) /\ Len(held[p]) \in Nat
         /\ DOMAIN held'[p] = 1..(Len(held[p]) + 1)
         /\ \A k \in DOMAIN held[p] : held'[p][k] = held[p][k]
         /\ held'[p][Len(held[p]) + 1] = l
         /\ \A i \in Ids \ {f.id} : leases'[i] = leases[i]
         /\ leases'[f.id] = leases[f.id] + 1
         /\ f.id \in Ids /\ leases[f.id] \in Nat
<1> DEFINE l == Leased(Stamped(f))
<1>1. /\ l \in Lease /\ l.id = f.id /\ l.lease = leases[f.id] + 1 /\ l.attempt = f.attempt + 1
      /\ f.id \in Ids /\ leases[f.id] \in Nat
  BY Versions
<1>2. /\ held' = [held EXCEPT ![p] = Append(held[p], l)] /\ leases' = [leases EXCEPT ![f.id] = @ + 1]
  BY DEF Grants
<1> HIDE DEF l
<1>3. held[p] \in Seq(Lease)
  BY HeldLeases
<1>4. held'[p] = Append(held[p], l) /\ \A q \in Procs \ {p} : held'[q] = held[q]
  BY <1>2, OwnFacts
<1>5. Len(held[p]) \in Nat /\ DOMAIN held[p] = 1..Len(held[p])
  BY <1>3, LenProperties
<1>6. /\ Append(held[p], l) \in Seq(Lease) /\ Len(Append(held[p], l)) = Len(held[p]) + 1
      /\ \A i \in 1..Len(held[p]) : Append(held[p], l)[i] = held[p][i]
      /\ Append(held[p], l)[Len(held[p]) + 1] = l
  BY <1>1, <1>3, AppendProperties
<1>7. DOMAIN Append(held[p], l) = 1..(Len(held[p]) + 1)
  BY <1>6, LenProperties
<1>8. leases'[f.id] = leases[f.id] + 1 /\ \A i \in Ids \ {f.id} : leases'[i] = leases[i]
  BY <1>1, <1>2 DEF Sound, Typed, TypeOK
<1> QED BY <1>1, <1>4, <1>5, <1>6, <1>7, <1>8 DEF l

LEMMA TokensKept ==
  ASSUME Sound, Tokens, NEW p \in Procs, Step(p)
  PROVE  Tokens'
<1>1. \A q \in Procs \ {p} : held'[q] = held[q]
  BY StepSteady DEF Steady, Others
<1>2. CASE held' = held
  BY <1>2 DEF Tokens
<1>3. CASE held[p] # <<>> /\ Next1(p)
  <2>1. /\ held'[p] = Tail(held[p])
        /\ \A k \in DOMAIN Tail(held[p]) : k \in Nat /\ k + 1 \in DOMAIN held[p] /\ Tail(held[p])[k] = held[p][k + 1]
    BY <1>3, Next1Facts, OwnFacts
  <2>2. ASSUME NEW a \in Procs, NEW b \in Procs, NEW k \in DOMAIN held'[a], NEW m \in DOMAIN held'[b],
               held'[a][k].id = held'[b][m].id, held'[a][k].lease = held'[b][m].lease
        PROVE  a = b /\ k = m
    <3> DEFINE i == IF a = p THEN k + 1 ELSE k
               j == IF b = p THEN m + 1 ELSE m
    <3>1. i \in DOMAIN held[a] /\ held'[a][k] = held[a][i] /\ (a = p => k \in Nat)
      BY <1>1, <2>1
    <3>2. j \in DOMAIN held[b] /\ held'[b][m] = held[b][j] /\ (b = p => m \in Nat)
      BY <1>1, <2>1
    <3>3. a = b /\ i = j
      <4> HIDE DEF i, j
      <4> QED BY <2>2, <3>1, <3>2 DEF Tokens
    <3> QED BY <3>1, <3>2, <3>3
  <2> QED BY <2>2 DEF Tokens
<1>4. CASE \E f \in File : Grants(p, f)
  <2>1. PICK f \in File : Grants(p, f)
    BY <1>4
  <2> DEFINE l == Leased(Stamped(f))
             n == Len(held[p]) + 1
  <2>2. /\ l.id = f.id /\ l.lease = leases[f.id] + 1 /\ f.id \in Ids /\ leases[f.id] \in Nat
        /\ n \notin DOMAIN held[p]
        /\ \A k \in DOMAIN held'[p] : (k \in DOMAIN held[p] /\ held'[p][k] = held[p][k]) \/ (k = n /\ held'[p][k] = l)
    <3>1. /\ l.id = f.id /\ l.lease = leases[f.id] + 1 /\ f.id \in Ids /\ leases[f.id] \in Nat
          /\ DOMAIN held[p] = 1..Len(held[p]) /\ Len(held[p]) \in Nat
          /\ DOMAIN held'[p] = 1..(Len(held[p]) + 1)
          /\ \A k \in DOMAIN held[p] : held'[p][k] = held[p][k]
          /\ held'[p][Len(held[p]) + 1] = l
      BY <2>1, GrantFacts
    <3> HIDE DEF l
    <3>2. \A k \in 1..(Len(held[p]) + 1) : k \in 1..Len(held[p]) \/ k = Len(held[p]) + 1
      BY <3>1
    <3>3. n \notin DOMAIN held[p] /\ DOMAIN held'[p] = 1..n /\ held'[p][n] = l
      BY <3>1
    <3>4. ASSUME NEW k \in DOMAIN held'[p]
          PROVE  (k \in DOMAIN held[p] /\ held'[p][k] = held[p][k]) \/ (k = n /\ held'[p][k] = l)
      BY <3>1, <3>2, <3>3
    <3> QED BY <3>1, <3>3, <3>4
  <2> HIDE DEF l, n
  <2>3. \A q \in Procs : \A k \in DOMAIN held[q] : ~ (held[q][k].id = l.id /\ held[q][k].lease = l.lease)
    BY <2>2, HeldLeases
  <2>4. \A a \in Procs : \A k \in DOMAIN held'[a] :
          \/ k \in DOMAIN held[a] /\ held'[a][k] = held[a][k]
          \/ a = p /\ k = n /\ held'[a][k] = l
    BY <1>1, <2>2
  <2>5. ASSUME NEW a \in Procs, NEW b \in Procs, NEW k \in DOMAIN held'[a], NEW m \in DOMAIN held'[b],
               held'[a][k].id = held'[b][m].id, held'[a][k].lease = held'[b][m].lease
        PROVE  a = b /\ k = m
    <3>1. CASE held'[a][k] = l \/ held'[b][m] = l
      BY <2>3, <2>4, <2>5, <3>1
    <3>2. CASE held'[a][k] # l /\ held'[b][m] # l
      BY <2>4, <2>5, <3>2 DEF Tokens
    <3> QED BY <3>1, <3>2
  <2> QED BY <2>5 DEF Tokens
<1>5. CASE held' = [held EXCEPT ![p] = <<>>]
  <2>1. held'[p] = <<>>
    BY <1>5, OwnFacts
  <2> QED BY <1>1, <2>1 DEF Tokens
<1> QED BY <1>2, <1>3, <1>4, <1>5, HeldEffect

(* Time passes by itself, and only crashes and lapses are late.            *)
LEMMA StepHistory ==
  ASSUME NEW p \in Procs, Step(p)
  PROVE  /\ lapsed' = lapsed /\ late \subseteq late' /\ stale \subseteq stale' /\ torn \subseteq torn'
         /\ Crash(p) \/ (late' = late /\ torn' = torn)
<1>1. CASE Produce(p)
  BY <1>1 DEF Produce, Enqueue, MemoryCreateIfAbsent, BeginCreate, SettleStaged, CommitAtOnce, DiscardAtOnce,
     SettleStagedAtOnce, history
<1>2. CASE Tick(p)
  BY <1>2 DEF Tick, BeginLease, MemoryLease, history
<1>3. CASE HandleOk(p) \/ HandleThrows(p)
  BY <1>3 DEF HandleOk, HandleThrows, history
<1>4. CASE Crash(p) \/ Restart(p)
  BY <1>4 DEF Crash, Restart, history
<1>5. CASE \/ CheckAbsent(p) \/ WriteAbsent(p)
           \/ CommitWrite(p) \/ DiscardWrite(p) \/ UnlinkStaged(p)
           \/ ReviveRead(p) \/ ReviveWrite(p) \/ ReviveUnlink(p) \/ EndRevive(p)
  BY <1>5 DEF CheckAbsent, WriteAbsent, CommitWrite, DiscardWrite, UnlinkStaged, ReviveRead, ReviveWrite,
       ReviveUnlink, EndRevive, history
<1>6. CASE FsRead(p) \/ FsStamp(p) \/ LeaseNext(p) \/ EndScan(p) \/ AckRename(p) \/ NackWrite(p) \/ NackUnlink(p)
  BY <1>6 DEF FsRead, FsStamp, LeaseNext, EndScan, AckRename, NackWrite, NackUnlink, history
<1>7. CASE FsClaim(p)
  BY <1>7 DEF FsClaim, history
<1> QED BY <1>1, <1>2, <1>3, <1>4, <1>5, <1>6, <1>7 DEF Step, Work, Effect, FirestoreClaim, MemoryClaim

LEMMA GivenKept ==
  ASSUME Sound, Given, NEW p \in Procs, Step(p)
  PROVE  Given'
<1>1. created <= created' /\ created \in Nat /\ created' \in Nat /\ lapsed' = lapsed
  BY StepSteady, StepHistory, PlainFacts, QueueAssumption DEF Steady, Typed, TypeOK, Others
<1>2. \A i \in Ids : leases[i] <= leases'[i] /\ leases[i] \in Nat /\ leases'[i] \in Nat /\ i \in Nat
  BY StepSteady, PlainFacts, IdsAreNumbers DEF Steady, Typed, TypeOK, Others
<1>3. \A i \in Ids, t \in Nat : <<i, t>> \in lapsed' => t <= leases'[i]
  BY <1>1, <1>2 DEF Given
<1>4. \A i \in Ids : i > created' => leases'[i] = 0
  <2>1. CASE leases' = leases
    BY <1>1, <1>2, <2>1 DEF Given
  <2>2. CASE \E f \in File : Grants(p, f)
    <3>1. PICK f \in File : Grants(p, f)
      BY <2>2
    <3>2. f.id <= created /\ f.id \in Ids /\ \A i \in Ids \ {f.id} : leases'[i] = leases[i]
      BY <3>1, GrantFacts DEF Grants
    <3> QED BY <1>1, <1>2, <3>2 DEF Given
  <2> QED BY <2>1, <2>2, HeldEffect
<1> QED BY <1>3, <1>4 DEF Given

LEMMA OwnersKept ==
  ASSUME Sound, Owners, NEW p \in Procs, Others(p),
         pc'[p] \in Deciding => pc[p] \in Deciding /\ rec'[p] = rec[p],
         backend = "fs" => \A f \in files : f.place = "staged" /\ f \notin files' =>
                              pc[p] \in Deciding /\ rec[p].id = f.id /\ pc'[p] \notin Deciding
  PROVE  Owners'
<1>1. \A q \in Procs : pc'[q] \in Deciding => pc[q] \in Deciding /\ rec'[q] = rec[q]
  BY DEF Others
<1>2. ASSUME NEW q \in Procs, pc'[q] \in Deciding PROVE rec'[q] \in files'
  <2>1. pc[q] \in Deciding /\ rec'[q] = rec[q] /\ rec[q] \in files
    BY <1>1, <1>2 DEF Owners
  <2>2. backend = "fs" /\ rec[q].place = "staged"
    BY <2>1, OwnFacts DEF Carries, Deciding
  <2> QED BY <1>2, <2>1, <2>2 DEF Owners
<1> QED BY <1>1, <1>2 DEF Owners

LEMMA OwnersStep ==
  ASSUME Sound, Owners, NEW p \in Procs, Step(p)
  PROVE  Owners'
<1>1. Others(p) /\ Typed' /\ Carries(p)'
  BY StepSteady DEF Steady
<1> USE DEF Deciding
<1>2. CASE Enqueue(p) \/ WriteAbsent(p) \/ \E place \in Kinds[backend] \ {"plain"}, key \in Keys : MemoryCreateIfAbsent(p, place, key)
  <2>1. pc'[p] \notin Deciding
    BY <1>2, OwnFacts DEF Enqueue, WriteAbsent, MemoryCreateIfAbsent, Goto
  <2>2. \/ \E place \in {"active", "staged"}, key \in Keys \cup {NoKey} : Create(p, place, key)
        \/ files' = files
    <3>1. CASE Enqueue(p)
      BY <3>1 DEF Enqueue
    <3>2. CASE WriteAbsent(p)
      <4>1. want[p].goal \in {"active", "staged"} /\ want[p].key \in Keys \cup {NoKey}
        BY <3>2, OwnFacts DEF WriteAbsent, Carries, Want
      <4>2. Create(p, want[p].goal, want[p].key) \/ files' = files
        BY <3>2 DEF WriteAbsent
      <4> QED BY <4>1, <4>2
    <3>3. CASE \E place \in Kinds[backend] \ {"plain"}, key \in Keys : MemoryCreateIfAbsent(p, place, key)
      BY <3>3, QueueAssumption, PlainFacts DEF MemoryCreateIfAbsent
    <3> QED BY <1>2, <3>1, <3>2, <3>3
  <2>3. ASSUME NEW place \in {"active", "staged"}, NEW key \in Keys \cup {NoKey}, Create(p, place, key)
        PROVE  files \subseteq files'
    <3>1. files' = Put(files, NewFile(place, key)) /\ NewFile(place, key).id = created + 1
      BY <2>3, NewFileType DEF Create
    <3>2. \A f \in files : f.id # created + 1
      BY PlainFacts, IdsAreNumbers DEF Sound, Paths, File
    <3> QED BY <3>1, <3>2 DEF Put, SamePath
  <2> QED BY <1>1, <2>1, <2>2, <2>3, OwnersKept
<1>3. CASE \E f \in In("staged") : CommitAtOnce(p, f) \/ DiscardAtOnce(p, f)
  <2>1. pc' = pc /\ rec' = rec /\ backend # "fs"
    BY <1>3 DEF CommitAtOnce, DiscardAtOnce, SettleStagedAtOnce
  <2> QED BY <1>1, <2>1, OwnersKept
<1>4. CASE \E f \in In("staged") : SettleStaged(p, f, "commitWrite") \/ SettleStaged(p, f, "discardWrite")
  <2>1. PICK f \in In("staged"), label \in {"commitWrite", "discardWrite"} : SettleStaged(p, f, label)
    BY <1>4
  <2>2. /\ rec' = [rec EXCEPT ![p] = f] /\ pc' = [pc EXCEPT ![p] = label] /\ files' = files /\ pc[p] = "idle"
        /\ \A q \in Procs : rec[q] # f
    BY <2>1 DEF SettleStaged, Read, Goto
  <2>3. f \in files /\ f.place = "staged"
    BY DEF In
  <2>4. \A q \in Procs : pc[q] \in Deciding => rec[q].place = "staged" /\ rec[q].id # f.id
    <3>1. \A q \in Procs : pc[q] \in Deciding => rec[q] \in files /\ rec[q].place = "staged"
      BY OwnFacts DEF Owners, Carries
    <3> QED BY <2>2, <2>3, <3>1 DEF Sound, Paths, SamePath
  <2>5. \A q \in Procs : pc'[q] \in Deciding =>
          (q = p /\ rec'[q] = f) \/ (q # p /\ pc[q] \in Deciding /\ rec'[q] = rec[q])
    BY <2>2, OwnFacts
  <2> QED BY <2>2, <2>3, <2>4, <2>5 DEF Owners
<1>5. CASE \/ CheckAbsent(p) \/ ReviveRead(p) \/ EndRevive(p) \/ FsRead(p) \/ EndScan(p) \/ BeginLease(p) \/ Restart(p) \/ Crash(p)
           \/ \E place \in Kinds[backend] \ {"plain"}, key \in Keys : BeginCreate(p, place, key)
  <2>1. files' = files
    BY <1>5 DEF CheckAbsent, ReviveRead, EndRevive, FsRead, EndScan, BeginLease, Restart, Crash, BeginCreate
  <2>2. pc'[p] \in Deciding => pc[p] \in Deciding /\ rec'[p] = rec[p]
    <3>1. CASE FsRead(p)
      BY <3>1, OwnFacts DEF FsRead, Goto
    <3>2. CASE CheckAbsent(p) \/ ReviveRead(p) \/ EndRevive(p) \/ EndScan(p) \/ Restart(p) \/ Crash(p)
      BY <3>2, OwnFacts DEF CheckAbsent, ReviveRead, EndRevive, EndScan, Restart, Crash, Goto
    <3>3. CASE BeginLease(p) \/ \E place \in Kinds[backend] \ {"plain"}, key \in Keys : BeginCreate(p, place, key)
      BY <3>3, OwnFacts DEF BeginLease, BeginScan, BeginCreate, Goto
    <3> QED BY <1>5, <3>1, <3>2, <3>3
  <2> QED BY <1>1, <2>1, <2>2, OwnersKept
<1>6. CASE MemoryLease(p) \/ LeaseNext(p) \/ ((HandleOk(p) \/ HandleThrows(p)) /\ backend # "fs")
  <2>1. backend # "fs"
    BY <1>6 DEF MemoryLease, LeaseNext
  <2>2. pc'[p] \notin Deciding
    BY <1>1, <2>1 DEF Carries, Others
  <2> QED BY <1>1, <2>1, <2>2, OwnersKept
<1>7. CASE (HandleOk(p) \/ HandleThrows(p)) /\ backend = "fs"
  <2>1. files' = files
    BY <1>7 DEF HandleOk, HandleThrows
  <2>2. pc'[p] \notin Deciding
    BY <1>7, OwnFacts DEF HandleOk, HandleThrows, Goto, Next1
  <2> QED BY <1>1, <2>1, <2>2, OwnersKept
<1>8. CASE CommitWrite(p) \/ DiscardWrite(p) \/ ReviveWrite(p) \/ NackWrite(p) \/ FsStamp(p)
  <2>1. rec[p] \in File
    BY <1>8, ReadFacts DEF CommitWrite, DiscardWrite, ReviveWrite, NackWrite, FsStamp, Reviving, Leasing, Ending
  <2>2. pc'[p] \in Deciding => pc[p] \in Deciding /\ rec'[p] = rec[p]
    BY <1>8, OwnFacts DEF CommitWrite, DiscardWrite, ReviveWrite, NackWrite, FsStamp, Goto
  <2>3. PICK c \in {Promoted(rec[p]), Bare(rec[p], "dead"), Bare(rec[p], "active"), Stamped(rec[p])} : files' = Put(files, c)
    BY <1>8 DEF CommitWrite, DiscardWrite, ReviveWrite, NackWrite, FsStamp
  <2>4. c.place # "staged"
    BY <2>1, Versions DEF Places
  <2>5. \A f \in files : f.place = "staged" => f \in files'
    BY <2>3, <2>4 DEF Put, SamePath
  <2> QED BY <1>1, <2>2, <2>5, OwnersKept
<1>9. CASE UnlinkStaged(p)
  <2>1. /\ files' = files \ At("staged", rec[p].id) /\ pc'[p] = "idle" /\ pc[p] \in Deciding
    BY <1>9, OwnFacts DEF UnlinkStaged, Goto
  <2> QED BY <1>1, <2>1, OwnersKept DEF At, In
<1>10. CASE ReviveUnlink(p) \/ NackUnlink(p)
  <2>1. files' = files \ At("leased", rec[p].id) /\ pc'[p] \notin Deciding
    BY <1>10, OwnFacts DEF ReviveUnlink, NackUnlink, Goto, Next1
  <2> QED BY <1>1, <2>1, OwnersKept DEF At, In
<1>11. CASE AckRename(p) \/ FsClaim(p)
  <2>1. pc'[p] \notin Deciding
    BY <1>11, OwnFacts DEF AckRename, FsClaim, Goto, Next1
  <2>2. \A f \in files : f.place = "staged" => f \in files'
    <3>1. CASE AckRename(p)
      BY <3>1 DEF AckRename, At, In
    <3>2. CASE FsClaim(p)
      <4>1. rec[p].place = "active"
        BY <3>2, OwnFacts DEF FsClaim, Carries, Leasing
      <4> QED BY <3>2, <4>1 DEF FsClaim, SamePath
    <3> QED BY <1>11, <3>1, <3>2
  <2> QED BY <1>1, <2>1, <2>2, OwnersKept
<1> QED BY <1>2, <1>3, <1>4, <1>5, <1>6, <1>7, <1>8, <1>9, <1>10, <1>11 DEF Step, Produce, Tick, Work, Effect, FirestoreClaim, MemoryClaim

LEMMA LedgerNext ==
  ASSUME Sound, Ledger, [Next]_vars
  PROVE  Ledger'
<1>1. ASSUME NEW p \in Procs, Step(p) PROVE Ledger'
  BY <1>1, TokensKept, GivenKept, OwnersStep DEF Ledger
<1>2. ASSUME NEW id \in Ids, NEW token \in 1..leases[id], Lapse(id, token) \/ LapseAbandoned(id, token) PROVE Ledger'
  <2>1. /\ lapsed' = lapsed \cup {<<id, token>>} /\ token <= leases[id]
        /\ UNCHANGED <<store, files, pc, rec, held, leases>>
    BY <1>2, PlainFacts DEF Lapse, LapseAbandoned
  <2> QED BY <2>1 DEF Ledger, Owners, Given, Tokens, store
<1>3. CASE UNCHANGED vars
  BY <1>3 DEF Ledger, Owners, Given, Tokens, vars
<1> QED BY <1>1, <1>2, <1>3 DEF Next, Abandoned, Step

----------------------------------------------------------------------------
(* What there is of a message: its copies, the directories from which it   *)
(* is being moved, its leases held, its leases that have expired.          *)
Copies(id)  == {f \in files : f.id = id}
Origin(p)   == IF pc[p] \in {"reviveUnlink", "nackUnlink"} THEN "leased" ELSE "staged"
Moving(id)  == {Origin(p) : p \in {q \in Procs : Between(q, id)}}
Granted(id) == {l \in Lease : l.id = id /\ \E p \in Procs : \E k \in DOMAIN held[p] : held[p][k] = l}
Over(id)    == {t \in Nat : <<id, t>> \in lapsed}
(* The messages no process has changed from an outdated read, or left torn *)
Clean       == (1..created) \ (stale \cup torn)

(* One copy, or the copy written and the original it was written from.     *)
Shape(C, M) ==
  /\ C # {}
  /\ \A f, g \in C : f # g => M # {}
  /\ \A m \in M : \E c \in C : /\ c.place \in {"active", "dead"}
                               /\ \A f \in C : f = c \/ (f.place = m /\ (m = "leased" => f.lease # 0))
(* The attempts of a copy are the leases granted so far.                   *)
Count(C, n) ==
  \A f \in C : /\ f.attempt = n
               /\ f.place = "leased" => f.lease \in {0, n}
               /\ f.place = "staged" => n = 0
               /\ f.place = "dead" => n = 0 \/ n >= MaxAttempts
(* Without a lapse: no lease too many, and a leased copy has its holder.   *)
Timely(C, G, n, O, l) ==
  l \/ /\ n <= MaxAttempts /\ O = {}
       /\ \A f \in C : f.place = "active" \/ (f.place = "leased" /\ f.lease = 0) => n < MaxAttempts
       /\ \A f \in C : f.place = "leased" /\ f.lease # 0 => \E h \in G : h.lease = f.lease
(* A lease in time has its file.                                           *)
Backed(C, G, O) ==
  \A h \in G : h.attempt = h.lease /\ (h.lease \notin O => \E f \in C : f.place = "leased" /\ f.lease = h.lease)

Fits(C, M, G, n, O, l) == Shape(C, M) /\ Count(C, n) /\ Timely(C, G, n, O, l) /\ Backed(C, G, O)
Right(id) == Fits(Copies(id), Moving(id), Granted(id), leases[id], Over(id), id \in late)

(* A settled message does not come back.                                   *)
Keeps(C, D) == (\E f \in C : f.place \in {"done", "dead"}) => \A f \in D : f.place \in {"active", "leased"} => f \in C
Advance(id) == Right(id)' /\ Keeps(Copies(id), Copies(id)')

LEMMA SameAdvances ==
  ASSUME NEW id, Right(id), Copies(id)' = Copies(id), Moving(id)' = Moving(id), Granted(id)' = Granted(id),
         leases'[id] = leases[id], Over(id)' = Over(id), id \in late => id \in late'
  PROVE  Advance(id)
<1>1. \A C, M, G, n, O, l : Fits(C, M, G, n, O, l) => Fits(C, M, G, n, O, TRUE)
  BY DEF Fits, Timely
<1>2. Fits(Copies(id), Moving(id), Granted(id), leases[id], Over(id), id \in late')
  <2>1. CASE id \in late'
    BY <1>1, <2>1 DEF Right
  <2>2. CASE id \notin late'
    BY <2>2 DEF Right
  <2> QED BY <2>1, <2>2
<1>3. Right(id)'
  BY <1>2 DEF Right
<1> QED BY <1>3 DEF Advance, Keeps

LEMMA CopyFacts ==
  ASSUME Sound, NEW id
  PROVE  /\ Copies(id) \subseteq File /\ \A f \in Copies(id) : f.id = id /\ f \in files
         /\ \A f, g \in Copies(id) : f.place = g.place /\ f.place # "active" => f = g
         /\ \A f \in Copies(id) : f.place \in {"active", "staged"} => f.lease = 0
         /\ backend # "fs" => \A f, g \in Copies(id) : f = g
BY PlainFacts DEF Copies, Sound, Paths, SamePath

LEMMA MovingSame ==
  ASSUME NEW p \in Procs, NEW id, Others(p), ~ Between(p, id), ~ Between(p, id)'
  PROVE  Moving(id)' = Moving(id)
<1>1. {q \in Procs : Between(q, id)}' = {q \in Procs : Between(q, id)}
  BY DEF Others, Between
<1>2. \A q \in Procs : Between(q, id) => Origin(q)' = Origin(q)
  BY DEF Others, Origin
<1> QED BY <1>1, <1>2 DEF Moving

LEMMA MovingMore ==
  ASSUME NEW p \in Procs, NEW id, Others(p), ~ Between(p, id), Between(p, id)'
  PROVE  Moving(id)' = Moving(id) \cup {Origin(p)'}
<1>1. \A q \in Procs \ {p} : (Between(q, id)' <=> Between(q, id)) /\ Origin(q)' = Origin(q)
  BY DEF Others, Between, Origin
<1>2. Moving(id)' \subseteq Moving(id) \cup {Origin(p)'}
  BY <1>1 DEF Moving
<1>3. Moving(id) \subseteq Moving(id)' /\ Origin(p)' \in Moving(id)'
  BY <1>1 DEF Moving
<1> QED BY <1>2, <1>3

LEMMA MovingLess ==
  ASSUME NEW p \in Procs, NEW id, Others(p), ~ Between(p, id)'
  PROVE  Moving(id)' \subseteq Moving(id)
<1>1. \A q \in Procs \ {p} : (Between(q, id)' <=> Between(q, id)) /\ Origin(q)' = Origin(q)
  BY DEF Others, Between, Origin
<1> QED BY <1>1 DEF Moving

LEMMA GrantedSame ==
  ASSUME NEW id, held' = held
  PROVE  Granted(id)' = Granted(id)
BY DEF Granted

LEMMA GrantedNext ==
  ASSUME Sound, Tokens, NEW p \in Procs, Step(p), held[p] # <<>>, Next1(p), NEW id
  PROVE  /\ InHand(p) \in Lease /\ InHand(p) \in Granted(InHand(p).id)
         /\ id # InHand(p).id => Granted(id)' = Granted(id)
         /\ id = InHand(p).id => /\ Granted(id)' = Granted(id) \ {InHand(p)}
                                 /\ \A h \in Granted(id) : h.lease = InHand(p).lease => h = InHand(p)
<1>1. /\ held'[p] = Tail(held[p])
      /\ \A k \in DOMAIN Tail(held[p]) : k \in Nat /\ k + 1 \in DOMAIN held[p] /\ Tail(held[p])[k] = held[p][k + 1]
  BY Next1Facts, OwnFacts
<1>2. \A q \in Procs \ {p} : held'[q] = held[q]
  BY StepSteady DEF Steady, Others
<1>3. /\ held[p] \in Seq(Lease) /\ Len(held[p]) \in Nat \ {0} /\ DOMAIN held[p] = 1..Len(held[p])
      /\ InHand(p) = held[p][1]
  BY HeldLeases, EmptySeq, LenProperties DEF InHand
<1>4. /\ Len(Tail(held[p])) = Len(held[p]) - 1
      /\ DOMAIN Tail(held[p]) = 1..Len(Tail(held[p]))
  BY <1>3, HeadTailProperties, LenProperties
<1>5. 1 \in DOMAIN held[p] /\ InHand(p) \in Lease
  BY <1>3, HeldLeases
<1>6. \A k \in DOMAIN held[p] : k # 1 => k \in Nat /\ k - 1 \in DOMAIN Tail(held[p]) /\ (k - 1) + 1 = k
  BY <1>3, <1>4
<1>7. \A k \in DOMAIN held[p] : k # 1 => \E j \in DOMAIN Tail(held[p]) : Tail(held[p])[j] = held[p][k]
  BY <1>1, <1>6
<1>8. \A k \in DOMAIN Tail(held[p]) : k + 1 # 1
  BY <1>1
<1>9. \A l : l # InHand(p) => ((\E k \in DOMAIN held'[p] : held'[p][k] = l) <=> (\E k \in DOMAIN held[p] : held[p][k] = l))
  BY <1>1, <1>3, <1>7
<1>10. \A l : (l # InHand(p)) => (l \in Granted(id)' <=> l \in Granted(id))
  BY <1>2, <1>9 DEF Granted
<1>11. InHand(p) \notin Granted(id)'
  <2> SUFFICES ASSUME NEW q \in Procs, NEW k \in DOMAIN held'[q], held'[q][k] = InHand(p) PROVE FALSE
    BY DEF Granted
  <2>1. CASE q = p
    <3>1. k + 1 \in DOMAIN held[p] /\ held[p][k + 1] = held[p][1] /\ k + 1 # 1
      BY <1>1, <1>3, <1>8, <2>1
    <3> QED BY <1>5, <3>1 DEF Tokens
  <2>2. CASE q # p
    BY <1>2, <1>3, <1>5, <2>2 DEF Tokens
  <2> QED BY <2>1, <2>2
<1>12. InHand(p) \in Granted(InHand(p).id)
  BY <1>3, <1>5 DEF Granted
<1>13. id # InHand(p).id => InHand(p) \notin Granted(id)
  BY DEF Granted
<1>14. ASSUME NEW h \in Granted(InHand(p).id), h.lease = InHand(p).lease PROVE h = InHand(p)
  <2>1. PICK q \in Procs : \E k \in DOMAIN held[q] : held[q][k] = h
    BY DEF Granted
  <2>0. PICK k \in DOMAIN held[q] : held[q][k] = h
    BY <2>1
  <2>2. held[q][k].id = held[p][1].id /\ held[q][k].lease = held[p][1].lease
    BY <1>3, <1>14, <2>0 DEF Granted
  <2>3. q = p /\ k = 1
    BY <1>5, <2>2 DEF Tokens
  <2> QED BY <1>3, <2>0, <2>3
<1>15. id # InHand(p).id => Granted(id)' = Granted(id)
  BY <1>10, <1>11, <1>13
<1>16. Granted(id)' = Granted(id) \ {InHand(p)}
  BY <1>10, <1>11
<1> QED BY <1>5, <1>12, <1>14, <1>15, <1>16

LEMMA GrantedMore ==
  ASSUME Sound, NEW p \in Procs, Step(p), NEW f \in File, Grants(p, f), NEW id
  PROVE  /\ id # f.id => Granted(id)' = Granted(id)
         /\ id = f.id => Granted(id)' = Granted(id) \cup {Leased(Stamped(f))}
<1> DEFINE l == Leased(Stamped(f))
<1>1. /\ l \in Lease /\ l.id = f.id
      /\ \A q \in Procs \ {p} : held'[q] = held[q]
      /\ DOMAIN held[p] = 1..Len(held[p]) /\ Len(held[p]) \in Nat
      /\ DOMAIN held'[p] = 1..(Len(held[p]) + 1)
      /\ \A k \in DOMAIN held[p] : held'[p][k] = held[p][k]
      /\ held'[p][Len(held[p]) + 1] = l
  BY GrantFacts
<1> HIDE DEF l
<1>2. \A k \in 1..(Len(held[p]) + 1) : k \in 1..Len(held[p]) \/ k = Len(held[p]) + 1
  BY <1>1
<1>3. Len(held[p]) + 1 \in 1..(Len(held[p]) + 1) /\ 1..Len(held[p]) \subseteq 1..(Len(held[p]) + 1)
  BY <1>1
<1>4. \A h : (\E k \in DOMAIN held'[p] : held'[p][k] = h) <=> (h = l \/ \E k \in DOMAIN held[p] : held[p][k] = h)
  BY <1>1, <1>2, <1>3
<1>5. \A h : h \in Granted(id)' <=> (h \in Granted(id) \/ (h = l /\ l.id = id))
  BY <1>1, <1>4 DEF Granted
<1> QED BY <1>1, <1>5 DEF l

LEMMA GrantedLost ==
  ASSUME Sound, NEW p \in Procs, Crash(p), NEW id
  PROVE  Granted(id)' \subseteq Granted(id) /\ (id \notin late' => Granted(id)' = Granted(id))
<1>1. held'[p] = <<>> /\ (\A q \in Procs \ {p} : held'[q] = held[q])
      /\ late' = late \cup {held[p][k].id : k \in DOMAIN held[p]}
  BY OwnFacts DEF Crash
<1>2. Granted(id)' \subseteq Granted(id)
  BY <1>1 DEF Granted
<1>3. ASSUME id \notin late', NEW h \in Granted(id) PROVE h \in Granted(id)'
  BY <1>1, <1>3 DEF Granted
<1> QED BY <1>2, <1>3

(* A step that leaves the copies and the leases of a message alone.        *)
LEMMA QuietAdvances ==
  ASSUME Sound, NEW p \in Procs, Step(p), NEW id, Right(id), Copies(id)' = Copies(id),
         Granted(id)' = Granted(id), leases'[id] = leases[id], ~ Between(p, id), ~ Between(p, id)'
  PROVE  Advance(id)
<1>1. Others(p) /\ lapsed' = lapsed /\ late \subseteq late'
  BY StepSteady, StepHistory DEF Steady
<1>2. Moving(id)' = Moving(id) /\ Over(id)' = Over(id)
  BY <1>1, MovingSame DEF Over
<1> QED BY <1>1, <1>2, SameAdvances

LEMMA CleanIds ==
  ASSUME Sound, NEW id \in Clean
  PROVE  id \in Ids /\ id \in Nat /\ leases[id] \in Nat /\ Over(id) \subseteq Nat \ {0} /\ id <= created
<1>1. id \in Ids /\ id \in Nat /\ id <= created
  BY PlainFacts, IdsAreNumbers DEF Clean, Ids
<1> QED BY <1>1, PlainFacts DEF Over, Sound, Typed, TypeOK

(* A leased record that a process has read bears a token.                  *)
LEMMA LeasedRecord ==
  ASSUME Sound, Ledger, NEW p \in Procs, pc[p] \in Reviving \cup Ending
  PROVE  /\ rec[p].place = "leased" /\ rec[p].lease \in Nat \ {0} /\ leases[rec[p].id] \in Nat \ {0}
<1>1. rec[p] \in File /\ rec[p].id \in Ids /\ rec[p].place = "leased" /\ leases[rec[p].id] \in Nat /\ rec[p].lease \in Nat
  BY OwnFacts, ReadFacts, PlainFacts DEF Carries, Reviving, Ending, File
<1>2. CASE pc[p] \in Reviving
  <2>1. <<rec[p].id, rec[p].lease>> \in lapsed
    BY <1>2, OwnFacts DEF Carries, Expired
  <2>2. rec[p].lease \in Nat \ {0}
    BY <2>1 DEF Sound, Typed, TypeOK
  <2>3. rec[p].lease <= leases[rec[p].id]
    BY <1>1, <2>1, <2>2 DEF Ledger, Given
  <2> QED BY <1>1, <2>2, <2>3
<1>3. CASE pc[p] \in Ending
  <2>1. rec[p].id = InHand(p).id /\ rec[p].lease = InHand(p).lease /\ held[p] # <<>>
    BY <1>3, OwnFacts DEF Carries
  <2>2. 1 \in DOMAIN held[p] /\ InHand(p) = held[p][1]
    BY <2>1, HeldLeases, EmptySeq, LenProperties DEF InHand
  <2>3. rec[p].lease \in Nat \ {0} /\ rec[p].lease <= leases[rec[p].id]
    BY <2>1, <2>2, HeldLeases
  <2> QED BY <1>1, <2>3
<1> QED BY <1>1, <1>2, <1>3

(* A message is moved out of the staged directory by its one owner, before *)
(* it was ever leased.                                                     *)
LEMMA StagedMove ==
  ASSUME Sound, Ledger, NEW id \in Clean, Right(id)
  PROVE  /\ Moving(id) \subseteq {"staged", "leased"}
         /\ "staged" \in Moving(id) => leases[id] = 0 /\ \E q \in Procs : pc[q] \in Deciding /\ Between(q, id)
         /\ \A q \in Procs : pc[q] \in Deciding /\ rec[q].id = id =>
              rec[q] \in Copies(id) /\ rec[q].place = "staged" /\ leases[id] = 0 /\ rec[q].attempt = 0
<1>1. \A q \in Procs : pc[q] \in Deciding /\ rec[q].id = id => rec[q] \in Copies(id) /\ rec[q].place = "staged"
  BY OwnFacts DEF Ledger, Owners, Copies, Carries
<1>2. \A q \in Procs : pc[q] \in Deciding /\ rec[q].id = id => leases[id] = 0 /\ rec[q].attempt = 0
  BY <1>1 DEF Right, Fits, Count
<1>3. Moving(id) \subseteq {"staged", "leased"}
  BY DEF Moving, Origin
<1>4. "staged" \in Moving(id) => \E q \in Procs : pc[q] \in Deciding /\ Between(q, id)
  BY DEF Moving, Origin, Between, Deciding
<1>5. \A q \in Procs : Between(q, id) => rec[q].id = id
  BY DEF Between
<1> QED BY <1>1, <1>2, <1>3, <1>4, <1>5

(* Writing the copy.                                                       *)
LEMMA WriteAdvances ==
  ASSUME Sound, Ledger, NEW p \in Procs, Step(p), NEW id \in Clean, Right(id), NEW c \in File, c.id = id,
         rec[p] \in File, rec[p].id = id, rec[p].place \in {"leased", "staged"}, rec[p].place = "leased" => rec[p].lease # 0,
         files' = Put(files, c), ~ Between(p, id), Between(p, id)', Origin(p)' = rec[p].place, held' = held, leases' = leases,
         c.place \in {"active", "dead"},
         c \in files \/ (rec[p] \in files /\ Moving(id) = {}),
         c \in files => rec[p].place = "leased" /\ Moving(id) \subseteq {"leased"},
         rec[p] \in files => /\ c.attempt = leases[id] /\ (c.place = "dead" => leases[id] = 0 \/ leases[id] >= MaxAttempts)
                             /\ c.place = "active" => id \in late \/ leases[id] < MaxAttempts
  PROVE  Advance(id)
<1>1. Others(p) /\ lapsed' = lapsed /\ late \subseteq late'
  BY StepSteady, StepHistory DEF Steady
<1>2. Moving(id)' = Moving(id) \cup {rec[p].place}
  BY <1>1, MovingMore
<1>3. Granted(id)' = Granted(id) /\ Over(id)' = Over(id)
  BY <1>1, GrantedSame DEF Over
<1>4. Fits(Copies(id), Moving(id), Granted(id), leases[id], Over(id), id \in late)
  BY DEF Right
<1>5. CASE c \in files
  <2>1. Copies(id)' = Copies(id)
    <3>1. files' = files
      BY <1>5 DEF Put, Sound, Paths, SamePath
    <3> QED BY <3>1 DEF Copies
  <2>2. c \in Copies(id)
    BY <1>5 DEF Copies
  <2>3. Moving(id)' = Moving(id) \/ (Moving(id) = {} /\ Moving(id)' = {"leased"})
    BY <1>2, <1>5
  <2>4. Shape(Copies(id), Moving(id)')
    <3>1. CASE Moving(id) = {} /\ Moving(id)' = {"leased"}
      <4>1. \A f \in Copies(id) : f = c
        BY <1>4, <2>2, <3>1 DEF Fits, Shape
      <4> QED BY <2>2, <3>1, <4>1 DEF Shape
    <3>2. CASE Moving(id)' = Moving(id)
      BY <1>4, <3>2 DEF Fits
    <3> QED BY <2>3, <3>1, <3>2
  <2>5. Fits(Copies(id), Moving(id)', Granted(id), leases[id], Over(id), id \in late')
    BY <1>1, <1>4, <2>4 DEF Fits, Timely
  <2> QED BY <1>3, <2>1, <2>5 DEF Advance, Right, Keeps
<1>6. CASE c \notin files
  <2>1. rec[p] \in files /\ Moving(id) = {}
    BY <1>6
  <2>2. Copies(id) = {rec[p]}
    BY <1>4, <2>1 DEF Fits, Shape, Copies
  <2>3. Copies(id)' = {rec[p], c}
    <3>1. ~ SamePath(c, rec[p])
      BY DEF SamePath
    <3>2. \A f : f \in Copies(id)' <=> f = c \/ (f \in Copies(id) /\ ~ SamePath(c, f))
      BY DEF Copies, Put
    <3> QED BY <2>2, <3>1, <3>2
  <2>4. Moving(id)' = {rec[p].place}
    BY <1>2, <2>1
  <2>5. Shape({rec[p], c}, {rec[p].place})
    BY DEF Shape
  <2>6. Count({rec[p], c}, leases[id])
    BY <1>4, <2>1, <2>2 DEF Fits, Count
  <2>7. Timely({rec[p], c}, Granted(id), leases[id], Over(id), id \in late')
    BY <1>1, <1>4, <2>1, <2>2 DEF Fits, Timely
  <2>8. Backed({rec[p], c}, Granted(id), Over(id))
    BY <1>4, <2>2 DEF Fits, Backed
  <2>9. Right(id)'
    BY <1>3, <2>3, <2>4, <2>5, <2>6, <2>7, <2>8 DEF Right, Fits
  <2>10. Keeps(Copies(id), Copies(id)')
    BY <2>2 DEF Keeps
  <2> QED BY <2>9, <2>10 DEF Advance
<1> QED BY <1>5, <1>6

(* Unlinking the original: what stays is the copy.                         *)
LEMMA UnlinkAdvances ==
  ASSUME Sound, Ledger, NEW p \in Procs, Step(p), NEW id \in Clean, Right(id), Between(p, id), ~ Between(p, id)',
         files' = files \ At(Origin(p), id), leases' = leases, Granted(id)' \subseteq Granted(id),
         \A h \in Granted(id)' : \A f \in At("leased", id) : f.lease = h.lease => h.lease \in Over(id)
  PROVE  Advance(id)
<1>1. Others(p) /\ lapsed' = lapsed /\ late \subseteq late' /\ Over(id)' = Over(id)
  BY StepSteady, StepHistory DEF Steady, Over
<1>2. Moving(id)' \subseteq Moving(id) /\ Origin(p) \in Moving(id)
  BY <1>1, MovingLess DEF Moving
<1>3. Fits(Copies(id), Moving(id), Granted(id), leases[id], Over(id), id \in late)
  BY DEF Right
<1>4. PICK c \in Copies(id) : /\ c.place \in {"active", "dead"}
                              /\ \A f \in Copies(id) : f = c \/ f.place = Origin(p)
  BY <1>2, <1>3 DEF Fits, Shape
<1>5. Origin(p) \in {"leased", "staged"}
  BY DEF Origin
<1>6. Copies(id)' = {c}
  <2>1. \A f : f \in Copies(id)' <=> f \in Copies(id) /\ f.place # Origin(p)
    BY DEF Copies, At, In
  <2> QED BY <1>4, <1>5, <2>1
<1>7. Shape({c}, Moving(id)')
  <2>1. \A m \in Moving(id)' : \E d \in {c} : d.place \in {"active", "dead"} /\ \A f \in {c} : f = d
    BY <1>4
  <2> QED BY <2>1 DEF Shape
<1>8. Count({c}, leases[id])
  BY <1>3, <1>4 DEF Fits, Count
<1>9. Timely({c}, Granted(id)', leases[id], Over(id), id \in late')
  BY <1>1, <1>3, <1>4 DEF Fits, Timely
<1>10. Backed({c}, Granted(id)', Over(id))
  <2>1. \A h \in Granted(id)' : h.attempt = h.lease /\ h.lease \in Over(id)
    <3>1. \A f \in Copies(id) : f.place = "leased" => f \in At("leased", id)
      BY DEF Copies, At, In
    <3> QED BY <1>3, <3>1 DEF Fits, Backed
  <2> QED BY <2>1 DEF Backed
<1>11. Right(id)'
  BY <1>1, <1>6, <1>7, <1>8, <1>9, <1>10 DEF Right, Fits
<1>12. Keeps(Copies(id), Copies(id)')
  BY <1>4, <1>6 DEF Keeps
<1> QED BY <1>11, <1>12 DEF Advance

(* A message with one copy, which becomes another version of it.           *)
LEMMA VersionAdvances ==
  ASSUME Sound, Ledger, NEW p \in Procs, Step(p), NEW id \in Clean, Right(id), NEW f \in Copies(id), Copies(id) = {f},
         NEW h, Copies(id)' = {h}, Moving(id)' = {}, f.place \notin {"done", "dead"},
         Count({h}, leases'[id]), Timely({h}, Granted(id)', leases'[id], Over(id), id \in late'),
         Backed({h}, Granted(id)', Over(id))
  PROVE  Advance(id)
<1>1. Over(id)' = Over(id)
  BY StepHistory DEF Over
<1>2. Shape({h}, {})
  BY DEF Shape
<1>3. Right(id)'
  BY <1>1, <1>2 DEF Right, Fits
<1> QED BY <1>3 DEF Advance, Keeps

(* Now each action, for a message that is clean before and after it.       *)
LEMMA CommitAdvances ==
  ASSUME Sound, Ledger, NEW p \in Procs, Step(p), NEW id \in Clean, id \in Clean', Right(id), CommitWrite(p) \/ DiscardWrite(p)
  PROVE  Advance(id)
<1> DEFINE c == IF CommitWrite(p) THEN Promoted(rec[p]) ELSE Bare(rec[p], "dead")
<1>1. /\ pc[p] \in {"commitWrite", "discardWrite"} /\ pc'[p] \in {"commitUnlink", "discardUnlink"} /\ rec' = rec
      /\ files' = Put(files, c) /\ stale' = stale \cup OutdatedWrite(p, c) /\ held' = held /\ leases' = leases
  BY OwnFacts DEF CommitWrite, DiscardWrite, Goto
<1>2. pc[p] \in Deciding /\ rec[p] \in File /\ rec[p].id \in Ids /\ rec[p].place = "staged" /\ rec[p].order <= orders
  BY <1>1, ReadFacts, OwnFacts DEF Deciding, Carries
<1>3. /\ c \in File /\ c.id = rec[p].id /\ c.place \in {"active", "dead"} /\ (c.place = "active" => c.attempt = 0 /\ c.order = orders + 1)
      /\ c.place = "dead" => c.attempt = rec[p].attempt
  BY <1>2, Versions DEF Places
<1> HIDE DEF c
<1>4. ~ Between(p, id)
  BY <1>1 DEF Between
<1>5. CASE rec[p].id # id
  <2>1. ~ Between(p, id)'
    BY <1>1, <1>5 DEF Between
  <2>2. Copies(id)' = Copies(id)
    BY <1>1, <1>3, <1>5 DEF Copies, Put, SamePath
  <2> QED BY <1>1, <1>4, <2>1, <2>2, GrantedSame, QuietAdvances
<1>6. CASE rec[p].id = id
  <2>1. rec[p] \in Copies(id) /\ leases[id] = 0 /\ rec[p].attempt = 0
    BY <1>2, <1>6, StagedMove
  <2>2. Between(p, id)' /\ Origin(p)' = "staged"
    BY <1>1, <1>6 DEF Between, Origin
  <2>3. c \notin files
    <3>1. CASE c.place = "active"
      BY <1>3, <3>1, PlainFacts DEF Sound, Paths
    <3>2. CASE c.place = "dead"
      <4> SUFFICES ASSUME c \in files PROVE FALSE
        OBVIOUS
      <4>1. c \in Copies(id) /\ c # rec[p]
        BY <1>2, <1>3, <1>6, <3>2 DEF Copies
      <4>2. PICK m \in Moving(id) : TRUE
        BY <2>1, <4>1 DEF Right, Fits, Shape
      <4>3. m = "staged"
        BY <1>2, <2>1, <4>2 DEF Right, Fits, Shape
      <4>4. \E q \in Procs : pc[q] \in Deciding /\ Between(q, id)
        BY <4>2, <4>3, StagedMove
      <4> QED BY <1>2, <1>4, <1>6, <4>4 DEF Ledger, Owners, Between
    <3> QED BY <1>3, <3>1, <3>2
  <2>4. rec[p] \in files /\ Moving(id) = {}
    <3>1. id \notin OutdatedWrite(p, c)
      BY <1>1 DEF Clean
    <3>2. rec[p] \in files /\ ~ \E q \in Procs : Between(q, id)
      BY <1>3, <1>6, <2>3, <3>1 DEF OutdatedWrite
    <3> QED BY <3>2 DEF Moving
  <2>5. leases[id] < MaxAttempts
    BY <2>1, QueueAssumption
  <2> QED BY <1>1, <1>2, <1>3, <1>4, <1>6, <2>1, <2>2, <2>3, <2>4, <2>5, WriteAdvances
<1> QED BY <1>5, <1>6

LEMMA BareAdvances ==
  ASSUME Sound, Ledger, NEW p \in Procs, Step(p), NEW id \in Clean, id \in Clean', Right(id), ReviveWrite(p) \/ NackWrite(p)
  PROVE  Advance(id)
<1> DEFINE place == IF NackWrite(p) /\ Exhausted(InHand(p)) THEN "dead" ELSE "active"
           c == Bare(rec[p], place)
<1>1. /\ \/ pc[p] = "reviveWrite" /\ pc'[p] = "reviveUnlink" /\ place = "active"
         \/ pc[p] = "nackWrite" /\ pc'[p] = "nackUnlink" /\ place = IF Exhausted(InHand(p)) THEN "dead" ELSE "active"
      /\ rec' = rec
      /\ files' = Put(files, c) /\ stale' = stale \cup OutdatedWrite(p, c) /\ held' = held /\ leases' = leases
  <2>1. CASE NackWrite(p)
    BY <2>1, OwnFacts DEF NackWrite, Goto
  <2>2. CASE ~ NackWrite(p)
    BY <2>2, OwnFacts DEF ReviveWrite, Goto
  <2> QED BY <2>1, <2>2
<1>2. /\ rec[p] \in File /\ rec[p].id \in Ids /\ rec[p].place = "leased"
      /\ rec[p].lease \in Nat \ {0} /\ leases[rec[p].id] \in Nat \ {0}
  BY <1>1, ReadFacts, LeasedRecord DEF Reviving, Ending
<1>3. place \in {"active", "dead"}
  OBVIOUS
<1> HIDE DEF place
<1>4. c \in File /\ c.id = rec[p].id /\ c.place = place /\ c.attempt = rec[p].attempt
  BY <1>2, <1>3, Versions DEF Places
<1> HIDE DEF c
<1>5. ~ Between(p, id)
  BY <1>1 DEF Between
<1>6. CASE rec[p].id # id
  <2>1. ~ Between(p, id)'
    BY <1>1, <1>6 DEF Between
  <2>2. Copies(id)' = Copies(id)
    BY <1>1, <1>4, <1>6 DEF Copies, Put, SamePath
  <2> QED BY <1>1, <1>5, <2>1, <2>2, GrantedSame, QuietAdvances
<1>7. CASE rec[p].id = id
  <2>1. Between(p, id)' /\ Origin(p)' = "leased"
    BY <1>1, <1>7 DEF Between, Origin
  <2>2. Moving(id) \subseteq {"leased"}
    BY <1>2, <1>7, StagedMove
  <2>3. c \in files \/ (rec[p] \in files /\ Moving(id) = {})
    <3>1. id \notin OutdatedWrite(p, c)
      BY <1>1 DEF Clean
    <3>2. c \in files \/ (rec[p] \in files /\ ~ \E q \in Procs : Between(q, id))
      BY <1>4, <1>7, <3>1 DEF OutdatedWrite
    <3> QED BY <3>2 DEF Moving
  <2>4. ASSUME rec[p] \in files
        PROVE  /\ c.attempt = leases[id] /\ (c.place = "dead" => leases[id] = 0 \/ leases[id] >= MaxAttempts)
               /\ c.place = "active" => id \in late \/ leases[id] < MaxAttempts
    <3>1. rec[p] \in Copies(id)
      BY <1>7, <2>4 DEF Copies
    <3>2. rec[p].attempt = leases[id] /\ rec[p].lease = leases[id]
      BY <1>2, <3>1 DEF Right, Fits, Count
    <3>3. CASE pc[p] = "reviveWrite"
      <4>1. rec[p].lease \in Over(id)
        BY <1>2, <1>7, <3>3, OwnFacts DEF Carries, Reviving, Expired, Over
      <4>2. id \in late
        BY <4>1 DEF Right, Fits, Timely
      <4> QED BY <1>1, <1>4, <3>2, <3>3, <4>2
    <3>4. CASE pc[p] = "nackWrite"
      <4>1. rec[p].id = InHand(p).id /\ rec[p].lease = InHand(p).lease /\ held[p] # <<>>
        BY <3>4, OwnFacts DEF Carries, Ending
      <4>2. 1 \in DOMAIN held[p] /\ InHand(p) = held[p][1] /\ InHand(p) \in Lease
        BY <4>1, HeldLeases, EmptySeq, LenProperties DEF InHand
      <4>3. InHand(p) \in Granted(id)
        BY <1>7, <4>1, <4>2 DEF Granted
      <4>4. InHand(p).attempt = leases[id]
        BY <3>2, <4>1, <4>3 DEF Right, Fits, Backed
      <4>5. Exhausted(InHand(p)) <=> leases[id] >= MaxAttempts
        BY <4>4 DEF Exhausted
      <4>6. ~ (leases[id] >= MaxAttempts) => leases[id] < MaxAttempts
        BY <1>2, <1>7, QueueAssumption
      <4> QED BY <1>1, <1>4, <3>2, <3>4, <4>5, <4>6
    <3> QED BY <1>1, <3>3, <3>4
  <2> QED BY <1>1, <1>2, <1>3, <1>4, <1>5, <1>7, <2>1, <2>2, <2>3, <2>4, WriteAdvances
<1> QED BY <1>6, <1>7

LEMMA UnlinkStepAdvances ==
  ASSUME Sound, Ledger, NEW p \in Procs, Step(p), NEW id \in Clean, id \in Clean', Right(id),
         UnlinkStaged(p) \/ ReviveUnlink(p) \/ NackUnlink(p)
  PROVE  Advance(id)
<1>1. /\ files' = files \ At(Origin(p), rec[p].id) /\ stale' = stale \cup OutdatedUnlink(p, At(Origin(p), rec[p].id))
      /\ pc[p] \in {"commitUnlink", "discardUnlink", "reviveUnlink", "nackUnlink"}
      /\ pc'[p] \notin {"commitUnlink", "discardUnlink", "reviveUnlink", "nackUnlink"} /\ leases' = leases
      /\ pc[p] = "nackUnlink" => held[p] # <<>> /\ Next1(p)
      /\ pc[p] # "nackUnlink" => held' = held
  <2>1. CASE UnlinkStaged(p)
    BY <2>1, OwnFacts DEF UnlinkStaged, Goto, Origin
  <2>2. CASE ReviveUnlink(p)
    BY <2>2, OwnFacts DEF ReviveUnlink, Goto, Origin
  <2>3. CASE NackUnlink(p)
    BY <2>3, OwnFacts DEF NackUnlink, Goto, Origin, Next1, Carries, Ending
  <2> QED BY <2>1, <2>2, <2>3
<1>2. ~ Between(p, id)'
  BY <1>1 DEF Between
<1>3. rec[p] \in File /\ rec[p].id \in Ids
  BY <1>1, ReadFacts DEF Deciding, Reviving, Ending
<1>4. pc[p] = "nackUnlink" => rec[p].id = InHand(p).id /\ rec[p].lease = InHand(p).lease
  BY OwnFacts DEF Carries, Ending
<1>5. CASE rec[p].id # id
  <2>1. ~ Between(p, id)
    BY <1>5 DEF Between
  <2>2. Copies(id)' = Copies(id)
    BY <1>1, <1>5 DEF Copies, At, In
  <2>3. Granted(id)' = Granted(id)
    BY <1>1, <1>4, <1>5, GrantedSame, GrantedNext DEF Ledger
  <2> QED BY <1>1, <1>2, <2>1, <2>2, <2>3, QuietAdvances
<1>6. CASE rec[p].id = id
  <2>1. Between(p, id)
    BY <1>1, <1>6 DEF Between
  <2>2. At(Origin(p), id) \subseteq {rec[p]}
    <3>1. id \notin OutdatedUnlink(p, At(Origin(p), id))
      BY <1>1, <1>6 DEF Clean
    <3> QED BY <1>6, <3>1 DEF OutdatedUnlink
  <2>3. CASE pc[p] = "nackUnlink"
    <3>1. /\ Granted(id)' = Granted(id) \ {InHand(p)}
          /\ \A h \in Granted(id) : h.lease = InHand(p).lease => h = InHand(p)
      BY <1>1, <1>4, <1>6, <2>3, GrantedNext DEF Ledger
    <3>2. \A f \in At("leased", id) : f.lease = InHand(p).lease
      BY <1>4, <2>2, <2>3 DEF Origin
    <3> QED BY <1>1, <1>2, <1>6, <2>1, <3>1, <3>2, UnlinkAdvances
  <2>4. CASE pc[p] = "reviveUnlink"
    <3>1. Granted(id)' = Granted(id)
      BY <1>1, <2>4, GrantedSame
    <3>2. rec[p].lease \in Over(id)
      BY <1>6, <2>4, OwnFacts, LeasedRecord DEF Carries, Reviving, Expired, Over
    <3>3. \A f \in At("leased", id) : f.lease \in Over(id)
      BY <2>2, <2>4, <3>2 DEF Origin
    <3> QED BY <1>1, <1>2, <1>6, <2>1, <3>1, <3>3, UnlinkAdvances
  <2>5. CASE pc[p] \in {"commitUnlink", "discardUnlink"}
    <3>1. Granted(id)' = Granted(id)
      BY <1>1, <2>5, GrantedSame
    <3>2. leases[id] = 0
      BY <1>6, <2>5, StagedMove DEF Deciding
    <3>3. \A h \in Granted(id) : FALSE
      <4> SUFFICES ASSUME NEW h \in Granted(id) PROVE FALSE
        OBVIOUS
      <4>1. PICK q \in Procs : \E k \in DOMAIN held[q] : held[q][k] = h
        BY DEF Granted
      <4>2. h.id = id /\ h.lease \in Nat \ {0} /\ h.lease <= leases[h.id]
        BY <4>1, HeldLeases DEF Granted
      <4> QED BY <3>2, <4>2
    <3> QED BY <1>1, <1>2, <1>6, <2>1, <3>1, <3>3, UnlinkAdvances
  <2> QED BY <1>1, <2>3, <2>4, <2>5
<1> QED BY <1>5, <1>6

(* Renaming a leased or an active file takes a message with one copy.      *)
LEMMA RenameSingle ==
  ASSUME Sound, Ledger, NEW p \in Procs, NEW id \in Clean, id \in Clean', Right(id), rec[p] \in File, rec[p].id = id,
         NEW there, stale' = stale \cup OutdatedRename(p, there), there # {}, there \subseteq files
  PROVE  there = {rec[p]} /\ Copies(id) = {rec[p]} /\ Moving(id) = {}
<1>1. id \notin OutdatedRename(p, there)
  BY DEF Clean
<1>2. there \subseteq {rec[p]} /\ ~ \E q \in Procs : Between(q, id)
  BY <1>1 DEF OutdatedRename
<1>3. Moving(id) = {} /\ rec[p] \in Copies(id)
  BY <1>2 DEF Moving, Copies
<1> QED BY <1>2, <1>3 DEF Right, Fits, Shape

LEMMA AckAdvances ==
  ASSUME Sound, Ledger, NEW p \in Procs, Step(p), NEW id \in Clean, id \in Clean', Right(id), AckRename(p)
  PROVE  Advance(id)
<1> DEFINE there == At("leased", rec[p].id)
<1>1. /\ pc[p] = "ackRename" /\ Next1(p) /\ leases' = leases /\ pc'[p] \in {"run", "idle"}
      /\ files' = IF there = {} THEN files
                  ELSE {g \in files \ there : ~(g.place = "done" /\ g.id = rec[p].id)}
                       \cup {Moved(g, "done") : g \in there}
      /\ stale' = stale \cup OutdatedRename(p, there)
  BY OwnFacts DEF AckRename, Goto, Next1
<1>2. /\ rec[p] \in File /\ rec[p].place = "leased" /\ held[p] # <<>>
      /\ rec[p].id = InHand(p).id /\ rec[p].lease = InHand(p).lease
  BY <1>1, ReadFacts, OwnFacts DEF Carries, Ending
<1>3. ~ Between(p, id) /\ ~ Between(p, id)'
  BY <1>1 DEF Between
<1>4. Others(p) /\ late' = late
  BY <1>1, StepSteady, StepHistory DEF Steady, AckRename, Crash, history
<1>5. \A g \in there : /\ g \in files /\ g.id = rec[p].id /\ Moved(g, "done").id = g.id
                       /\ Moved(g, "done").place = "done" /\ Moved(g, "done").attempt = g.attempt
  BY PlainFacts, Versions DEF At, In, Places
<1>6. CASE rec[p].id # id
  <2>1. Copies(id)' = Copies(id)
    BY <1>1, <1>5, <1>6 DEF Copies
  <2>2. Granted(id)' = Granted(id)
    BY <1>1, <1>2, <1>6, GrantedNext DEF Ledger
  <2> QED BY <1>1, <1>3, <2>1, <2>2, QuietAdvances
<1>7. CASE rec[p].id = id
  <2>1. /\ Granted(id)' = Granted(id) \ {InHand(p)}
        /\ \A h \in Granted(id) : h.lease = InHand(p).lease => h = InHand(p)
    BY <1>1, <1>2, <1>7, GrantedNext DEF Ledger
  <2>2. Moving(id)' = Moving(id)
    BY <1>3, <1>4, MovingSame
  <2>3. Over(id)' = Over(id)
    BY StepHistory DEF Over
  <2>4. CASE there = {}
    <3>1. Copies(id)' = Copies(id)
      BY <1>1, <2>4 DEF Copies
    <3>2. \A f \in Copies(id) : f.place # "leased"
      BY <1>7, <2>4 DEF Copies, At, In
    <3>3. Fits(Copies(id), Moving(id), Granted(id)', leases[id], Over(id), id \in late)
      BY <2>1, <3>2 DEF Right, Fits, Timely, Backed
    <3> QED BY <1>1, <1>4, <2>2, <2>3, <3>1, <3>3 DEF Advance, Right, Keeps
  <2>5. CASE there # {}
    <3>1. there = {rec[p]} /\ Copies(id) = {rec[p]} /\ Moving(id) = {}
      BY <1>1, <1>2, <1>5, <1>7, <2>5, RenameSingle
    <3> DEFINE h == Moved(rec[p], "done")
    <3>2. h.id = id /\ h.place = "done" /\ h.attempt = rec[p].attempt
      BY <1>5, <1>7, <3>1
    <3>3. Copies(id)' = {h}
      <4>1. files' = {g \in files \ there : ~(g.place = "done" /\ g.id = rec[p].id)} \cup {h}
        BY <1>1, <3>1
      <4>2. \A g \in files : g.id = id => g = rec[p]
        BY <3>1 DEF Copies
      <4> HIDE DEF h, there
      <4> QED BY <3>1, <3>2, <4>1, <4>2 DEF Copies
    <3> HIDE DEF h
    <3>4. Count({h}, leases[id])
      BY <3>1, <3>2 DEF Right, Fits, Count
    <3>5. Timely({h}, Granted(id)', leases[id], Over(id), id \in late)
      BY <3>2 DEF Right, Fits, Timely
    <3>6. Backed({h}, Granted(id)', Over(id))
      BY <1>2, <2>1, <3>1 DEF Right, Fits, Backed
    <3>7. rec[p] \in Copies(id) /\ leases'[id] = leases[id] /\ Moving(id)' = {}
      BY <1>1, <2>2, <3>1
    <3> QED BY <1>2, <1>4, <3>1, <3>3, <3>4, <3>5, <3>6, <3>7, VersionAdvances
  <2> QED BY <2>4, <2>5
<1> QED BY <1>6, <1>7

LEMMA ClaimAdvances ==
  ASSUME Sound, Ledger, NEW p \in Procs, Step(p), NEW id \in Clean, id \in Clean', Right(id), FsClaim(p)
  PROVE  Advance(id)
<1> DEFINE there == {g \in files : SamePath(rec[p], g)}
<1>1. /\ pc[p] = "claim" /\ held' = held /\ leases' = leases /\ pc'[p] \in {"scan", "stamp"}
      /\ \/ files' = files /\ there = {}
         \/ /\ there # {}
            /\ files' = {g \in files \ there : ~(g.place = "leased" /\ g.id = rec[p].id)}
                        \cup {Moved(g, "leased") : g \in there}
            /\ stale' = stale \cup OutdatedRename(p, there)
  BY OwnFacts DEF FsClaim, Goto
<1>2. rec[p] \in File /\ rec[p].place = "active" /\ rec[p].lease = 0
  BY <1>1, ReadFacts, OwnFacts DEF Carries, Leasing
<1>3. ~ Between(p, id) /\ ~ Between(p, id)'
  BY <1>1 DEF Between
<1>4. Others(p) /\ late \subseteq late'
  BY StepSteady, StepHistory DEF Steady
<1>5. Granted(id)' = Granted(id)
  BY <1>1, GrantedSame
<1>6. CASE files' = files
  <2>1. Copies(id)' = Copies(id)
    BY <1>6 DEF Copies
  <2> QED BY <1>1, <1>3, <1>5, <2>1, QuietAdvances
<1>7. CASE files' # files /\ rec[p].id # id
  <2>1. \A g \in there : g \in files /\ g.id = rec[p].id /\ Moved(g, "leased").id = g.id
    BY PlainFacts, Versions DEF SamePath, Places
  <2>2. Copies(id)' = Copies(id)
    BY <1>1, <1>7, <2>1 DEF Copies
  <2> QED BY <1>1, <1>3, <1>5, <2>2, QuietAdvances
<1>8. CASE files' # files /\ rec[p].id = id
  <2>1. there = {rec[p]} /\ Copies(id) = {rec[p]} /\ Moving(id) = {}
    <3>1. there # {} /\ there \subseteq files /\ stale' = stale \cup OutdatedRename(p, there)
      BY <1>1, <1>8
    <3> HIDE DEF there
    <3> QED BY <1>2, <1>8, <3>1, RenameSingle
  <2> DEFINE h == Moved(rec[p], "leased")
  <2>2. h.id = id /\ h.place = "leased" /\ h.attempt = rec[p].attempt /\ h.lease = 0
    BY <1>2, <1>8, Versions DEF Places
  <2>3. Copies(id)' = {h}
    <3>1. files' = {g \in files \ there : ~(g.place = "leased" /\ g.id = rec[p].id)} \cup {h}
      BY <1>1, <1>8, <2>1
    <3>2. \A g \in files : g.id = id => g = rec[p]
      BY <2>1 DEF Copies
    <3> HIDE DEF h, there
    <3> QED BY <2>1, <2>2, <3>1, <3>2 DEF Copies
  <2> HIDE DEF h
  <2>4. Count({h}, leases[id])
    BY <2>1, <2>2 DEF Right, Fits, Count
  <2>5. Timely({h}, Granted(id), leases[id], Over(id), id \in late')
    BY <1>2, <1>4, <2>1, <2>2 DEF Right, Fits, Timely
  <2>6. Backed({h}, Granted(id), Over(id))
    BY <1>2, <2>1 DEF Right, Fits, Backed
  <2>7. rec[p] \in Copies(id) /\ leases'[id] = leases[id] /\ Moving(id)' = {}
    BY <1>1, <1>3, <1>4, <2>1, MovingSame
  <2> QED BY <1>2, <1>5, <2>1, <2>3, <2>4, <2>5, <2>6, <2>7, VersionAdvances
<1> QED BY <1>6, <1>7, <1>8

(* A lease is granted on the one copy of a message that waits.             *)
LEMMA GrantAdvances ==
  ASSUME Sound, Ledger, NEW p \in Procs, Step(p), NEW id \in Clean, Right(id), NEW f \in Copies(id), Copies(id) = {f},
         NEW c \in File, Grants(p, c), c.id = id, c.attempt = f.attempt, Copies(id)' = {Stamped(c)}, Moving(id)' = {},
         \/ f.place = "active"
         \/ f.place = "leased" /\ f.lease = 0
         \/ f.place = "leased" /\ f.lease # 0 /\ f.lease \in Over(id)
  PROVE  Advance(id)
<1> DEFINE h == Stamped(c)
           l == Leased(Stamped(c))
           n == leases[id]
<1>1. /\ h.place = "leased" /\ h.attempt = c.attempt + 1 /\ h.lease = n + 1
      /\ l.lease = n + 1 /\ l.attempt = c.attempt + 1 /\ leases'[id] = n + 1 /\ n \in Nat
  BY Versions, GrantFacts
<1>2. Granted(id)' = Granted(id) \cup {l}
  BY GrantedMore
<1> HIDE DEF h, l
<1>3. f.attempt = n
  BY DEF Right, Fits, Count
<1>4. Count({h}, n + 1)
  BY <1>1, <1>3 DEF Count
<1>5. late \subseteq late'
  BY StepHistory
<1>6. id \notin late => n < MaxAttempts /\ Over(id) = {}
  BY DEF Right, Fits, Timely
<1>7. Timely({h}, Granted(id)', n + 1, Over(id), id \in late')
  <2>1. id \notin late' => n + 1 <= MaxAttempts
    BY <1>1, <1>5, <1>6, QueueAssumption
  <2>2. \E g \in Granted(id)' : g.lease = h.lease
    BY <1>1, <1>2
  <2>3. h.lease # 0
    BY <1>1
  <2> QED BY <1>1, <1>5, <1>6, <2>1, <2>2, <2>3 DEF Timely
<1>8. Backed({h}, Granted(id)', Over(id))
  <2>1. l.attempt = l.lease /\ h.place = "leased" /\ h.lease = l.lease
    BY <1>1, <1>3
  <2>2. \A g \in Granted(id) : g.attempt = g.lease /\ g.lease \in Over(id)
    <3>1. \A g \in Granted(id) : g.lease # 0
      BY DEF Granted, Lease
    <3> QED BY <3>1 DEF Right, Fits, Backed
  <2> QED BY <1>2, <2>1, <2>2 DEF Backed
<1>9. leases'[id] = n + 1 /\ Copies(id)' = {h}
  BY <1>1 DEF h
<1> QED BY <1>4, <1>7, <1>8, <1>9, VersionAdvances

LEMMA StampAdvances ==
  ASSUME Sound, Ledger, NEW p \in Procs, Step(p), NEW id \in Clean, id \in Clean', Right(id), FsStamp(p)
  PROVE  Advance(id)
<1> DEFINE c == rec[p]
           m == Moved(c, "leased")
<1>1. /\ pc[p] = "stamp" /\ pc'[p] = "scan" /\ files' = Put(files, Stamped(c))
      /\ stale' = stale \cup (IF m \in files THEN {} ELSE {Stamped(c).id})
      /\ held' = [held EXCEPT ![p] = Append(held[p], Leased(Stamped(c)))]
      /\ leases' = [leases EXCEPT ![Stamped(c).id] = @ + 1]
  BY OwnFacts DEF FsStamp, Goto
<1>2. c \in File /\ c.lease = 0 /\ c.id <= created
  BY <1>1, ReadFacts, OwnFacts DEF Carries, Leasing
<1>3. ~ Between(p, id) /\ ~ Between(p, id)'
  BY <1>1 DEF Between
<1>4. /\ Stamped(c).id = c.id /\ Stamped(c).place = "leased" /\ c.id \in Ids
      /\ m.place = "leased" /\ m.lease = 0 /\ m.id = c.id /\ m.attempt = c.attempt
  BY <1>2, Versions DEF Places
<1>5. Grants(p, c)
  BY <1>1, <1>2, <1>4 DEF Grants
<1> HIDE DEF c, m
<1>6. CASE c.id # id
  <2>1. Copies(id)' = Copies(id)
    BY <1>1, <1>4, <1>6 DEF Copies, Put, SamePath
  <2>2. Granted(id)' = Granted(id) /\ leases'[id] = leases[id]
    BY <1>2, <1>5, <1>6, GrantedMore, GrantFacts, CleanIds
  <2> QED BY <1>3, <2>1, <2>2, QuietAdvances
<1>7. CASE c.id = id
  <2>1. m \in files
    BY <1>1, <1>4, <1>7 DEF Clean
  <2>2. m \in Copies(id)
    BY <1>4, <1>7, <2>1 DEF Copies
  <2>3. Moving(id) = {}
    BY <1>4, <2>2 DEF Right, Fits, Shape
  <2>4. Copies(id) = {m}
    BY <2>2, <2>3 DEF Right, Fits, Shape
  <2>5. Copies(id)' = {Stamped(c)}
    <3>1. \A f : f \in Copies(id)' <=> f = Stamped(c) \/ (f \in Copies(id) /\ ~ SamePath(Stamped(c), f))
      BY <1>1, <1>4, <1>7 DEF Copies, Put
    <3>2. SamePath(Stamped(c), m)
      BY <1>4 DEF SamePath
    <3> QED BY <2>4, <3>1, <3>2
  <2>6. Moving(id)' = {}
    BY <1>3, <2>3, MovingSame, StepSteady DEF Steady
  <2> QED BY <1>2, <1>4, <1>5, <1>7, <2>2, <2>4, <2>5, <2>6, GrantAdvances
<1> QED BY <1>6, <1>7

(* Outside the file store nothing is between two operations and a message  *)
(* has one document.                                                       *)
LEMMA NoMoves ==
  ASSUME Sound, backend # "fs", NEW id
  PROVE  Moving(id) = {} /\ \A p \in Procs : ~ Between(p, id)
BY OwnFacts DEF Moving, Between, Carries

LEMMA DocumentAdvances ==
  ASSUME Sound, Ledger, backend # "fs", NEW p \in Procs, Step(p), NEW id \in Clean, Right(id), NEW f \in Copies(id),
         NEW h, Copies(id)' = {h}, f.place \notin {"done", "dead"}, Count({h}, leases'[id]),
         Timely({h}, Granted(id)', leases'[id], Over(id), id \in late'), Backed({h}, Granted(id)', Over(id))
  PROVE  Advance(id)
<1>1. Copies(id) = {f}
  BY CopyFacts
<1>2. Moving(id)' = {}
  <2>1. Others(p) /\ ~ Between(p, id)'
    BY StepSteady DEF Steady, Others, Carries, Between
  <2> QED BY <2>1, NoMoves, MovingLess
<1> QED BY <1>1, <1>2, VersionAdvances

LEMMA LeaseNextAdvances ==
  ASSUME Sound, Ledger, NEW p \in Procs, Step(p), NEW id \in Clean, id \in Clean', Right(id), LeaseNext(p)
  PROVE  Advance(id)
<1>1. /\ backend # "fs" /\ pc' = pc /\ rec' = rec
      /\ \/ UNCHANGED <<files, held, leases>>
         \/ \E g \in files : /\ Visible(g) /\ files' = (files \ {g}) \cup {Stamped(g)}
                             /\ held' = [held EXCEPT ![p] = Append(@, Leased(Stamped(g)))]
                             /\ leases' = [leases EXCEPT ![g.id] = @ + 1]
  BY LeaseNextFacts
<1>2. ~ Between(p, id) /\ ~ Between(p, id)'
  BY <1>1, NoMoves DEF Between
<1>3. CASE UNCHANGED <<files, held, leases>>
  BY <1>2, <1>3, GrantedSame, QuietAdvances DEF Copies
<1>4. CASE \E g \in files : /\ Visible(g) /\ files' = (files \ {g}) \cup {Stamped(g)}
                            /\ held' = [held EXCEPT ![p] = Append(@, Leased(Stamped(g)))]
                            /\ leases' = [leases EXCEPT ![g.id] = @ + 1]
  <2>1. PICK g \in files : /\ Visible(g) /\ files' = (files \ {g}) \cup {Stamped(g)}
                           /\ held' = [held EXCEPT ![p] = Append(held[p], Leased(Stamped(g)))]
                           /\ leases' = [leases EXCEPT ![g.id] = @ + 1]
    BY <1>4
  <2>2. g \in File /\ Stamped(g).id = g.id /\ g.id <= created /\ Grants(p, g)
    BY <2>1, PlainFacts, Versions DEF Sound, Paths, Grants
  <2>3. CASE g.id # id
    <3>1. Copies(id)' = Copies(id)
      BY <2>1, <2>2, <2>3 DEF Copies
    <3>2. Granted(id)' = Granted(id) /\ leases'[id] = leases[id]
      BY <2>2, <2>3, GrantedMore, GrantFacts, CleanIds
    <3> QED BY <1>2, <3>1, <3>2, QuietAdvances
  <2>4. CASE g.id = id
    <3>1. g \in Copies(id) /\ Copies(id) = {g}
      BY <1>1, <2>4, CopyFacts DEF Copies
    <3>2. Copies(id)' = {Stamped(g)}
      BY <2>1, <2>2, <2>4, <3>1 DEF Copies
    <3>3. Moving(id)' = {}
      BY <1>1, <1>2, StepSteady, NoMoves, MovingSame DEF Steady
    <3>4. g.place = "active" \/ (g.place = "leased" /\ g.lease # 0 /\ g.lease \in Over(id))
      BY <2>1, <2>2, <2>4 DEF Visible, Expired, Over, Sound, Typed, TypeOK
    <3> QED BY <2>2, <2>4, <3>1, <3>2, <3>3, <3>4, GrantAdvances
  <2> QED BY <2>3, <2>4
<1> QED BY <1>1, <1>3, <1>4

LEMMA MemoryLeaseAdvances ==
  ASSUME Sound, Ledger, NEW p \in Procs, Step(p), NEW id \in Clean, id \in Clean', Right(id), MemoryLease(p)
  PROVE  Advance(id)
<1>1. /\ backend = "memory" /\ files' = {Cleared(f) : f \in files}
      /\ UNCHANGED <<rec, held, leases, late>>
  BY DEF MemoryLease, history
<1>2. ~ Between(p, id) /\ ~ Between(p, id)'
  BY <1>1, StepSteady, NoMoves DEF Steady, Others, Carries, Between
<1>3. PICK f \in Copies(id) : Copies(id) = {f}
  BY <1>1, CopyFacts DEF Right, Fits, Shape
<1>4. f \in files /\ f.id = id
  BY <1>3 DEF Copies
<1>5. Copies(id)' = {Cleared(f)}
  <2>1. \A k \in files : Cleared(k).id = k.id
    BY ClearedFacts
  <2>2. \A k \in files : k.id = id => k = f
    BY <1>3 DEF Copies
  <2> QED BY <1>1, <1>4, <2>1, <2>2 DEF Copies
<1>6. Granted(id)' = Granted(id) /\ leases'[id] = leases[id]
  BY <1>1, GrantedSame
<1>7. CASE Cleared(f) = f
  <2>1. Copies(id)' = Copies(id)
    BY <1>3, <1>5, <1>7
  <2> QED BY <1>2, <1>6, <2>1, QuietAdvances
<1>8. CASE Cleared(f) # f
  <2>1. f.place = "leased" /\ f.lease \in Over(id) /\ Cleared(f).place = "active" /\ Cleared(f).attempt = f.attempt
    BY <1>4, <1>8, ClearedFacts DEF Expired, Over, Sound, Typed, TypeOK
  <2>2. id \in late
    BY <2>1 DEF Right, Fits, Timely
  <2> DEFINE h == Cleared(f)
  <2>3. h.place = "active" /\ h.attempt = f.attempt /\ Copies(id)' = {h}
    BY <1>5, <2>1
  <2> HIDE DEF h
  <2>4. Count({h}, leases[id])
    BY <1>3, <2>3 DEF Right, Fits, Count
  <2>5. Timely({h}, Granted(id), leases[id], Over(id), id \in late')
    BY <1>1, <2>2 DEF Timely
  <2>6. Backed({h}, Granted(id), Over(id))
    BY <1>3, <2>1 DEF Right, Fits, Backed
  <2> QED BY <1>1, <1>3, <1>6, <2>1, <2>3, <2>4, <2>5, <2>6, DocumentAdvances
<1> QED BY <1>7, <1>8

(* A lease that is settled, or of which there is nothing to settle.        *)
LEMMA HandleAdvances ==
  ASSUME Sound, Ledger, NEW p \in Procs, Step(p), NEW id \in Clean, id \in Clean', Right(id), HandleOk(p) \/ HandleThrows(p)
  PROVE  Advance(id)
<1> DEFINE i == InHand(p).id
           v(f) == IF HandleThrows(p) THEN Nacked(f, Exhausted(InHand(p))) ELSE Acked(f)
<1>1. pc[p] = "run" /\ held[p] # <<>> /\ leases' = leases /\ late' = late
  BY OwnFacts DEF HandleOk, HandleThrows, Carries, Ending, history
<1>2. Others(p)
  BY StepSteady DEF Steady
<1>3. ~ Between(p, id) /\ ~ Between(p, id)'
  BY <1>1, OwnFacts DEF HandleOk, HandleThrows, Goto, Next1, Between
<1>4. CASE backend = "fs" /\ Mine(p) # {}
  <2>1. files' = files /\ held' = held
    BY <1>4 DEF HandleOk, HandleThrows
  <2> QED BY <1>1, <1>3, <2>1, GrantedSame, QuietAdvances DEF Copies
<1>5. CASE backend # "fs" \/ Mine(p) = {}
  <2>1. /\ Next1(p) /\ (Mine(p) = {} => files' = files)
        /\ Mine(p) # {} => files' = (files \ Mine(p)) \cup {v(f) : f \in Mine(p)}
    <3>1. CASE HandleThrows(p)
      BY <1>5, <3>1 DEF HandleThrows
    <3>2. CASE ~ HandleThrows(p)
      BY <1>5, <3>2 DEF HandleOk
    <3> QED BY <3>1, <3>2
  <2>2. /\ InHand(p) \in Granted(i) /\ InHand(p) \in Lease
        /\ id # i => Granted(id)' = Granted(id)
        /\ id = i => /\ Granted(id)' = Granted(id) \ {InHand(p)}
                     /\ \A h \in Granted(id) : h.lease = InHand(p).lease => h = InHand(p)
    BY <1>1, <2>1, GrantedNext DEF Ledger
  <2>3. \A f \in Mine(p) : /\ f \in files /\ f \in File /\ f.place = "leased" /\ f.id = i /\ f.lease = InHand(p).lease
    BY PlainFacts DEF Mine, At, In
  <2>4. ASSUME NEW f \in Mine(p)
        PROVE  /\ v(f).id = i /\ v(f).attempt = f.attempt
               /\ v(f).place \in {"done", "dead", "active"}
               /\ v(f).place = "dead" => InHand(p).attempt >= MaxAttempts
               /\ v(f).place = "active" => ~ (InHand(p).attempt >= MaxAttempts)
    <3>1. CASE ~ HandleThrows(p)
      BY <2>3, <3>1 DEF Acked, FirestoreAcked, MemoryAcked, Moved, File
    <3>2. CASE HandleThrows(p) /\ backend = "memory"
      BY <2>3, <3>2 DEF Nacked, MemoryNacked, Moved, File, Exhausted
    <3>3. CASE HandleThrows(p) /\ backend # "memory"
      BY <2>3, <3>3 DEF Nacked, FirestoreNacked, Moved, File, Exhausted
    <3> QED BY <3>1, <3>2, <3>3
  <2> HIDE DEF v
  <2>5. CASE id # i
    <3>1. Copies(id)' = Copies(id)
      BY <2>1, <2>3, <2>4, <2>5 DEF Copies
    <3> QED BY <1>1, <1>3, <2>2, <2>5, <3>1, QuietAdvances
  <2>6. CASE id = i /\ Mine(p) = {}
    <3>1. Copies(id)' = Copies(id)
      BY <2>1, <2>6 DEF Copies
    <3>2. \A f \in Copies(id) : ~ (f.place = "leased" /\ f.lease = InHand(p).lease)
      BY <2>6 DEF Copies, Mine, At, In
    <3>3. Fits(Copies(id), Moving(id), Granted(id)', leases[id], Over(id), id \in late)
      BY <2>2, <2>6, <3>2 DEF Right, Fits, Timely, Backed
    <3>4. Moving(id)' = Moving(id) /\ Over(id)' = Over(id)
      BY <1>2, <1>3, MovingSame, StepHistory DEF Over
    <3> QED BY <1>1, <3>1, <3>3, <3>4 DEF Advance, Right, Keeps
  <2>7. CASE id = i /\ Mine(p) # {} /\ backend # "fs"
    <3>1. PICK f \in Mine(p) : TRUE
      BY <2>7
    <3>2. f \in Copies(id) /\ Copies(id) = {f} /\ Mine(p) = {f}
      <4>1. f \in Copies(id) /\ Mine(p) \subseteq Copies(id)
        BY <2>3, <2>7, <3>1 DEF Copies
      <4> QED BY <2>7, <4>1, CopyFacts
    <3> DEFINE h == v(f)
    <3>3. /\ h.id = id /\ h.attempt = f.attempt /\ h.place \in {"done", "dead", "active"}
          /\ h.place = "dead" => InHand(p).attempt >= MaxAttempts
          /\ h.place = "active" => ~ (InHand(p).attempt >= MaxAttempts)
      BY <2>4, <2>7
    <3>4. Copies(id)' = {h}
      <4>1. files' = (files \ {f}) \cup {h}
        BY <2>1, <2>7, <3>2
      <4>2. \A g \in files : g.id = id => g = f
        BY <3>2 DEF Copies
      <4> HIDE DEF h
      <4> QED BY <3>3, <4>1, <4>2 DEF Copies
    <3> HIDE DEF h
    <3>5. InHand(p).attempt = InHand(p).lease /\ f.lease = InHand(p).lease /\ f.lease # 0
      BY <2>2, <2>3, <2>7 DEF Right, Fits, Backed, Lease
    <3>6. f.attempt = leases[id] /\ f.lease = leases[id]
      BY <2>3, <3>2, <3>5 DEF Right, Fits, Count
    <3>7. Count({h}, leases[id])
      BY <3>3, <3>5, <3>6 DEF Count
    <3>8. Timely({h}, Granted(id)', leases[id], Over(id), id \in late)
      <4>1. h.place = "active" => leases[id] < MaxAttempts
        BY <3>3, <3>5, <3>6, CleanIds, QueueAssumption
      <4>2. h.place # "leased"
        BY <3>3
      <4> QED BY <4>1, <4>2 DEF Right, Fits, Timely
    <3>9. Backed({h}, Granted(id)', Over(id))
      BY <2>2, <2>7, <3>2, <3>5 DEF Right, Fits, Backed
    <3> QED BY <1>1, <2>3, <2>7, <3>2, <3>4, <3>7, <3>8, <3>9, DocumentAdvances
  <2> QED BY <1>5, <2>5, <2>6, <2>7
<1> QED BY <1>4, <1>5

LEMMA SettleAtOnceAdvances ==
  ASSUME Sound, Ledger, NEW p \in Procs, Step(p), NEW id \in Clean, id \in Clean', Right(id),
         NEW f \in In("staged"), CommitAtOnce(p, f) \/ DiscardAtOnce(p, f)
  PROVE  Advance(id)
<1>1. PICK h \in {Promoted(f), Moved(f, "dead")} :
        /\ files' = (files \ {f}) \cup {h} /\ backend # "fs" /\ pc' = pc /\ rec' = rec
        /\ UNCHANGED <<held, leases>> /\ late' = late
  BY DEF CommitAtOnce, DiscardAtOnce, SettleStagedAtOnce, history
<1>2. f \in files /\ f \in File /\ f.place = "staged"
  BY PlainFacts DEF In
<1>3. h.id = f.id /\ h.place \in {"active", "dead"} /\ (h.place = "active" => h.attempt = 0) /\ (h.place = "dead" => h.attempt = f.attempt)
  BY <1>1, <1>2, Versions DEF Places
<1>4. Granted(id)' = Granted(id) /\ ~ Between(p, id) /\ ~ Between(p, id)'
  BY <1>1, GrantedSame, NoMoves DEF Between
<1>5. CASE f.id # id
  <2>1. Copies(id)' = Copies(id)
    BY <1>1, <1>3, <1>5 DEF Copies
  <2> QED BY <1>1, <1>4, <2>1, QuietAdvances
<1>6. CASE f.id = id
  <2>1. f \in Copies(id) /\ Copies(id) = {f}
    BY <1>1, <1>2, <1>6, CopyFacts DEF Copies
  <2>2. Copies(id)' = {h}
    <3>1. \A g \in files : g.id = id => g = f
      BY <2>1 DEF Copies
    <3> QED BY <1>1, <1>3, <1>6, <3>1 DEF Copies
  <2>3. leases[id] = 0 /\ f.attempt = 0
    BY <1>2, <2>1 DEF Right, Fits, Count
  <2>4. Count({h}, leases[id])
    BY <1>3, <2>3 DEF Count
  <2>5. Timely({h}, Granted(id), leases[id], Over(id), id \in late)
    BY <1>3, <2>3, QueueAssumption DEF Right, Fits, Timely
  <2>6. Backed({h}, Granted(id), Over(id))
    BY <1>2, <2>1 DEF Right, Fits, Backed
  <2> QED BY <1>1, <1>2, <1>4, <2>1, <2>2, <2>4, <2>5, <2>6, DocumentAdvances
<1> QED BY <1>5, <1>6

(* A message that is created, and what creating it leaves of the others.   *)
LEMMA CreateAdvances ==
  ASSUME Sound, Ledger, NEW p \in Procs, Step(p), NEW place \in {"active", "staged"}, NEW key \in Keys \cup {NoKey},
         Create(p, place, key), held' = held, leases' = leases, rec' = rec, pc'[p] = "idle", pc[p] \in {"idle", "create"},
         NEW i, i = created + 1
  PROVE  /\ \A id \in Clean : Right(id) => Advance(id)
         /\ created' = i /\ Right(i)'
<1> DEFINE n == NewFile(place, key)
<1>1. files' = Put(files, n) /\ created' = i /\ created < MaxMessages[backend]
  BY DEF Create
<1>2. n \in File /\ n.id = i /\ n.lease = 0 /\ n.place = place /\ n.attempt = 0
  BY <1>1, NewFileType
<1>0. PICK m : m = n
  OBVIOUS
<1> HIDE DEF n
<1>3. created \in Nat /\ i \in Ids /\ i > created
  BY <1>2, PlainFacts DEF File
<1>4. \A f \in files : f.id # i
  BY <1>3, PlainFacts, IdsAreNumbers DEF Sound, Paths, File
<1>5. ASSUME NEW id \in Clean, Right(id) PROVE Advance(id)
  <2>1. id # i
    BY <1>3, CleanIds
  <2>2. Copies(id)' = Copies(id)
    BY <1>1, <1>2, <2>1 DEF Copies, Put, SamePath
  <2>3. ~ Between(p, id) /\ ~ Between(p, id)'
    BY DEF Between
  <2> QED BY <1>5, <2>2, <2>3, GrantedSame, QuietAdvances
<1>6. leases[i] = 0 /\ Over(i) = {}
  <2>1. leases[i] = 0
    BY <1>3 DEF Ledger, Given
  <2>2. \A t \in Nat : <<i, t>> \in lapsed => t <= 0 /\ t # 0
    BY <1>3, <2>1 DEF Ledger, Given, Sound, Typed, TypeOK
  <2> QED BY <2>1, <2>2 DEF Over
<1>7. Granted(i) = {}
  <2> SUFFICES ASSUME NEW h \in Granted(i) PROVE FALSE
    OBVIOUS
  <2>1. PICK q \in Procs : \E k \in DOMAIN held[q] : held[q][k] = h
    BY DEF Granted
  <2>2. h.id <= created /\ h.id = i
    BY <2>1, HeldLeases DEF Granted
  <2> QED BY <1>3, <2>2
<1>8. Moving(i)' = {}
  <2>1. \A q \in Procs : ~ Between(q, i)
    <3> SUFFICES ASSUME NEW q \in Procs, Between(q, i) PROVE FALSE
      OBVIOUS
    <3>1. rec[q].id = i /\ rec[q].id <= created
      BY ReadFacts DEF Between, Reviving, Ending, Deciding
    <3> QED BY <1>3, <3>1
  <2>2. Others(p) /\ ~ Between(p, i)'
    BY StepSteady DEF Between, Steady
  <2>3. Moving(i) = {}
    BY <2>1 DEF Moving
  <2> QED BY <2>2, <2>3, MovingLess
<1>9. Copies(i)' = {m}
  BY <1>0, <1>1, <1>2, <1>4 DEF Copies, Put
<1>10. Granted(i)' = {} /\ Over(i)' = {} /\ leases'[i] = 0
  BY <1>6, <1>7, GrantedSame, StepHistory DEF Over
<1>11. \A l : Fits({m}, {}, {}, 0, {}, l)
  BY <1>0, <1>2, QueueAssumption DEF Fits, Shape, Count, Timely, Backed
<1>12. Right(i)'
  BY <1>8, <1>9, <1>10, <1>11 DEF Right
<1> QED BY <1>1, <1>5, <1>12

LEMMA CrashAdvances ==
  ASSUME Sound, Ledger, NEW p \in Procs, Step(p), NEW id \in Clean, id \in Clean', Right(id), Crash(p)
  PROVE  Advance(id)
<1>1. /\ files' = files /\ leases' = leases /\ pc'[p] = "down" /\ torn' = torn \cup Torn(p)
  BY OwnFacts DEF Crash, Goto
<1>2. ~ Between(p, id) /\ ~ Between(p, id)'
  BY <1>1 DEF Between, Torn, Clean
<1>3. Moving(id)' = Moving(id) /\ Over(id)' = Over(id) /\ late \subseteq late'
  BY <1>2, StepSteady, StepHistory, MovingSame DEF Steady, Over
<1>4. Granted(id)' \subseteq Granted(id) /\ (id \notin late' => Granted(id)' = Granted(id))
  BY GrantedLost
<1>5. Fits(Copies(id), Moving(id), Granted(id)', leases[id], Over(id), id \in late')
  BY <1>3, <1>4 DEF Right, Fits, Timely, Backed
<1> QED BY <1>1, <1>3, <1>5 DEF Advance, Right, Keeps, Copies

(* Reading and listing.                                                    *)
LEMMA ReadingAdvances ==
  ASSUME Sound, Ledger, NEW p \in Procs, Step(p), NEW id \in Clean, Right(id),
         \/ CheckAbsent(p) \/ ReviveRead(p) \/ EndRevive(p) \/ FsRead(p) \/ EndScan(p) \/ BeginLease(p) \/ Restart(p)
         \/ \E place \in Kinds[backend] \ {"plain"}, key \in Keys : BeginCreate(p, place, key)
         \/ \E f \in In("staged") : SettleStaged(p, f, "commitWrite") \/ SettleStaged(p, f, "discardWrite")
  PROVE  Advance(id)
<1>1. files' = files /\ held' = held /\ leases' = leases
  BY DEF CheckAbsent, ReviveRead, EndRevive, FsRead, EndScan, BeginLease, Restart, BeginCreate, SettleStaged
<1>2. ~ Between(p, id) /\ ~ Between(p, id)'
  <2>1. CASE CheckAbsent(p) \/ ReviveRead(p) \/ EndRevive(p) \/ EndScan(p) \/ Restart(p)
    BY <2>1, OwnFacts DEF CheckAbsent, ReviveRead, EndRevive, EndScan, Restart, Goto, Between
  <2>2. CASE FsRead(p)
    BY <2>2, OwnFacts DEF FsRead, Goto, Between
  <2>3. CASE BeginLease(p) \/ \E place \in Kinds[backend] \ {"plain"}, key \in Keys : BeginCreate(p, place, key)
    BY <2>3, OwnFacts DEF BeginLease, BeginScan, BeginCreate, Goto, Between
  <2>4. CASE \E f \in In("staged") : SettleStaged(p, f, "commitWrite") \/ SettleStaged(p, f, "discardWrite")
    BY <2>4, OwnFacts DEF SettleStaged, Goto, Between
  <2> QED BY <2>1, <2>2, <2>3, <2>4
<1>3. Copies(id)' = Copies(id)
  BY <1>1 DEF Copies
<1> QED BY <1>1, <1>2, <1>3, GrantedSame, QuietAdvances

AllRight == \A id \in Clean : Right(id)

LEMMA StepAdvances ==
  ASSUME Sound, Ledger, AllRight, NEW p \in Procs, Step(p)
  PROVE  (\A id \in Clean : id \in Clean' => Advance(id)) /\ AllRight'
<1>1. CASE \E place \in {"active", "staged"}, key \in Keys \cup {NoKey} :
             /\ Create(p, place, key) /\ held' = held /\ leases' = leases /\ rec' = rec
             /\ pc'[p] = "idle" /\ pc[p] \in {"idle", "create"}
  <2>0. PICK i : i = created + 1
    OBVIOUS
  <2>1. (\A id \in Clean : Advance(id)) /\ created' = created + 1 /\ created' = i /\ Right(i)'
    BY <1>1, <2>0, CreateAdvances DEF AllRight
  <2>2. stale \subseteq stale' /\ torn \subseteq torn'
    BY StepHistory
  <2>3. \A id \in Clean' : id \in Clean \/ id = i
    BY <2>1, <2>2, PlainFacts DEF Clean
  <2>4. \A id \in Clean : Right(id)'
    BY <2>1 DEF Advance
  <2>5. AllRight'
    BY <2>1, <2>3, <2>4 DEF AllRight
  <2> QED BY <2>1, <2>5
<1>2. CASE created' = created
  <2>1. Clean' \subseteq Clean
    BY <1>2, StepHistory DEF Clean
  <2>2. SUFFICES ASSUME NEW id \in Clean, id \in Clean' PROVE Advance(id)
    BY <2>1 DEF AllRight, Advance
  <2>3. Right(id)
    BY DEF AllRight
  <2>4. CASE \/ CheckAbsent(p) \/ ReviveRead(p) \/ EndRevive(p) \/ FsRead(p) \/ EndScan(p) \/ BeginLease(p) \/ Restart(p)
             \/ \E place \in Kinds[backend] \ {"plain"}, key \in Keys : BeginCreate(p, place, key)
             \/ \E f \in In("staged") : SettleStaged(p, f, "commitWrite") \/ SettleStaged(p, f, "discardWrite")
    BY <2>2, <2>3, <2>4, ReadingAdvances
  <2>5. CASE \E f \in In("staged") : CommitAtOnce(p, f) \/ DiscardAtOnce(p, f)
    BY <2>2, <2>3, <2>5, SettleAtOnceAdvances
  <2>6. CASE CommitWrite(p) \/ DiscardWrite(p) \/ UnlinkStaged(p) \/ ReviveWrite(p) \/ ReviveUnlink(p) \/ NackWrite(p) \/ NackUnlink(p)
    BY <2>2, <2>3, <2>6, CommitAdvances, BareAdvances, UnlinkStepAdvances
  <2>7. CASE FsClaim(p) \/ FsStamp(p) \/ LeaseNext(p) \/ MemoryLease(p)
    BY <2>2, <2>3, <2>7, ClaimAdvances, StampAdvances, LeaseNextAdvances, MemoryLeaseAdvances
  <2>8. CASE AckRename(p) \/ HandleOk(p) \/ HandleThrows(p) \/ Crash(p)
    BY <2>2, <2>3, <2>8, AckAdvances, HandleAdvances, CrashAdvances
  <2>9. CASE WriteAbsent(p)
    <3>1. UNCHANGED <<files, held, leases, rec>> /\ pc[p] = "create" /\ pc'[p] = "idle"
      BY <1>2, <2>9, OwnFacts, PlainFacts DEF WriteAbsent, Create, Goto
    <3> QED BY <2>2, <2>3, <3>1, GrantedSame, QuietAdvances DEF Copies, Between
  <2>10. CASE Enqueue(p) \/ \E place \in Kinds[backend] \ {"plain"}, key \in Keys : MemoryCreateIfAbsent(p, place, key)
    BY <1>2, <2>10, PlainFacts DEF Enqueue, MemoryCreateIfAbsent, Create
  <2> QED BY <2>4, <2>5, <2>6, <2>7, <2>8, <2>9, <2>10 DEF Step, Produce, Tick, Work, Effect, FirestoreClaim, MemoryClaim
<1>3. CASE Enqueue(p) \/ WriteAbsent(p) \/ \E place \in Kinds[backend] \ {"plain"}, key \in Keys : MemoryCreateIfAbsent(p, place, key)
  <2>1. CASE Enqueue(p)
    BY <1>1, <2>1, OwnFacts DEF Enqueue
  <2>2. CASE WriteAbsent(p)
    <3>1. want[p].goal \in {"active", "staged"} /\ want[p].key \in Keys \cup {NoKey}
      BY <2>2, OwnFacts DEF WriteAbsent, Carries, Want
    <3>2. \/ UNCHANGED created
          \/ /\ Create(p, want[p].goal, want[p].key) /\ held' = held /\ leases' = leases /\ rec' = rec
             /\ pc'[p] = "idle" /\ pc[p] = "create"
      BY <2>2, OwnFacts DEF WriteAbsent, Goto
    <3> QED BY <1>1, <1>2, <3>1, <3>2
  <2>3. CASE \E place \in Kinds[backend] \ {"plain"}, key \in Keys : MemoryCreateIfAbsent(p, place, key)
    BY <1>1, <2>3, QueueAssumption, PlainFacts, OwnFacts DEF MemoryCreateIfAbsent
  <2> QED BY <1>3, <2>1, <2>2, <2>3
<1>4. CASE ~ (Enqueue(p) \/ WriteAbsent(p) \/ \E place \in Kinds[backend] \ {"plain"}, key \in Keys : MemoryCreateIfAbsent(p, place, key))
  <2>1. created' = created
    <3>1. CASE Produce(p)
      BY <1>4, <3>1 DEF Produce, BeginCreate, SettleStaged, CommitAtOnce, DiscardAtOnce, SettleStagedAtOnce, store
    <3>2. CASE Tick(p) \/ HandleOk(p) \/ HandleThrows(p) \/ Crash(p) \/ Restart(p)
      BY <3>2 DEF Tick, BeginLease, MemoryLease, HandleOk, HandleThrows, Crash, Restart, store
    <3>3. CASE CheckAbsent(p) \/ CommitWrite(p) \/ DiscardWrite(p) \/ UnlinkStaged(p)
               \/ ReviveRead(p) \/ ReviveWrite(p) \/ ReviveUnlink(p) \/ EndRevive(p)
      BY <3>3 DEF CheckAbsent, CommitWrite, DiscardWrite, UnlinkStaged, ReviveRead, ReviveWrite, ReviveUnlink, EndRevive, store
    <3>4. CASE FsRead(p) \/ FsClaim(p) \/ FsStamp(p) \/ LeaseNext(p) \/ EndScan(p) \/ AckRename(p) \/ NackWrite(p) \/ NackUnlink(p)
      BY <3>4 DEF FsRead, FsClaim, FsStamp, LeaseNext, EndScan, AckRename, NackWrite, NackUnlink, store
    <3> QED BY <1>4, <3>1, <3>2, <3>3, <3>4 DEF Step, Work, Effect, FirestoreClaim, MemoryClaim
  <2> QED BY <1>2, <2>1
<1> QED BY <1>3, <1>4

(* A lease that expires makes its message late, or its message is.         *)
LEMMA LapseAdvances ==
  ASSUME Sound, Ledger, AllRight, NEW i \in Ids, NEW token \in 1..leases[i], Lapse(i, token) \/ LapseAbandoned(i, token)
  PROVE  AllRight' /\ \A id \in Clean : Advance(id)
<1>1. /\ lapsed' = lapsed \cup {<<i, token>>} /\ late \subseteq late'
      /\ Lapse(i, token) => i \in late'
      /\ UNCHANGED <<created, files, pc, rec, held, leases, stale, torn>>
  BY DEF Lapse, LapseAbandoned, store, history
<1>2. token \in Nat \ {0}
  BY PlainFacts
<1>3. Clean' = Clean
  BY <1>1 DEF Clean
<1>4. ASSUME NEW id \in Clean PROVE Right(id)' /\ Copies(id)' = Copies(id)
  <2>1. Copies(id)' = Copies(id) /\ Moving(id)' = Moving(id) /\ Granted(id)' = Granted(id) /\ leases'[id] = leases[id]
    BY <1>1 DEF Copies, Moving, Granted, Between, Origin
  <2>2. Over(id) \subseteq Over(id)' /\ (id # i => Over(id)' = Over(id))
    BY <1>1 DEF Over
  <2>3. Fits(Copies(id), Moving(id), Granted(id), leases[id], Over(id), id \in late)
    BY DEF AllRight, Right
  <2>4. CASE id # i
    <3>1. Fits(Copies(id), Moving(id), Granted(id), leases[id], Over(id), id \in late')
      BY <1>1, <2>3 DEF Fits, Timely
    <3> QED BY <2>1, <2>2, <2>4, <3>1 DEF Right
  <2>5. CASE id = i
    <3>1. id \in late'
      <4>1. CASE LapseAbandoned(i, token)
        <5>1. PICK f \in At("leased", id) : f.lease = token
          BY <2>5, <4>1 DEF LapseAbandoned
        <5>2. f \in Copies(id) /\ f.place = "leased" /\ f.lease # 0
          BY <1>2, <5>1 DEF Copies, At, In
        <5>3. ~ \E h \in Granted(id) : h.lease = token
          BY <2>5, <4>1 DEF LapseAbandoned, Holder, Holds, Granted
        <5> QED BY <1>1, <2>3, <5>1, <5>2, <5>3 DEF Fits, Timely
      <4> QED BY <1>1, <2>5, <4>1
    <3>2. Fits(Copies(id), Moving(id), Granted(id), leases[id], Over(id)', id \in late')
      BY <2>2, <2>3, <3>1 DEF Fits, Timely, Backed
    <3> QED BY <2>1, <3>2 DEF Right
  <2> QED BY <2>4, <2>5
<1>5. \A id \in Clean : Advance(id)
  BY <1>4 DEF Advance, Keeps
<1> QED BY <1>3, <1>4, <1>5 DEF AllRight

LEMMA NextAdvances ==
  ASSUME Sound, Ledger, AllRight, [Next]_vars
  PROVE  AllRight' /\ \A id \in Clean : id \in Clean' => Keeps(Copies(id), Copies(id)')
<1>1. ASSUME NEW p \in Procs, Step(p) PROVE AllRight' /\ \A id \in Clean : id \in Clean' => Advance(id)
  BY <1>1, StepAdvances
<1>2. CASE UNCHANGED vars
  <2>1. Clean' = Clean
    BY <1>2 DEF Clean, vars, store, history
  <2>2. ASSUME NEW id \in Clean PROVE Right(id)' /\ Copies(id)' = Copies(id)
    <3>1. Copies(id)' = Copies(id) /\ Granted(id)' = Granted(id) /\ Over(id)' = Over(id)
      BY <1>2 DEF Copies, Granted, Over, vars, store, history
    <3>2. Moving(id)' = Moving(id)
      BY <1>2 DEF Moving, Between, Origin, vars, store, history
    <3>3. leases'[id] = leases[id] /\ late' = late
      BY <1>2 DEF vars, store, history
    <3> QED BY <3>1, <3>2, <3>3 DEF AllRight, Right
  <2> QED BY <2>1, <2>2 DEF AllRight, Keeps
<1> QED BY <1>1, <1>2, LapseAdvances DEF Next, Abandoned, Step, Advance

QueueInv == Sound /\ Ledger /\ AllRight

LEMMA QueueInvariant == Spec => []QueueInv
<1>1. Init => QueueInv
  <2>1. Init => Ledger
    BY DEF Init, Ledger, Owners, Given, Tokens, Deciding
  <2>2. Init => Clean = {}
    BY DEF Init, Clean
  <2> QED BY <2>1, <2>2, SoundInit DEF QueueInv, AllRight
<1>2. QueueInv /\ [Next]_vars => QueueInv'
  BY SoundStep, LedgerNext, NextAdvances DEF QueueInv
<1> QED BY <1>1, <1>2, PTL DEF Spec

(* Nobody else handles a message while a lease on it is in time            *)
(* (storage-fs-adapters.ts:391-417, revival only of the expired): tokens   *)
(* are given out once, and a lease in time has its file, of which there is *)
(* one per message.                                                        *)
THEOREM HoldersAreSingle == Spec => []OneHolder
<1>1. QueueInv => OneHolder
  <2> SUFFICES ASSUME QueueInv, NEW p \in Procs, NEW q \in Procs, NEW k \in DOMAIN held[p], NEW m \in DOMAIN held[q],
                      held[p][k].id = held[q][m].id, held[p][k].id \notin stale \cup torn, p # q \/ k # m,
                      <<held[p][k].id, held[p][k].lease>> \notin lapsed, <<held[q][m].id, held[q][m].lease>> \notin lapsed
               PROVE  FALSE
    BY DEF OneHolder
  <2> DEFINE a == held[p][k]
             b == held[q][m]
             id == held[p][k].id
  <2>1. /\ a \in Lease /\ b \in Lease /\ a.id = id /\ b.id = id
        /\ id \in Nat \ {0} /\ id <= created /\ created \in Nat
    BY HeldLeases, IdsAreNumbers, PlainFacts DEF QueueInv
  <2>2. a \in Granted(id) /\ b \in Granted(id)
    BY <2>1 DEF Granted
  <2>3. id \in Clean
    BY <2>1 DEF Clean
  <2>4. Right(id)
    BY <2>3 DEF QueueInv, AllRight
  <2>5. a.lease \notin Over(id) /\ b.lease \notin Over(id)
    BY <2>1 DEF Over
  <2> HIDE DEF a, b, id
  <2>6. PICK f \in Copies(id) : f.place = "leased" /\ f.lease = a.lease
    BY <2>2, <2>4, <2>5 DEF Right, Fits, Backed
  <2>7. PICK g \in Copies(id) : g.place = "leased" /\ g.lease = b.lease
    BY <2>2, <2>4, <2>5 DEF Right, Fits, Backed
  <2>8. f = g
    BY <2>6, <2>7, CopyFacts DEF QueueInv
  <2>9. a.lease = b.lease
    BY <2>6, <2>7, <2>8
  <2> QED BY <2>1, <2>9 DEF QueueInv, Ledger, Tokens, a, b
<1> QED BY <1>1, QueueInvariant, PTL

LEMMA PairSize ==
  ASSUME NEW x, NEW y, x # y
  PROVE  Cardinality({x, y}) = 2
<1>1. IsFiniteSet({x}) /\ Cardinality({x}) = 1
  BY FS_Singleton
<1>2. Cardinality({x} \cup {y}) = Cardinality({x}) + 1
  BY <1>1, FS_AddElement
<1>3. {x} \cup {y} = {x, y}
  OBVIOUS
<1> QED BY <1>1, <1>2, <1>3

(* No message is lost or doubled by enqueue, commit, lease, revival, ack   *)
(* and nack: it has one copy, or two while a process is between the write  *)
(* of a copy and the unlink of the original; it is dead for a reason, and  *)
(* leased too often only when a lease has lapsed.                          *)
THEOREM MessagesAreAccounted == Spec => []Accounted
<1>1. QueueInv => Accounted
  <2> SUFFICES ASSUME QueueInv, NEW id \in Clean
               PROVE  /\ Copies(id) # {}
                      /\ Cardinality(Copies(id)) > 1 => \E p \in Procs : Between(p, id) /\ Cardinality(Copies(id)) = 2
                      /\ At("dead", id) # {} => leases[id] = 0 \/ leases[id] >= MaxAttempts
                      /\ leases[id] > MaxAttempts => id \in late
    BY DEF Accounted, Clean, Copies
  <2>1. Sound /\ Fits(Copies(id), Moving(id), Granted(id), leases[id], Over(id), id \in late)
    BY DEF QueueInv, AllRight, Right
  <2>2. Copies(id) # {}
    BY <2>1 DEF Fits, Shape
  <2>3. ASSUME Cardinality(Copies(id)) > 1
        PROVE  \E p \in Procs : Between(p, id) /\ Cardinality(Copies(id)) = 2
    <3>1. PICK f \in Copies(id), g \in Copies(id) : f # g
      <4>1. (\A f, g \in Copies(id) : f = g) => Cardinality(Copies(id)) \in {0, 1}
        <5>1. PICK x \in Copies(id) : TRUE
          BY <2>2
        <5>2. (\A f, g \in Copies(id) : f = g) => Copies(id) = {x}
          BY <5>1
        <5> QED BY <5>2, FS_Singleton
      <4> QED BY <2>3, <4>1
    <3>2. PICK p \in Procs : Between(p, id)
      BY <2>1, <3>1 DEF Fits, Shape, Moving
    <3>3. PICK c \in Copies(id) : /\ c.place \in {"active", "dead"}
                                  /\ \A h \in Copies(id) : h = c \/ h.place = Origin(p)
      <4>1. Origin(p) \in Moving(id)
        BY <3>2 DEF Moving
      <4> QED BY <2>1, <4>1 DEF Fits, Shape
    <3>4. PICK d \in Copies(id) : d # c /\ d.place = Origin(p)
      BY <3>1, <3>3
    <3>5. \A h \in Copies(id) : h = c \/ h = d
      BY <2>1, <3>3, <3>4, CopyFacts DEF Origin
    <3>6. Copies(id) = {c, d}
      BY <3>3, <3>4, <3>5
    <3>7. Cardinality({c, d}) = 2
      BY <3>4, PairSize
    <3> QED BY <3>2, <3>6, <3>7
  <2>4. At("dead", id) # {} => leases[id] = 0 \/ leases[id] >= MaxAttempts
    BY <2>1 DEF Fits, Count, Copies, At, In
  <2>5. leases[id] > MaxAttempts => id \in late
    BY <2>1, CleanIds, QueueAssumption DEF Fits, Timely
  <2> QED BY <2>2, <2>3, <2>4, <2>5
<1> QED BY <1>1, QueueInvariant, PTL

(* A message that was acknowledged or dead-lettered stays so: no revival,  *)
(* late nack or commit puts a file of it back to active or leased.         *)
THEOREM SettledMessagesStay == Spec => SettledStays
<1> DEFINE A == \A id \in (1..created) \ (stale' \cup torn') : Settled(id) => Waiting(id)' \subseteq Waiting(id)
<1>1. QueueInv /\ [Next]_vars => [A]_vars
  <2> SUFFICES ASSUME QueueInv, Next, NEW id \in (1..created) \ (stale' \cup torn'), Settled(id)
               PROVE  Waiting(id)' \subseteq Waiting(id)
    BY DEF A
  <2>1. created <= created' /\ stale \subseteq stale' /\ torn \subseteq torn'
    <3>1. ASSUME NEW p \in Procs, Step(p) PROVE created <= created' /\ stale \subseteq stale' /\ torn \subseteq torn'
      BY <3>1, StepSteady, StepHistory DEF QueueInv, Steady, Others
    <3>2. ASSUME NEW i, NEW token, Lapse(i, token) \/ LapseAbandoned(i, token)
          PROVE  created <= created' /\ stale \subseteq stale' /\ torn \subseteq torn'
      BY <3>2, PlainFacts DEF QueueInv, Lapse, LapseAbandoned, store, history
    <3> QED BY <3>1, <3>2 DEF Next, Abandoned, Step
  <2>2. created' \in Nat /\ created \in Nat
    <3>1. Sound'
      BY SoundStep DEF QueueInv
    <3>2. MaxMessages[backend'] \in Nat /\ created' \in 0..MaxMessages[backend']
      BY <3>1, QueueAssumption DEF Sound, Typed, TypeOK
    <3> QED BY <3>2, PlainFacts DEF QueueInv
  <2>3. id \in Clean /\ id \in Clean'
    BY <2>1, <2>2 DEF Clean
  <2>4. Keeps(Copies(id), Copies(id)')
    BY <2>3, NextAdvances DEF QueueInv
  <2>5. \E f \in Copies(id) : f.place \in {"done", "dead"}
    BY DEF Settled, At, In, Copies
  <2>6. \A f \in Waiting(id)' : f \in Copies(id)' /\ f.place \in {"active", "leased"}
    BY DEF Waiting, At, In, Copies
  <2>7. \A f \in Copies(id) : f.place \in {"active", "leased"} => f \in Waiting(id)
    BY DEF Waiting, At, In, Copies
  <2> QED BY <2>4, <2>5, <2>6, <2>7 DEF Keeps
<1>2. SettledStays <=> [][A]_vars
  BY DEF SettledStays
<1> HIDE DEF A
<1> QED BY <1>1, <1>2, QueueInvariant, PTL DEF Spec

=============================================================================
