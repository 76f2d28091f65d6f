--------------------------- MODULE SseFeedProofs ---------------------------
(***************************************************************************)
(* Theorems about SseFeed, for any number of pages, connections,           *)
(* publications, chat records, requests and losses, and any kind of stores.*)
(***************************************************************************)
EXTENDS SseFeed, SequenceTheorems, TLAPS

----------------------------------------------------------------------------
(* What the type invariant rests on: versions are counted.                 *)

TypeInv ==
  /\ TypeOK
  /\ store.data = bounds.data /\ store.chat = bounds.chat
  /\ worker = "written" => store.data # 0

(* With sync stores a request between two of its steps has the thread.     *)
InTurn == {"outputs", "chats", "register", "route", "hydrate", "write"}

TurnInv == kind = "sync" => \A t \in Requests : task[t].at \in InTurn => running = t

(* The connections that the hub, a page and a close event speak of have    *)
(* asked for their stream; the hub's has been served.                      *)
Linked(p) ==
  /\ hub[p] # None => Attached(<<p, hub[p].conn>>)
  /\ page[p].conn # 0 => task[<<p, page[p].conn>>].at # "none"
  /\ \A n \in 1 .. MaxConns : <<p, n>> \in closing => page[p].conn # n /\ task[<<p, n>>].at # "none"

LinkInv == \A p \in Pages : Linked(p)

(* The stages of a stream request, and, with sync stores, that what it has *)
(* read of the hub is still so.                                            *)
Asking == {"asked", "outputs", "chats", "register"}

StageInv ==
  \A p \in Pages, n \in 1 .. MaxConns :
    task[<<p, n>>].at \in Asking \cup {"none", "publish", "route", "done"}

CopyInv ==
  kind = "sync" => \A p \in Pages, n \in 1 .. MaxConns :
    task[<<p, n>>].at \in Asking \ {"asked"} => (task[<<p, n>>].chats <=> p \in Subscribed)

(* A stream request whose page has left has its close event to come; so has*)
(* a connection that is registered and not the one of the page; and the    *)
(* connection of a page is registered or about to be.                      *)
PageInv(p) ==
  /\ \A n \in 1 .. MaxConns : task[<<p, n>>].at \in Asking => page[p].conn = n \/ <<p, n>> \in closing
  /\ hub[p] # None => Live(p) \/ <<p, hub[p].conn>> \in closing
  /\ page[p].conn # 0 => task[<<p, page[p].conn>>].at \in Asking \/ Live(p)
  /\ p \in wants <=> p \in Subscribed

RegisteredInv == \A p \in Pages \ astray : PageInv(p)

(* What was told of the outputs last is the outputs, unless more comes, or *)
(* a request is about to tell them.                                        *)
Coming == worker = "written" \/ pipe # <<>>
PipeInv == worker = "idle" /\ pipe # <<>> => pipe[Len(pipe)] = store.data

Repairing == {"outputs", "chats", "register", "publish"}
Repairs(t) == task[t].at \in Repairing \/ (task[t].at = "route" /\ task[t].data = store.data)
UpToDate == \A p \in Pages : Live(p) => page[p].data = store.data

DataInv ==
  "data" \notin stale =>
    \/ Coming
    \/ \E t \in Requests : Repairs(t)
    \/ UpToDate /\ (kind = "sync" => \A t \in Requests : task[t].at # "route")

(* A subscribed page shows the chat, unless it is about to be told.        *)
ChatInv ==
  /\ task[Chat].at = "emit" => task[Chat].chat = store.chat \/ "chat" \in stale
  /\ kind = "sync" => \A t \in Requests :
       task[t].at \in {"register", "write"} => task[t].chat = store.chat
  /\ "chat" \notin stale => \A p \in Pages : Live(p) /\ hub[p].chats =>
       \/ page[p].chat = store.chat
       \/ task[Chat].at \in {"reread", "emit"}
       \/ task[<<p, 0>>].at \in {"hydrate", "write"}

----------------------------------------------------------------------------
(* What the parts of a step do.                                            *)

LEMMA RequestTypes ==
  /\ Chat \in Requests
  /\ \A p \in Pages : <<p, 0>> \in Requests \ {Chat}
  /\ \A p \in Pages, n \in 1 .. MaxConns : <<p, n>> \in Streams /\ <<p, n>> \in Requests \ {Chat}
  /\ None \notin Requests
BY FeedAssumption DEF Requests, Streams, Subscriptions, Chat

LEMMA MoveType ==
  ASSUME TypeOK, NEW t \in Requests, NEW rec \in Service, Move(t, rec)
  PROVE  task' \in [Requests -> Service] /\ running' \in {None} \cup Requests
BY DEF TypeOK, Move

LEMMA MoveEffect ==
  ASSUME TypeOK, NEW t \in Requests, NEW rec, Move(t, rec)
  PROVE  /\ task'[t] = rec
         /\ \A u \in Requests \ {t} : task'[u] = task[u]
         /\ kind = "sync" /\ rec.at \notin {"none", "done", "subscribe"} => running' = t
         /\ running' \in {None, t}
BY DEF TypeOK, Move

LEMMA ServiceTypes ==
  /\ Unserved \in Service /\ Served \in Service
  /\ Unserved.at = "none" /\ Served.at = "done"
<1>1. MaxData \in Nat /\ MaxChat \in Nat
  BY FeedAssumption
<1>2. Unserved \in Service
  BY <1>1 DEF Unserved, Service, Stages
<1>3. Served \in Service /\ Served.at = "done"
  BY <1>2 DEF Served, Service, Stages
<1> QED BY <1>2, <1>3 DEF Unserved

LEMMA WriteType ==
  ASSUME TypeOK, NEW to \in SUBSET Pages, NEW field \in {"data", "chat"}, NEW value, Write(to, field, value),
         field = "data" => value \in 0 .. MaxData, field = "chat" => value \in 0 .. MaxChat
  PROVE  /\ page' \in [Pages -> [conn : 0 .. MaxConns, data : 0 .. MaxData, chat : 0 .. MaxChat]]
         /\ hub' \in [Pages -> {None} \cup Registration]
         /\ wants' \subseteq Pages
<1>1. ASSUME NEW p \in Pages
      PROVE  [page[p] EXCEPT ![field] = value] \in [conn : 0 .. MaxConns, data : 0 .. MaxData, chat : 0 .. MaxChat]
  <2>1. page[p] \in [conn : 0 .. MaxConns, data : 0 .. MaxData, chat : 0 .. MaxChat]
    BY DEF TypeOK
  <2>2. CASE field = "data"
    BY <2>1, <2>2
  <2>3. CASE field = "chat"
    BY <2>1, <2>3
  <2> QED BY <2>2, <2>3
<1>2. ASSUME NEW p \in Pages PROVE page[p] \in [conn : 0 .. MaxConns, data : 0 .. MaxData, chat : 0 .. MaxChat]
  BY DEF TypeOK
<1> DEFINE Shown(p) == [page[p] EXCEPT ![field] = value]
           f == [p \in Pages |-> IF p \in to /\ Live(p) THEN Shown(p) ELSE page[p]]
<1>3. f \in [Pages -> [conn : 0 .. MaxConns, data : 0 .. MaxData, chat : 0 .. MaxChat]]
  <2> HIDE DEF Shown
  <2>1. \A p \in Pages : Shown(p) \in [conn : 0 .. MaxConns, data : 0 .. MaxData, chat : 0 .. MaxChat]
    BY <1>1 DEF Shown
  <2> QED BY <1>2, <2>1
<1>4. PICK gone \in SUBSET Broken(to) :
        page' = f /\ hub' = [p \in Pages |-> IF p \in gone THEN None ELSE hub[p]] /\ wants' = wants \ gone
  BY DEF Write
<1> HIDE DEF f
<1> QED BY <1>3, <1>4 DEF TypeOK

LEMMA WriteEffect ==
  ASSUME TypeOK, NEW to \in SUBSET Pages, NEW field \in {"data", "chat"}, NEW value, Write(to, field, value)
  PROVE  \A p \in Pages :
    /\ page'[p].conn = page[p].conn
    /\ page'[p] = IF p \in to /\ Live(p) THEN [page[p] EXCEPT ![field] = value] ELSE page[p]
    /\ \/ hub'[p] = hub[p] /\ (p \in wants' <=> p \in wants)
       \/ hub'[p] = None /\ hub[p] # None /\ ~Live(p) /\ p \notin wants'
<1>1. PICK gone \in SUBSET Broken(to) :
        /\ page' = [p \in Pages |-> IF p \in to /\ Live(p) THEN [page[p] EXCEPT ![field] = value] ELSE page[p]]
        /\ hub' = [p \in Pages |-> IF p \in gone THEN None ELSE hub[p]]
        /\ wants' = wants \ gone
  BY DEF Write
<1> SUFFICES ASSUME NEW p \in Pages
             PROVE  /\ page'[p].conn = page[p].conn
                    /\ page'[p] = IF p \in to /\ Live(p) THEN [page[p] EXCEPT ![field] = value] ELSE page[p]
                    /\ \/ hub'[p] = hub[p] /\ (p \in wants' <=> p \in wants)
                       \/ hub'[p] = None /\ hub[p] # None /\ ~Live(p) /\ p \notin wants'
  OBVIOUS
<1>2. page'[p] = IF p \in to /\ Live(p) THEN [page[p] EXCEPT ![field] = value] ELSE page[p]
  BY <1>1
<1>3. [page[p] EXCEPT ![field] = value].conn = page[p].conn
  BY DEF TypeOK
<1>4. p \in gone => hub[p] # None /\ ~Live(p)
  BY <1>1 DEF Broken
<1> QED BY <1>1, <1>2, <1>3, <1>4

----------------------------------------------------------------------------
(* Types.                                                                  *)

LEMMA CountType ==
  ASSUME TypeOK, NEW what \in {"data", "chat", "requests", "lost"}, Count(what),
         what = "data" => bounds.data < MaxData, what = "chat" => bounds.chat < MaxChat,
         what = "requests" => bounds.requests < MaxRequests, what = "lost" => bounds.lost < MaxLost
  PROVE  /\ bounds' \in [data : 0 .. MaxData, chat : 0 .. MaxChat, requests : 0 .. MaxRequests, lost : 0 .. MaxLost]
         /\ bounds'.data = IF what = "data" THEN bounds.data + 1 ELSE bounds.data
         /\ bounds'.chat = IF what = "chat" THEN bounds.chat + 1 ELSE bounds.chat
<1> DEFINE n == bounds[what] + 1
<1>1. bounds' = [bounds EXCEPT ![what] = n]
  BY DEF Count
<1>2. CASE what = "data"
  <2>1. n \in 0 .. MaxData /\ n = bounds.data + 1
    BY <1>2, FeedAssumption DEF TypeOK
  <2>2. bounds' = [bounds EXCEPT !.data = n]
    BY <1>1, <1>2
  <2> HIDE DEF n
  <2>3. bounds' \in [data : 0 .. MaxData, chat : 0 .. MaxChat, requests : 0 .. MaxRequests, lost : 0 .. MaxLost]
    BY <2>1, <2>2 DEF TypeOK
  <2> QED BY <1>2, <2>1, <2>2, <2>3 DEF TypeOK
<1>3. CASE what = "chat"
  <2>1. n \in 0 .. MaxChat /\ n = bounds.chat + 1
    BY <1>3, FeedAssumption DEF TypeOK
  <2>2. bounds' = [bounds EXCEPT !.chat = n]
    BY <1>1, <1>3
  <2> HIDE DEF n
  <2>3. bounds' \in [data : 0 .. MaxData, chat : 0 .. MaxChat, requests : 0 .. MaxRequests, lost : 0 .. MaxLost]
    BY <2>1, <2>2 DEF TypeOK
  <2> QED BY <1>3, <2>1, <2>2, <2>3 DEF TypeOK
<1>4. CASE what = "requests"
  <2>1. n \in 0 .. MaxRequests /\ n = bounds.requests + 1
    BY <1>4, FeedAssumption DEF TypeOK
  <2>2. bounds' = [bounds EXCEPT !.requests = n]
    BY <1>1, <1>4
  <2> HIDE DEF n
  <2>3. bounds' \in [data : 0 .. MaxData, chat : 0 .. MaxChat, requests : 0 .. MaxRequests, lost : 0 .. MaxLost]
    BY <2>1, <2>2 DEF TypeOK
  <2> QED BY <1>4, <2>1, <2>2, <2>3 DEF TypeOK
<1>5. CASE what = "lost"
  <2>1. n \in 0 .. MaxLost /\ n = bounds.lost + 1
    BY <1>5, FeedAssumption DEF TypeOK
  <2>2. bounds' = [bounds EXCEPT !.lost = n]
    BY <1>1, <1>5
  <2> HIDE DEF n
  <2>3. bounds' \in [data : 0 .. MaxData, chat : 0 .. MaxChat, requests : 0 .. MaxRequests, lost : 0 .. MaxLost]
    BY <2>1, <2>2 DEF TypeOK
  <2> QED BY <1>5, <2>1, <2>2, <2>3 DEF TypeOK
<1> QED BY <1>2, <1>3, <1>4, <1>5

(* The record of a request after its step.                                 *)
LEMMA ServiceWith ==
  ASSUME NEW r \in Service, NEW at \in Stages
  PROVE  /\ [r EXCEPT !.at = at] \in Service /\ [r EXCEPT !.at = at].at = at
         /\ \A d \in 0 .. MaxData : [r EXCEPT !.data = d] \in Service
         /\ \A c \in 0 .. MaxChat : [r EXCEPT !.chat = c] \in Service
         /\ \A b \in BOOLEAN : [r EXCEPT !.chats = b] \in Service
         /\ \A k \in 0 .. 2 : [r EXCEPT !.rounds = k] \in Service
BY DEF Service

LEMMA ServiceStep ==
  ASSUME NEW r \in Service, NEW at \in Stages
  PROVE  /\ \A d \in 0 .. MaxData : [r EXCEPT !.at = at, !.data = d] \in Service
         /\ \A c \in 0 .. MaxChat : [r EXCEPT !.at = at, !.chat = c] \in Service
         /\ \A b \in BOOLEAN : [r EXCEPT !.at = at, !.chats = b] \in Service
<1> DEFINE q == [r EXCEPT !.at = at]
<1>1. q \in Service
  BY ServiceWith
<1>2. /\ \A d \in 0 .. MaxData : [q EXCEPT !.data = d] \in Service
      /\ \A c \in 0 .. MaxChat : [q EXCEPT !.chat = c] \in Service
      /\ \A b \in BOOLEAN : [q EXCEPT !.chats = b] \in Service
  <2> HIDE DEF q
  <2> QED BY <1>1, ServiceWith DEF Service
<1> QED BY <1>2

LEMMA ServiceRounds ==
  ASSUME NEW r \in Service
  PROVE  [r EXCEPT !.rounds = 2] \in Service
<1>1. 2 \in 0 .. 2 /\ "none" \in Stages
  BY DEF Stages
<1> QED BY <1>1, ServiceWith

LEMMA PublishedType ==
  ASSUME TypeOK, NEW t \in Requests
  PROVE  Published(t) \in Service
<1>1. MaxData \in Nat /\ 0 \in 0 .. MaxData /\ 0 \in 0 .. 2 /\ task[t] \in Service
  BY FeedAssumption DEF TypeOK
<1>2. ASSUME NEW k \in 0 .. 2, NEW at \in {"publish", "subscribe"}
      PROVE  [task[t] EXCEPT !.at = at, !.rounds = k, !.data = 0] \in Service
  <2> DEFINE r == [task[t] EXCEPT !.at = at]
             q == [r EXCEPT !.rounds = k]
  <2>1. r \in Service
    BY <1>1, ServiceWith DEF Stages
  <2>2. q \in Service
    <3> HIDE DEF r
    <3> QED BY <2>1, ServiceWith DEF Stages
  <2>3. [q EXCEPT !.data = 0] \in Service
    <3> HIDE DEF q
    <3> QED BY <1>1, <2>2, ServiceWith DEF Stages
  <2> QED BY <2>3
<1>3. CASE task[t].rounds > 1
  <2> DEFINE n == task[t].rounds - 1
  <2>1. n \in 0 .. 2
    BY <1>1, <1>3 DEF Service
  <2>2. Published(t) = [task[t] EXCEPT !.at = "publish", !.rounds = n, !.data = 0]
    BY <1>3 DEF Published
  <2> HIDE DEF n
  <2> QED BY <1>2, <2>1, <2>2
<1>4. CASE ~ task[t].rounds > 1
  BY <1>1, <1>2, <1>4, ServiceTypes DEF Published
<1> QED BY <1>3, <1>4

LEMMA InitTypes == Init => TypeInv
<1> SUFFICES ASSUME Init PROVE TypeInv
  OBVIOUS
<1>1. 0 \in 0 .. MaxData /\ 0 \in 0 .. MaxChat /\ 0 \in 0 .. MaxConns /\ 0 \in 0 .. MaxRequests /\ 0 \in 0 .. MaxLost
  BY FeedAssumption
<1>2. pipe \in Seq(1 .. MaxData)
  BY DEF Init
<1> QED BY <1>1, <1>2, ServiceTypes DEF Init, TypeInv, TypeOK

LEMMA WorkerTypes ==
  ASSUME TypeInv, WriteOutputs \/ Announce \/ LoseNotification
  PROVE  TypeInv'
<1>1. CASE WriteOutputs
  <2> DEFINE d == store.data + 1
  <2>1. /\ bounds' \in [data : 0 .. MaxData, chat : 0 .. MaxChat, requests : 0 .. MaxRequests, lost : 0 .. MaxLost]
        /\ bounds'.data = d /\ bounds'.chat = bounds.chat
    BY <1>1, CountType DEF WriteOutputs, TypeInv
  <2>2. d \in 0 .. MaxData /\ d # 0
    BY <1>1, FeedAssumption DEF WriteOutputs, TypeInv, TypeOK
  <2>3. store' = [store EXCEPT !.data = d]
    BY <1>1 DEF WriteOutputs
  <2> HIDE DEF d
  <2> QED BY <1>1, <2>1, <2>2, <2>3 DEF WriteOutputs, TypeInv, TypeOK
<1>2. CASE Announce
  <2>1. store.data \in 1 .. MaxData
    BY <1>2, FeedAssumption DEF Announce, TypeInv, TypeOK
  <2>2. pipe' \in Seq(1 .. MaxData)
    BY <1>2, <2>1, AppendProperties DEF Announce, TypeInv, TypeOK
  <2> QED BY <1>2, <2>2 DEF Announce, TypeInv, TypeOK
<1>3. CASE LoseNotification
  <2>1. pipe' \in Seq(1 .. MaxData)
    BY <1>3, HeadTailProperties DEF LoseNotification, TypeInv, TypeOK
  <2>2. /\ bounds' \in [data : 0 .. MaxData, chat : 0 .. MaxChat, requests : 0 .. MaxRequests, lost : 0 .. MaxLost]
        /\ bounds'.data = bounds.data /\ bounds'.chat = bounds.chat
    BY <1>3, CountType DEF LoseNotification, TypeInv
  <2> QED BY <1>3, <2>1, <2>2 DEF LoseNotification, TypeInv, TypeOK
<1> QED BY <1>1, <1>2, <1>3

LEMMA TellTypes ==
  ASSUME TypeInv, NEW v \in 0 .. MaxData, NEW rest, TellOutputs(v, rest)
  PROVE  /\ page' \in [Pages -> [conn : 0 .. MaxConns, data : 0 .. MaxData, chat : 0 .. MaxChat]]
         /\ hub' \in [Pages -> {None} \cup Registration]
         /\ wants' \subseteq Pages /\ stale' \subseteq {"data", "chat"}
<1>1. Write(Pages, "data", v)
  BY DEF TellOutputs
<1>2. stale' \subseteq {"data", "chat"}
  BY DEF TellOutputs, TypeInv, TypeOK
<1> QED BY <1>1, <1>2, WriteType DEF TypeInv

LEMMA PublishTypes ==
  ASSUME TypeInv, Deliver \/ \E t \in Requests : PublishRead(t) \/ PublishRoute(t)
  PROVE  TypeInv'
<1>1. CASE Deliver
  <2>1. Head(pipe) \in 1 .. MaxData /\ pipe' \in Seq(1 .. MaxData)
    BY <1>1, HeadTailProperties DEF Deliver, TypeInv, TypeOK
  <2>2. Head(pipe) \in 0 .. MaxData
    BY <2>1, FeedAssumption
  <2> QED BY <1>1, <2>1, <2>2, TellTypes DEF Deliver, TypeInv, TypeOK
<1>2. ASSUME NEW t \in Requests, PublishRead(t) PROVE TypeInv'
  <2>1. [task[t] EXCEPT !.at = "route", !.data = store.data] \in Service
    BY ServiceStep DEF TypeInv, TypeOK, Stages
  <2> QED BY <1>2, <2>1, MoveType DEF PublishRead, TypeInv, TypeOK
<1>3. ASSUME NEW t \in Requests, PublishRoute(t) PROVE TypeInv'
  <2>1. task' \in [Requests -> Service] /\ running' \in {None} \cup Requests
    BY <1>3, PublishedType, MoveType DEF PublishRoute, TypeInv
  <2>2. task[t].data \in 0 .. MaxData
    BY DEF TypeInv, TypeOK, Service
  <2> QED BY <1>3, <2>1, <2>2, TellTypes DEF PublishRoute, TypeInv, TypeOK
<1> QED BY <1>1, <1>2, <1>3

LEMMA StreamTypes ==
  ASSUME TypeInv, NEW p \in Pages,
         Drop(p) \/ \E n \in 1 .. MaxConns : Stream(p, n)
  PROVE  TypeInv'
<1>1. CASE Drop(p)
  <2>1. page[p].conn \in 1 .. MaxConns /\ 0 \in 0 .. MaxConns
    BY <1>1, FeedAssumption DEF Drop, TypeInv, TypeOK
  <2>2. closing' \subseteq Streams
    BY <1>1, <2>1, RequestTypes DEF Drop, TypeInv, TypeOK
  <2> QED BY <1>1, <2>1, <2>2 DEF Drop, TypeInv, TypeOK
<1>2. ASSUME NEW n \in 1 .. MaxConns, Connect(p, n) PROVE TypeInv'
  <2>1. [task[<<p, n>>] EXCEPT !.at = "asked"] \in Service /\ <<p, n>> \in Requests
    BY RequestTypes, ServiceWith DEF TypeInv, TypeOK, Stages
  <2>2. task' \in [Requests -> Service]
    BY <1>2, <2>1 DEF Connect, TypeInv, TypeOK
  <2>3. n \in 0 .. MaxConns
    BY FeedAssumption
  <2>4. page' \in [Pages -> [conn : 0 .. MaxConns, data : 0 .. MaxData, chat : 0 .. MaxChat]]
    <3>1. page \in [Pages -> [conn : 0 .. MaxConns, data : 0 .. MaxData, chat : 0 .. MaxChat]]
      BY DEF TypeInv, TypeOK
    <3>2. page' = [page EXCEPT ![p] = [page[p] EXCEPT !.conn = n]]
      BY <1>2 DEF Connect
    <3>3. [page[p] EXCEPT !.conn = n] \in [conn : 0 .. MaxConns, data : 0 .. MaxData, chat : 0 .. MaxChat]
      BY <2>3, <3>1
    <3> QED BY <3>1, <3>2, <3>3
  <2> QED BY <1>2, <2>2, <2>4 DEF Connect, TypeInv, TypeOK
<1>3. ASSUME NEW n \in 1 .. MaxConns, SseBegin(p, n) \/ ReadOutputs(<<p, n>>) \/ ReadChats(<<p, n>>) PROVE TypeInv'
  <2> DEFINE t == <<p, n>>
  <2>1. t \in Requests /\ task[t] \in Service
    BY RequestTypes DEF TypeInv, TypeOK
  <2> DEFINE b == p \in Subscribed
  <2>0. b \in BOOLEAN
    OBVIOUS
  <2>2. /\ [task[t] EXCEPT !.at = "outputs", !.chats = b] \in Service
        /\ [task[t] EXCEPT !.at = "chats", !.data = store.data] \in Service
        /\ [task[t] EXCEPT !.at = "register", !.chat = store.chat] \in Service
    <3> HIDE DEF t, b
    <3> QED BY <2>1, <2>0, ServiceStep DEF TypeInv, TypeOK, Stages
  <2>3. task' \in [Requests -> Service] /\ running' \in {None} \cup Requests
    <3> HIDE DEF t
    <3> QED BY <1>3, <2>1, <2>2, MoveType DEF SseBegin, ReadOutputs, ReadChats, TypeInv, t
  <2> QED BY <1>3, <2>3 DEF SseBegin, ReadOutputs, ReadChats, TypeInv, TypeOK
<1>4. ASSUME NEW n \in 1 .. MaxConns, SseRegister(p, n) PROVE TypeInv'
  <2> DEFINE t == <<p, n>>
  <2>1. t \in Requests /\ task[t] \in Service
    BY RequestTypes DEF TypeInv, TypeOK
  <2>2. [Unserved EXCEPT !.at = "publish", !.rounds = 2] \in Service
    <3> DEFINE r == [Unserved EXCEPT !.at = "publish"]
    <3>1. r \in Service
      BY ServiceTypes, ServiceWith DEF Stages
    <3> HIDE DEF r
    <3>2. [r EXCEPT !.rounds = 2] \in Service
      BY <3>1, ServiceRounds
    <3> QED BY <3>2 DEF r
  <2>3. task' \in [Requests -> Service] /\ running' \in {None} \cup Requests
    BY <1>4, <2>1, <2>2, MoveType DEF SseRegister, TypeInv
  <2>4. page' \in [Pages -> [conn : 0 .. MaxConns, data : 0 .. MaxData, chat : 0 .. MaxChat]]
    <3>1. n \in 0 .. MaxConns /\ 0 \in 0 .. MaxConns
      BY FeedAssumption
    <3>2. [conn |-> n, data |-> task[t].data, chat |-> task[t].chat]
            \in [conn : 0 .. MaxConns, data : 0 .. MaxData, chat : 0 .. MaxChat]
      BY <2>1, <3>1 DEF Service
    <3>3. [page[p] EXCEPT !.conn = 0] \in [conn : 0 .. MaxConns, data : 0 .. MaxData, chat : 0 .. MaxChat]
      BY <3>1 DEF TypeInv, TypeOK
    <3> QED BY <1>4, <3>2, <3>3 DEF SseRegister, TypeInv, TypeOK
  <2>5. hub' \in [Pages -> {None} \cup Registration]
    BY <1>4, <2>1 DEF SseRegister, TypeInv, TypeOK, Registration, Service
  <2>6. closing' \subseteq Streams
    <3>1. Live(p) => <<p, hub[p].conn>> \in Streams
      BY RequestTypes DEF Live, TypeInv, TypeOK, Registration
    <3> QED BY <1>4, <3>1 DEF SseRegister, TypeInv, TypeOK
  <2> QED BY <1>4, <2>3, <2>4, <2>5, <2>6 DEF SseRegister, TypeInv, TypeOK
<1>5. ASSUME NEW n \in 1 .. MaxConns, Closed(p, n) PROVE TypeInv'
  BY <1>5 DEF Closed, TypeInv, TypeOK
<1> QED BY <1>1, <1>2, <1>3, <1>4, <1>5 DEF Stream

LEMMA SubscriptionTypes ==
  ASSUME TypeInv, NEW p \in Pages, Subscription(p)
  PROVE  TypeInv'
<1> DEFINE t == <<p, 0>>
<1>1. t \in Requests /\ task[t] \in Service /\ Unserved \in Service
  BY RequestTypes, ServiceTypes DEF TypeInv, TypeOK
<1>2. CASE SubscribeChat(p) \/ UnsubscribeChat(p) \/ NotConnected(p) \/ ReadHydration(p)
  <2>1. /\ [task[t] EXCEPT !.at = "hydrate"] \in Service
        /\ [task[t] EXCEPT !.at = "write", !.chat = store.chat] \in Service
    <3> HIDE DEF t
    <3> QED BY <1>1, ServiceWith, ServiceStep DEF TypeInv, TypeOK, Stages
  <2>2. task' \in [Requests -> Service] /\ running' \in {None} \cup Requests
    BY <1>1, <1>2, <2>1, MoveType DEF SubscribeChat, UnsubscribeChat, NotConnected, ReadHydration, TypeInv
  <2>3. hub' \in [Pages -> {None} \cup Registration]
    <3>1. ASSUME NEW b \in BOOLEAN, hub[p] # None
          PROVE  [hub EXCEPT ![p].chats = b] \in [Pages -> {None} \cup Registration]
      <4>1. [hub[p] EXCEPT !.chats = b] \in Registration
        BY <3>1 DEF TypeInv, TypeOK, Registration
      <4> QED BY <4>1 DEF TypeInv, TypeOK
    <3> QED BY <1>2, <3>1 DEF SubscribeChat, UnsubscribeChat, NotConnected, ReadHydration, TypeInv, TypeOK
  <2> QED BY <1>2, <2>2, <2>3 DEF SubscribeChat, UnsubscribeChat, NotConnected, ReadHydration, TypeInv, TypeOK
<1>3. CASE WriteHydration(p)
  <2>1. task' \in [Requests -> Service] /\ running' \in {None} \cup Requests
    BY <1>1, <1>3, MoveType DEF WriteHydration, TypeInv
  <2>2. task[t].chat \in 0 .. MaxChat
    BY <1>1 DEF Service
  <2> QED BY <1>3, <2>1, <2>2, WriteType DEF WriteHydration, TypeInv, TypeOK
<1>4. ASSUME NEW b \in BOOLEAN, Ask(p, b) PROVE TypeInv'
  <2> DEFINE r == [Unserved EXCEPT !.at = "publish", !.rounds = 2, !.chats = b]
  <2>1. r \in Service
    <3> DEFINE r1 == [Unserved EXCEPT !.at = "publish"]
               r2 == [r1 EXCEPT !.rounds = 2]
    <3>1. r1 \in Service
      BY <1>1, ServiceWith DEF Stages
    <3>2. r2 \in Service
      <4> HIDE DEF r1
      <4> QED BY <3>1, ServiceRounds
    <3>3. [r2 EXCEPT !.chats = b] \in Service
      <4> HIDE DEF r2
      <4> QED BY <3>2 DEF Service
    <3> QED BY <3>3
  <2>2. task' \in [Requests -> Service]
    <3> HIDE DEF r
    <3>1. task' = [task EXCEPT ![t] = r]
      BY <1>4 DEF Ask, r
    <3> QED BY <1>1, <2>1, <3>1 DEF TypeInv, TypeOK
  <2>3. /\ bounds' \in [data : 0 .. MaxData, chat : 0 .. MaxChat, requests : 0 .. MaxRequests, lost : 0 .. MaxLost]
        /\ bounds'.data = bounds.data /\ bounds'.chat = bounds.chat
    BY <1>4, CountType DEF Ask, TypeInv
  <2> QED BY <1>4, <2>2, <2>3 DEF Ask, TypeInv, TypeOK
<1> QED BY <1>2, <1>3, <1>4 DEF Subscription

LEMMA ChatTypes ==
  ASSUME TypeInv, Chats
  PROVE  TypeInv'
<1>1. Chat \in Requests /\ task[Chat] \in Service /\ Unserved \in Service
  BY RequestTypes, ServiceTypes DEF TypeInv, TypeOK
<1>2. CASE AppendMessage \/ ClearChat
  <2> DEFINE c == store.chat + 1
  <2>1. /\ bounds' \in [data : 0 .. MaxData, chat : 0 .. MaxChat, requests : 0 .. MaxRequests, lost : 0 .. MaxLost]
        /\ bounds'.chat = c /\ bounds'.data = bounds.data
    BY <1>2, CountType DEF AppendMessage, ClearChat, TypeInv
  <2>2. c \in 0 .. MaxChat
    BY <1>2, FeedAssumption DEF AppendMessage, ClearChat, TypeInv, TypeOK
  <2>3. store' = [store EXCEPT !.chat = c]
    BY <1>2 DEF AppendMessage, ClearChat
  <2>4. task' \in [Requests -> Service] /\ running' \in {None} \cup Requests
    <3>1. [Unserved EXCEPT !.at = "reread"] \in Service
      BY <1>1, ServiceWith DEF Stages
    <3> QED BY <1>1, <1>2, <3>1, MoveType DEF AppendMessage, ClearChat, TypeInv, TypeOK
  <2> HIDE DEF c
  <2>5. store' \in [data : 0 .. MaxData, chat : 0 .. MaxChat] /\ store'.chat = c /\ store'.data = store.data
    BY <2>2, <2>3 DEF TypeInv, TypeOK
  <2> QED BY <1>2, <2>1, <2>4, <2>5 DEF AppendMessage, ClearChat, TypeInv, TypeOK
<1>3. CASE ReadLastTurn
  <2>1. [Unserved EXCEPT !.at = "emit", !.chat = store.chat] \in Service
    BY <1>1, ServiceStep DEF TypeInv, TypeOK, Stages
  <2> QED BY <1>1, <1>3, <2>1, MoveType DEF ReadLastTurn, TypeInv, TypeOK
<1>4. CASE EmitMessages
  <2>1. task' \in [Requests -> Service] /\ running' \in {None} \cup Requests
    BY <1>1, <1>4, MoveType DEF EmitMessages, TypeInv
  <2>2. task[Chat].chat \in 0 .. MaxChat /\ Subscribed \in SUBSET Pages
    BY <1>1 DEF Service, Subscribed
  <2> QED BY <1>4, <2>1, <2>2, WriteType DEF EmitMessages, TypeInv, TypeOK
<1> QED BY <1>2, <1>3, <1>4 DEF Chats

LEMMA TypeStep == TypeInv /\ [Next]_vars => TypeInv'
<1> SUFFICES ASSUME TypeInv, [Next]_vars PROVE TypeInv'
  OBVIOUS
<1>1. CASE Outputs
  BY <1>1, WorkerTypes, PublishTypes DEF Outputs
<1>2. CASE UNCHANGED vars
  BY <1>2 DEF vars, TypeInv, TypeOK
<1> QED BY <1>1, <1>2, StreamTypes, SubscriptionTypes, ChatTypes, PublishTypes DEF Next

(* Whatever is lost, late or broken, the state is of its type.             *)
THEOREM TypeCorrect == Spec => []TypeOK
<1>1. TypeInv => TypeOK
  BY DEF TypeInv
<1> QED BY <1>1, InitTypes, TypeStep, PTL DEF Spec

----------------------------------------------------------------------------
(* The thread of a server with sync stores.                                *)

LEMMA TaskForms ==
  ASSUME [Next]_vars
  PROVE  /\ kind' = kind
         /\ \/ UNCHANGED <<task, running>>
            \/ \E t \in Requests : \E rec : running \in {None, t} /\ Move(t, rec)
            \/ \E p \in Pages : (\E n \in 1 .. MaxConns : Connect(p, n)) \/ (\E b \in BOOLEAN : Ask(p, b))
<1>1. CASE Outputs
  BY <1>1 DEF Outputs, WriteOutputs, Announce, LoseNotification, Deliver
<1>2. CASE Chats
  BY <1>2, RequestTypes DEF Chats, AppendMessage, ReadLastTurn, EmitMessages, ClearChat, At
<1>3. ASSUME NEW p \in Pages, Drop(p) PROVE kind' = kind /\ UNCHANGED <<task, running>>
  BY <1>3 DEF Drop
<1>4. ASSUME NEW p \in Pages, Subscription(p), \A b \in BOOLEAN : ~ Ask(p, b)
      PROVE  kind' = kind /\ \E rec : running \in {None, <<p, 0>>} /\ Move(<<p, 0>>, rec)
  BY <1>4 DEF Subscription, SubscribeChat, UnsubscribeChat, NotConnected, ReadHydration, WriteHydration, At
<1>5. ASSUME NEW p \in Pages, NEW n \in 1 .. MaxConns, Stream(p, n), ~ Connect(p, n)
      PROVE  /\ kind' = kind
             /\ \/ UNCHANGED <<task, running>>
                \/ \E rec : running \in {None, <<p, n>>} /\ Move(<<p, n>>, rec)
  <2>1. CASE SseRegister(p, n)
    BY <2>1 DEF SseRegister, At
  <2> QED BY <1>5, <2>1 DEF Stream, SseBegin, ReadOutputs, ReadChats, Closed, At
<1>6. ASSUME NEW t \in Requests, PublishRead(t) \/ PublishRoute(t)
      PROVE  kind' = kind /\ \E rec : running \in {None, t} /\ Move(t, rec)
  BY <1>6 DEF PublishRead, PublishRoute, At
<1>7. CASE UNCHANGED vars
  BY <1>7 DEF vars
<1>8. ASSUME NEW p \in Pages, (\E n \in 1 .. MaxConns : Connect(p, n)) \/ (\E b \in BOOLEAN : Ask(p, b))
      PROVE  kind' = kind
  BY <1>8 DEF Connect, Ask
<1> QED BY <1>1, <1>2, <1>3, <1>4, <1>5, <1>6, <1>7, <1>8, RequestTypes DEF Next

(* Who may take a step leaves no other request in its turn.                *)
LEMMA OneTurn ==
  ASSUME TypeInv, TurnInv, kind = "sync", NEW u, running \in {None, u}, NEW t \in Requests, t # u
  PROVE  task[t].at \notin InTurn
BY RequestTypes DEF TurnInv

LEMMA TurnStep == TypeInv /\ TurnInv /\ [Next]_vars => TurnInv'
<1> SUFFICES ASSUME TypeInv, TurnInv, [Next]_vars, kind = "sync", NEW t \in Requests, task'[t].at \in InTurn
             PROVE  running' = t
  BY TaskForms DEF TurnInv
<1>1. CASE UNCHANGED <<task, running>>
  BY <1>1 DEF TurnInv
<1>2. ASSUME NEW u \in Requests, NEW rec, running \in {None, u}, Move(u, rec) PROVE running' = t
  <2>1. CASE t = u
    BY <1>2, <2>1, MoveEffect DEF TypeInv, InTurn
  <2>2. CASE t # u
    BY <1>2, <2>2, MoveEffect, OneTurn DEF TypeInv
  <2> QED BY <2>1, <2>2
<1>3. ASSUME NEW p \in Pages, (\E n \in 1 .. MaxConns : Connect(p, n)) \/ (\E b \in BOOLEAN : Ask(p, b))
      PROVE  running' = t
  <2>1. ASSUME NEW n \in 1 .. MaxConns, Connect(p, n) PROVE running' = t
    <3>1. task[<<p, n>>] \in Service /\ [task[<<p, n>>] EXCEPT !.at = "asked"].at = "asked"
      BY RequestTypes, ServiceWith DEF TypeInv, TypeOK, Stages
    <3> QED BY <2>1, <3>1, RequestTypes DEF Connect, TurnInv, InTurn, TypeInv, TypeOK
  <2>2. ASSUME NEW b \in BOOLEAN, Ask(p, b) PROVE running' = t
    <3>1. [Unserved EXCEPT !.at = "publish", !.rounds = 2, !.chats = b].at = "publish"
      BY DEF Unserved
    <3> QED BY <2>2, <3>1, RequestTypes DEF Ask, TurnInv, InTurn, TypeInv, TypeOK
  <2> QED BY <1>3, <2>1, <2>2
<1> QED BY <1>1, <1>2, <1>3, TaskForms

----------------------------------------------------------------------------
(* Steps that leave the links between pages, hub and close events as they  *)
(* are, but for registrations lost to a write that throws.                 *)

Told ==
  /\ UNCHANGED <<closing, astray, kind>>
  /\ \A p \in Pages :
       /\ page'[p].conn = page[p].conn
       /\ \/ hub'[p] = hub[p] /\ (p \in wants' <=> p \in wants)
          \/ hub'[p] = None /\ ~Live(p) /\ p \notin wants'

GoesOn(t) ==
  \/ task'[t].at = task[t].at
  \/ task[t].at \in Asking /\ task'[t].at \in Asking
  \/ Attached(t) /\ Attached(t)'

StreamsGoOn == \A p \in Pages, n \in 1 .. MaxConns : GoesOn(<<p, n>>)

LEMMA ToldLinks ==
  ASSUME TypeInv, LinkInv, Told, StreamsGoOn
  PROVE  LinkInv'
<1> SUFFICES ASSUME NEW p \in Pages PROVE Linked(p)'
  BY DEF LinkInv
<1>1. \A n \in 1 .. MaxConns : /\ Attached(<<p, n>>) => Attached(<<p, n>>)'
                               /\ task[<<p, n>>].at # "none" => task'[<<p, n>>].at # "none"
  BY DEF StreamsGoOn, GoesOn, Attached, Asking
<1>2. hub[p] # None => hub[p].conn \in 1 .. MaxConns
  BY DEF TypeInv, TypeOK, Registration
<1>3. page[p].conn # 0 => page[p].conn \in 1 .. MaxConns
  BY DEF TypeInv, TypeOK
<1>4. Linked(p)
  BY DEF LinkInv
<1>5. (hub'[p] = hub[p] \/ hub'[p] = None) /\ page'[p].conn = page[p].conn /\ closing' = closing
  BY DEF Told
<1> QED BY <1>1, <1>2, <1>3, <1>4, <1>5 DEF Linked

LEMMA ToldRegistered ==
  ASSUME TypeInv, LinkInv, RegisteredInv, Told, StreamsGoOn
  PROVE  RegisteredInv'
<1> SUFFICES ASSUME NEW p \in Pages \ astray PROVE PageInv(p)'
  BY DEF RegisteredInv, Told
<1>1. PageInv(p)
  BY DEF RegisteredInv
<1>2. \A n \in 1 .. MaxConns : task'[<<p, n>>].at \in Asking <=> task[<<p, n>>].at \in Asking
  BY DEF StreamsGoOn, GoesOn, Attached, Asking
<1>3. page[p].conn # 0 => page[p].conn \in 1 .. MaxConns
  BY DEF TypeInv, TypeOK
<1>4. /\ hub'[p] = hub[p] \/ (hub'[p] = None /\ ~Live(p) /\ p \notin wants')
      /\ Live(p)' <=> Live(p)
      /\ page'[p].conn = page[p].conn /\ closing' = closing
  BY DEF Told, Live
<1>5. p \in wants' <=> p \in Subscribed'
  BY <1>1 DEF Told, PageInv, Subscribed
<1> QED BY <1>1, <1>2, <1>3, <1>4, <1>5 DEF PageInv

(* Where a stream request is after its steps.                              *)
LEMMA PublishMoves ==
  ASSUME TypeInv, NEW t \in Requests, PublishRead(t) \/ PublishRoute(t)
  PROVE  /\ task[t].at \in {"publish", "route"} /\ task'[t].at \in {"publish", "route", "done", "subscribe"}
         /\ t \in Streams => Attached(t) /\ Attached(t)'
         /\ \A u \in Requests \ {t} : task'[u] = task[u]
<1>1. task[t] \in Service
  BY DEF TypeInv, TypeOK
<1>2. CASE PublishRead(t)
  <2> DEFINE rec == [task[t] EXCEPT !.at = "route", !.data = store.data]
  <2>1. rec.at = "route"
    BY <1>1 DEF Service
  <2> HIDE DEF rec
  <2>2. Move(t, rec) /\ task[t].at = "publish"
    BY <1>2 DEF PublishRead, At, rec
  <2> QED BY <2>1, <2>2, MoveEffect DEF TypeInv, Attached
<1>3. CASE PublishRoute(t)
  <2>1. /\ Published(t).at \in {"publish", "done", "subscribe"}
        /\ t \in Streams => Published(t).at \in {"publish", "done"}
    BY <1>1, ServiceTypes DEF Published, Service
  <2>2. Move(t, Published(t)) /\ task[t].at = "route"
    BY <1>3 DEF PublishRoute, At
  <2> QED BY <2>1, <2>2, MoveEffect DEF TypeInv, Attached
<1> QED BY <1>2, <1>3

Reads(p, n) == SseBegin(p, n) \/ ReadOutputs(<<p, n>>) \/ ReadChats(<<p, n>>)

LEMMA ReadMoves ==
  ASSUME TypeInv, NEW p \in Pages, NEW n \in 1 .. MaxConns, Reads(p, n)
  PROVE  LET t == <<p, n>> IN
         /\ task[t].at \in {"asked", "outputs", "chats"} /\ task'[t].at \in {"outputs", "chats", "register"}
         /\ task[t].at = "asked" => (task'[t].chats <=> p \in Subscribed)
         /\ task[t].at # "asked" => task'[t].chats = task[t].chats
         /\ task'[t].at = "register" => task'[t].chat = store.chat
         /\ \A u \in Requests \ {t} : task'[u] = task[u]
<1> DEFINE t == <<p, n>>
           b == p \in Subscribed
<1>1. t \in Requests /\ task[t] \in Service /\ b \in BOOLEAN
  BY RequestTypes DEF TypeInv, TypeOK
<1>2. \/ /\ task[t].at = "asked" /\ Move(t, [task[t] EXCEPT !.at = "outputs", !.chats = b])
      \/ /\ task[t].at = "outputs" /\ Move(t, [task[t] EXCEPT !.at = "chats", !.data = store.data])
      \/ /\ task[t].at = "chats" /\ Move(t, [task[t] EXCEPT !.at = "register", !.chat = store.chat])
  BY DEF Reads, SseBegin, ReadOutputs, ReadChats, At
<1> HIDE DEF t, b
<1>3. /\ [task[t] EXCEPT !.at = "outputs", !.chats = b].at = "outputs"
      /\ [task[t] EXCEPT !.at = "outputs", !.chats = b].chats = b
      /\ [task[t] EXCEPT !.at = "chats", !.data = store.data].at = "chats"
      /\ [task[t] EXCEPT !.at = "chats", !.data = store.data].chats = task[t].chats
      /\ [task[t] EXCEPT !.at = "register", !.chat = store.chat].at = "register"
      /\ [task[t] EXCEPT !.at = "register", !.chat = store.chat].chats = task[t].chats
      /\ [task[t] EXCEPT !.at = "register", !.chat = store.chat].chat = store.chat
  BY <1>1 DEF Service
<1>4. /\ task[t].at \in {"asked", "outputs", "chats"} /\ task'[t].at \in {"outputs", "chats", "register"}
      /\ task[t].at = "asked" => task'[t].chats = b
      /\ task[t].at # "asked" => task'[t].chats = task[t].chats
      /\ task'[t].at = "register" => task'[t].chat = store.chat
      /\ \A u \in Requests \ {t} : task'[u] = task[u]
  BY <1>1, <1>2, <1>3, MoveEffect DEF TypeInv
<1>5. task[t].at = "asked" => (task'[t].chats <=> b)
  BY <1>4
<1> QED BY <1>4, <1>5 DEF t, b

Links == <<page, hub, closing, astray, kind, wants>>

LEMMA WrittenIsTold ==
  ASSUME TypeInv, NEW to \in SUBSET Pages, NEW field \in {"data", "chat"}, NEW value, Write(to, field, value),
         UNCHANGED <<closing, astray, kind>>
  PROVE  Told
BY WriteEffect DEF Told, TypeInv

LEMMA OtherGoesOn ==
  ASSUME TypeInv, NEW u \in Requests, u \notin Streams, \A t \in Requests \ {u} : task'[t] = task[t]
  PROVE  StreamsGoOn
BY RequestTypes DEF StreamsGoOn, GoesOn

ToldStep ==
  \/ Outputs \/ Chats
  \/ \E p \in Pages : \/ \E n \in 1 .. MaxConns : Reads(p, n)
                      \/ NotConnected(p) \/ ReadHydration(p) \/ WriteHydration(p)
                      \/ \E b \in BOOLEAN : Ask(p, b)
  \/ \E t \in Requests : PublishRead(t) \/ PublishRoute(t)
  \/ UNCHANGED vars

LEMMA ToldForms ==
  ASSUME TypeInv, ToldStep
  PROVE  Told /\ StreamsGoOn
<1>1. UNCHANGED Links => Told
  BY DEF Links, Told
<1>2. UNCHANGED task => StreamsGoOn
  BY DEF StreamsGoOn, GoesOn
<1>3. CASE Outputs
  <2>1. ASSUME Deliver PROVE Told
    BY <2>1, WrittenIsTold DEF Deliver, TellOutputs
  <2> QED BY <1>1, <1>2, <1>3, <2>1 DEF Outputs, WriteOutputs, Announce, LoseNotification, Deliver, Links
<1>4. CASE Chats
  <2>1. Chat \in Requests /\ Chat \notin Streams
    BY RequestTypes, FeedAssumption DEF Streams, Chat
  <2>2. \/ UNCHANGED task
        \/ \E rec : Move(Chat, rec)
    BY <1>4 DEF Chats, AppendMessage, ReadLastTurn, EmitMessages, ClearChat
  <2>3. StreamsGoOn
    BY <1>2, <2>1, <2>2, MoveEffect, OtherGoesOn DEF TypeInv
  <2>4. Told
    <3>1. Subscribed \in SUBSET Pages
      BY DEF Subscribed
    <3> QED BY <1>1, <1>4, <3>1, WrittenIsTold DEF Chats, AppendMessage, ReadLastTurn, EmitMessages, ClearChat, Links
  <2> QED BY <2>3, <2>4
<1>5. ASSUME NEW p \in Pages, NEW n \in 1 .. MaxConns, Reads(p, n) PROVE Told /\ StreamsGoOn
  <2>1. GoesOn(<<p, n>>)
    BY <1>5, ReadMoves DEF GoesOn, Asking
  <2>2. StreamsGoOn
    <3>1. \A u \in Requests \ {<<p, n>>} : task'[u] = task[u]
      BY <1>5, ReadMoves
    <3> QED BY <2>1, <3>1, RequestTypes DEF StreamsGoOn, GoesOn
  <2> QED BY <1>1, <1>5, <2>2 DEF Reads, SseBegin, ReadOutputs, ReadChats, Links
<1>6. ASSUME NEW p \in Pages,
             NotConnected(p) \/ ReadHydration(p) \/ WriteHydration(p) \/ \E b \in BOOLEAN : Ask(p, b)
      PROVE  Told /\ StreamsGoOn
  <2>1. <<p, 0>> \in Requests /\ <<p, 0>> \notin Streams
    BY RequestTypes DEF Streams
  <2>2. \A u \in Requests \ {<<p, 0>>} : task'[u] = task[u]
    BY <1>6, <2>1, MoveEffect DEF NotConnected, ReadHydration, WriteHydration, Ask, TypeInv, TypeOK
  <2>3. Told
    BY <1>1, <1>6, WrittenIsTold DEF NotConnected, ReadHydration, WriteHydration, Ask, Links
  <2> QED BY <2>1, <2>2, <2>3, OtherGoesOn
<1>7. ASSUME NEW t \in Requests, PublishRead(t) \/ PublishRoute(t) PROVE Told /\ StreamsGoOn
  <2>1. StreamsGoOn
    BY <1>7, PublishMoves, RequestTypes DEF StreamsGoOn, GoesOn
  <2>2. ASSUME PublishRoute(t) PROVE Told
    BY <2>2, WrittenIsTold DEF PublishRoute, TellOutputs
  <2> QED BY <1>1, <1>7, <2>1, <2>2 DEF PublishRead, Links
<1>8. CASE UNCHANGED vars
  BY <1>1, <1>2, <1>8 DEF vars, Links
<1> QED BY <1>3, <1>4, <1>5, <1>6, <1>7, <1>8 DEF ToldStep

----------------------------------------------------------------------------
(* The links, over all steps.                                              *)

RegInv == TypeInv /\ TurnInv /\ StageInv /\ LinkInv /\ CopyInv /\ RegisteredInv

LEMMA StepForms ==
  ASSUME [Next]_vars
  PROVE  \/ ToldStep
         \/ \E p \in Pages : \/ Drop(p) \/ SubscribeChat(p) \/ UnsubscribeChat(p)
                             \/ \E n \in 1 .. MaxConns : Connect(p, n) \/ SseRegister(p, n) \/ Closed(p, n)
BY DEF Next, ToldStep, Stream, Subscription, Reads

(* A connection and its loss.                                              *)
LEMMA ConnectLinks ==
  ASSUME TypeInv, LinkInv, RegisteredInv, NEW p \in Pages,
         Drop(p) \/ \E n \in 1 .. MaxConns : Connect(p, n)
  PROVE  LinkInv' /\ RegisteredInv'
<1>1. \A q \in Pages : /\ hub[q] # None => hub[q].conn \in 1 .. MaxConns
                       /\ page[q].conn \in 0 .. MaxConns
  BY DEF TypeInv, TypeOK, Registration
<1>2. \A q \in Pages : Linked(q) /\ (q \notin astray => PageInv(q))
  BY DEF LinkInv, RegisteredInv
<1>3. CASE Drop(p)
  <2> DEFINE c == page[p].conn
  <2>1. /\ c \in 1 .. MaxConns /\ page'[p].conn = 0
        /\ \A q \in Pages \ {p} : page'[q] = page[q]
        /\ closing' = closing \cup {<<p, c>>}
        /\ UNCHANGED <<hub, task, astray, wants>>
    BY <1>1, <1>3 DEF Drop, TypeInv, TypeOK
  <2>2. ASSUME NEW q \in Pages PROVE Linked(q)'
    <3>1. CASE q = p
      <4>1. \A n \in 1 .. MaxConns : <<p, n>> \in closing' => <<p, n>> \in closing \/ n = c
        BY <2>1
      <4>2. Linked(p) /\ task[<<p, c>>].at # "none"
        BY <1>2, <2>1 DEF Linked
      <4>3. hub'[p] = hub[p] /\ task' = task /\ page'[p].conn = 0
        BY <2>1
      <4>4. \A n \in 1 .. MaxConns : n # 0
        OBVIOUS
      <4> HIDE DEF c
      <4> QED BY <3>1, <4>1, <4>2, <4>3, <4>4 DEF Linked, Attached
    <3>2. CASE q # p
      BY <1>2, <2>1, <3>2 DEF Linked, Attached
    <3> QED BY <3>1, <3>2
  <2>3. ASSUME NEW q \in Pages \ astray PROVE PageInv(q)'
    <3>1. CASE q = p
      <4>1. \A n \in 1 .. MaxConns : <<p, n>> \in closing' <=> <<p, n>> \in closing \/ n = c
        BY <2>1
      <4> HIDE DEF c
      <4>2. c = page[p].conn /\ (p \in wants <=> p \in Subscribed)
        BY <1>2, <3>1 DEF c, PageInv
      <4>3. Subscribed' = Subscribed
        BY <2>1 DEF Subscribed
      <4>4. /\ \A n \in 1 .. MaxConns : task[<<p, n>>].at \in Asking => c = n \/ <<p, n>> \in closing
            /\ hub[p] # None => hub[p].conn = c \/ <<p, hub[p].conn>> \in closing
        BY <1>2, <3>1, <4>2 DEF PageInv, Live
      <4> QED BY <1>1, <2>1, <3>1, <4>1, <4>2, <4>3, <4>4 DEF PageInv, Live
    <3>2. CASE q # p
      <4>1. PageInv(q) /\ page'[q] = page[q]
        BY <1>2, <2>1, <3>2
      <4>2. \A n : <<q, n>> \in closing' <=> <<q, n>> \in closing
        BY <2>1, <3>2
      <4> QED BY <2>1, <4>1, <4>2 DEF PageInv, Live, Subscribed
    <3> QED BY <3>1, <3>2
  <2> QED BY <2>1, <2>2, <2>3 DEF LinkInv, RegisteredInv
<1>4. ASSUME NEW n \in 1 .. MaxConns, Connect(p, n) PROVE LinkInv' /\ RegisteredInv'
  <2>1. /\ page[p].conn = 0 /\ page'[p].conn = n /\ n # 0
        /\ \A q \in Pages \ {p} : page'[q] = page[q]
        /\ task[<<p, n>>].at = "none" /\ task'[<<p, n>>].at = "asked"
        /\ \A u \in Requests \ {<<p, n>>} : task'[u] = task[u]
        /\ UNCHANGED <<hub, closing, astray, wants>>
    <3>1. task[<<p, n>>] \in Service
      BY RequestTypes DEF TypeInv, TypeOK
    <3>2. [task[<<p, n>>] EXCEPT !.at = "asked"].at = "asked"
      BY <3>1 DEF Service
    <3> QED BY <1>4, <3>2, RequestTypes DEF Connect, TypeInv, TypeOK
  <2>2. \A q \in Pages, m \in 1 .. MaxConns : <<q, m>> # <<p, n>> => task'[<<q, m>>] = task[<<q, m>>]
    BY <2>1, RequestTypes
  <2>3. ASSUME NEW q \in Pages PROVE Linked(q)'
    <3>1. CASE q = p
      <4>1. Linked(p) /\ (hub[p] # None => hub[p].conn \in 1 .. MaxConns /\ hub[p].conn # n)
        BY <1>1, <1>2, <2>1 DEF Linked, Attached
      <4>2. \A m \in 1 .. MaxConns : <<p, m>> \in closing => m # n
        BY <2>1, <4>1 DEF Linked
      <4>3. \A m \in 1 .. MaxConns : m # n => task'[<<p, m>>] = task[<<p, m>>]
        BY <2>2
      <4>4. hub'[p] = hub[p] /\ closing' = closing /\ page'[p].conn = n /\ task'[<<p, n>>].at # "none"
        BY <2>1
      <4> QED BY <3>1, <4>1, <4>2, <4>3, <4>4 DEF Linked, Attached
    <3>2. CASE q # p
      BY <1>1, <1>2, <2>1, <2>2, <3>2 DEF Linked, Attached
    <3> QED BY <3>1, <3>2
  <2>4. ASSUME NEW q \in Pages \ astray PROVE PageInv(q)'
    <3>0. Subscribed' = Subscribed
      BY <2>1 DEF Subscribed
    <3>1. CASE q = p
      <4>1. PageInv(p) /\ (hub[p] # None => hub[p].conn \in 1 .. MaxConns /\ hub[p].conn # page[p].conn)
        BY <1>1, <1>2, <2>1, <3>1
      <4>2. \A m \in 1 .. MaxConns : task'[<<p, m>>].at \in Asking => m = n \/ <<p, m>> \in closing
        BY <2>1, <2>2, <4>1 DEF PageInv
      <4>3. hub[p] # None => <<p, hub[p].conn>> \in closing
        BY <4>1 DEF PageInv, Live
      <4>4. /\ hub'[p] = hub[p] /\ closing' = closing /\ wants' = wants /\ page'[p].conn = n
            /\ task'[<<p, n>>].at \in Asking
        BY <2>1 DEF Asking
      <4> QED BY <3>0, <3>1, <4>1, <4>2, <4>3, <4>4 DEF PageInv, Live
    <3>2. CASE q # p
      BY <1>1, <1>2, <2>1, <2>2, <3>0, <3>2 DEF PageInv, Live
    <3> QED BY <3>1, <3>2
  <2> QED BY <2>1, <2>3, <2>4 DEF LinkInv, RegisteredInv
<1> QED BY <1>3, <1>4

(* A subscription taken or given up.                                       *)
LEMMA SubscribeLinks ==
  ASSUME TypeInv, LinkInv, RegisteredInv, NEW p \in Pages, SubscribeChat(p) \/ UnsubscribeChat(p)
  PROVE  LinkInv' /\ RegisteredInv'
<1>1. PICK b \in BOOLEAN : /\ hub[p] # None /\ hub' = [hub EXCEPT ![p].chats = b]
                           /\ wants' = IF b THEN wants \cup {p} ELSE wants \ {p}
  BY DEF SubscribeChat, UnsubscribeChat
<1>2. /\ hub'[p] \in Registration /\ hub'[p].conn = hub[p].conn /\ hub'[p].chats = b
      /\ \A q \in Pages \ {p} : hub'[q] = hub[q]
  <2>1. hub[p] \in Registration
    BY <1>1 DEF TypeInv, TypeOK
  <2>2. /\ [hub[p] EXCEPT !.chats = b] \in Registration
        /\ [hub[p] EXCEPT !.chats = b].conn = hub[p].conn /\ [hub[p] EXCEPT !.chats = b].chats = b
    BY <2>1 DEF Registration
  <2> QED BY <1>1, <2>2 DEF TypeInv, TypeOK
<1>3. hub'[p] # None
  BY <1>2, FeedAssumption
<1>4. UNCHANGED <<page, closing, astray>>
  BY DEF SubscribeChat, UnsubscribeChat
<1>5. \A q \in Pages, n \in 1 .. MaxConns : task'[<<q, n>>] = task[<<q, n>>]
  <2>1. <<p, 0>> \in Requests /\ \E rec : Move(<<p, 0>>, rec)
    BY RequestTypes DEF SubscribeChat, UnsubscribeChat
  <2>2. \A u \in Requests \ {<<p, 0>>} : task'[u] = task[u]
    BY <2>1, MoveEffect DEF TypeInv
  <2>3. ASSUME NEW q \in Pages, NEW n \in 1 .. MaxConns PROVE <<q, n>> # <<p, 0>> /\ <<q, n>> \in Requests
    BY RequestTypes
  <2> QED BY <2>2, <2>3
<1>6. \A q \in Pages : /\ hub[q] # None => hub[q].conn \in 1 .. MaxConns
                       /\ page[q].conn \in 0 .. MaxConns
                       /\ Linked(q) /\ (q \notin astray => PageInv(q))
  BY DEF TypeInv, TypeOK, Registration, LinkInv, RegisteredInv
<1>7. ASSUME NEW q \in Pages PROVE Linked(q)'
  <2>1. hub'[q] # None => hub[q] # None /\ hub'[q].conn = hub[q].conn
    BY <1>1, <1>2
  <2>2. \A n \in 1 .. MaxConns : task'[<<q, n>>].at = task[<<q, n>>].at
    BY <1>5
  <2>3. page[q].conn # 0 => page[q].conn \in 1 .. MaxConns
    BY <1>6
  <2>4. Linked(q) /\ (hub[q] # None => hub[q].conn \in 1 .. MaxConns)
    BY <1>6
  <2> QED BY <1>4, <2>1, <2>2, <2>3, <2>4 DEF Linked, Attached
<1>8. ASSUME NEW q \in Pages \ astray PROVE PageInv(q)'
  <2>1. (hub'[q] # None <=> hub[q] # None) /\ (hub[q] # None => hub'[q].conn = hub[q].conn)
    BY <1>1, <1>2, <1>3
  <2>2. q \in wants' <=> q \in Subscribed'
    <3>1. CASE q = p
      BY <1>1, <1>2, <1>3, <3>1 DEF Subscribed
    <3>2. CASE q # p
      BY <1>1, <1>2, <1>6, <3>2 DEF Subscribed, PageInv
    <3> QED BY <3>1, <3>2
  <2> QED BY <1>4, <1>5, <1>6, <2>1, <2>2 DEF PageInv, Live
<1> QED BY <1>4, <1>7, <1>8 DEF LinkInv, RegisteredInv

(* A connection is registered, and perhaps ends the one before it.         *)
LEMMA RegisterEffect ==
  ASSUME TypeInv, NEW p \in Pages, NEW n \in 1 .. MaxConns, SseRegister(p, n)
  PROVE  LET t == <<p, n>>
             ends == Replaces(p, n) /\ Live(p) IN
         /\ task[t].at = "register" /\ task'[t].at = "publish"
         /\ \A u \in Requests \ {t} : task'[u] = task[u]
         /\ hub'[p] = [conn |-> n, chats |-> task[t].chats] /\ hub'[p] # None
         /\ \A q \in Pages \ {p} : hub'[q] = hub[q] /\ page'[q] = page[q]
         /\ page[p].conn = n =>
              page'[p] = [conn |-> n, data |-> task[t].data, chat |-> task[t].chat]
         /\ page[p].conn # n => page'[p].conn = IF ends THEN 0 ELSE page[p].conn
         /\ closing' = IF ends THEN closing \cup {<<p, hub[p].conn>>} ELSE closing
         /\ wants' = wants /\ kind' = kind
         /\ astray' = astray \/ astray' = astray \cup {p}
         /\ kind = "async" /\ p \notin astray' =>
              /\ Replaces(p, n) => (hub[p].chats <=> task[t].chats)
              /\ hub[p] = None => ~task[t].chats
<1> DEFINE t == <<p, n>>
           ends == Replaces(p, n) /\ Live(p)
<1>1. t \in Requests /\ task[t] \in Service /\ page[p] \in [conn : 0 .. MaxConns, data : 0 .. MaxData, chat : 0 .. MaxChat]
  BY RequestTypes DEF TypeInv, TypeOK
<1>2. task[t].at = "register" /\ task'[t].at = "publish" /\ \A u \in Requests \ {t} : task'[u] = task[u]
  <2>1. [Unserved EXCEPT !.at = "publish", !.rounds = 2].at = "publish"
    BY DEF Unserved
  <2>2. Move(t, [Unserved EXCEPT !.at = "publish", !.rounds = 2]) /\ task[t].at = "register"
    BY DEF SseRegister, At
  <2> QED BY <1>1, <2>1, <2>2, MoveEffect DEF TypeInv
<1>3. hub'[p] = [conn |-> n, chats |-> task[t].chats] /\ \A q \in Pages \ {p} : hub'[q] = hub[q]
  BY DEF SseRegister, TypeInv, TypeOK
<1>4. hub'[p] # None
  <2>1. [conn |-> n, chats |-> task[t].chats] \in Registration
    BY <1>1 DEF Registration, Service
  <2> QED BY <1>3, <2>1, FeedAssumption
<1>5. /\ \A q \in Pages \ {p} : page'[q] = page[q]
      /\ page'[p] = IF page[p].conn = n THEN [conn |-> n, data |-> task[t].data, chat |-> task[t].chat]
                    ELSE IF ends THEN [page[p] EXCEPT !.conn = 0] ELSE page[p]
  BY DEF SseRegister, TypeInv, TypeOK
<1>6. [page[p] EXCEPT !.conn = 0].conn = 0
  BY <1>1
<1>7. /\ closing' = IF ends THEN closing \cup {<<p, hub[p].conn>>} ELSE closing
      /\ wants' = wants /\ kind' = kind
      /\ astray' = astray \/ astray' = astray \cup {p}
  BY DEF SseRegister
<1>8. ASSUME kind = "async", p \notin astray'
      PROVE  /\ Replaces(p, n) => (hub[p].chats <=> task[t].chats)
             /\ hub[p] = None => ~task[t].chats
  <2>1. /\ ~ (Replaces(p, n) /\ hub[p].chats # task[t].chats)
        /\ ~ (hub[p] = None /\ task[t].chats)
    BY <1>8 DEF SseRegister, Race
  <2>2. Replaces(p, n) => hub[p].chats = task[t].chats
    BY <2>1
  <2> QED BY <2>1, <2>2
<1> QED BY <1>2, <1>3, <1>4, <1>5, <1>6, <1>7, <1>8

LEMMA RegisterLinks ==
  ASSUME RegInv, NEW p \in Pages, NEW n \in 1 .. MaxConns, SseRegister(p, n)
  PROVE  LinkInv' /\ RegisteredInv'
<1> DEFINE t == <<p, n>>
           c == page[p].conn
           h == hub[p].conn
           ends == Replaces(p, n) /\ Live(p)
<1>1. /\ task[t].at = "register" /\ task'[t].at = "publish"
      /\ \A m \in 1 .. MaxConns : m # n => task'[<<p, m>>] = task[<<p, m>>]
      /\ \A q \in Pages \ {p} : /\ hub'[q] = hub[q] /\ page'[q] = page[q]
                                /\ \A m \in 1 .. MaxConns : task'[<<q, m>>] = task[<<q, m>>]
      /\ wants' = wants /\ kind' = kind /\ (astray' = astray \/ astray' = astray \cup {p})
  <2>1. /\ task[t].at = "register" /\ task'[t].at = "publish"
        /\ \A u \in Requests \ {t} : task'[u] = task[u]
        /\ \A q \in Pages \ {p} : hub'[q] = hub[q] /\ page'[q] = page[q]
        /\ wants' = wants /\ kind' = kind /\ (astray' = astray \/ astray' = astray \cup {p})
    <3>1. TypeInv
      BY DEF RegInv
    <3>2. task[t].at = "register" /\ task'[t].at = "publish"
      BY <3>1, RegisterEffect
    <3>3. \A u \in Requests \ {t} : task'[u] = task[u]
      BY <3>1, RegisterEffect
    <3>4. \A q \in Pages \ {p} : hub'[q] = hub[q] /\ page'[q] = page[q]
      BY <3>1, RegisterEffect
    <3>5. wants' = wants /\ kind' = kind /\ (astray' = astray \/ astray' = astray \cup {p})
      BY <3>1, RegisterEffect
    <3> QED BY <3>2, <3>3, <3>4, <3>5
  <2>2. \A q \in Pages, m \in 1 .. MaxConns : q # p \/ m # n => <<q, m>> \in Requests \ {t}
    BY RequestTypes
  <2> QED BY <2>1, <2>2
<1>2. /\ hub'[p] # None /\ hub'[p].conn = n /\ (hub'[p].chats <=> task[t].chats)
      /\ c = n => page'[p].conn = n
      /\ c # n => page'[p].conn = IF ends THEN 0 ELSE c
      /\ closing' = IF ends THEN closing \cup {<<p, h>>} ELSE closing
  <2>1. /\ hub'[p] = [conn |-> n, chats |-> task[t].chats] /\ hub'[p] # None
        /\ c = n => page'[p] = [conn |-> n, data |-> task[t].data, chat |-> task[t].chat]
        /\ c # n => page'[p].conn = IF ends THEN 0 ELSE c
        /\ closing' = IF ends THEN closing \cup {<<p, h>>} ELSE closing
    BY RegisterEffect DEF RegInv
  <2> QED BY <2>1
<1>3. /\ hub[p] # None => h \in 1 .. MaxConns
      /\ c \in 0 .. MaxConns
  BY DEF RegInv, TypeInv, TypeOK, Registration
<1>4. Linked(p)
  BY DEF RegInv, LinkInv
<1>5. hub[p] # None => Attached(<<p, h>>) /\ h # n
  BY <1>1, <1>4 DEF Linked, Attached
<1>6. ends => hub[p] # None /\ h = c /\ c # n
  BY <1>5 DEF Replaces, Live
<1>7. \A m \in 1 .. MaxConns : <<p, m>> \in closing' <=> <<p, m>> \in closing \/ (ends /\ m = h)
  BY <1>2
<1>8. Linked(p)'
  <2>1. Attached(<<p, n>>)'
    BY <1>1 DEF Attached
  <2>2. page'[p].conn # 0 => page'[p].conn = c /\ task'[<<p, c>>].at # "none"
    BY <1>1, <1>2, <1>3, <1>4 DEF Linked
  <2>3. ASSUME NEW m \in 1 .. MaxConns, <<p, m>> \in closing'
        PROVE  page'[p].conn # m /\ task'[<<p, m>>].at # "none"
    <3>1. CASE <<p, m>> \in closing
      <4>1. c # m /\ task[<<p, m>>].at # "none" /\ m # 0
        BY <1>4, <3>1 DEF Linked
      <4> QED BY <1>1, <1>2, <4>1
    <3>2. CASE ends /\ m = h
      <4>1. page'[p].conn = 0 /\ m # 0
        BY <1>2, <1>6, <3>2
      <4>2. task'[<<p, m>>].at # "none"
        BY <1>1, <1>5, <1>6, <3>2 DEF Attached
      <4> QED BY <4>1, <4>2
    <3> QED BY <1>7, <2>3, <3>1, <3>2
  <2> QED BY <1>2, <2>1, <2>2, <2>3 DEF Linked
<1>9. ASSUME NEW q \in Pages \ {p}
      PROVE  /\ \A m : <<q, m>> \in closing' <=> <<q, m>> \in closing
             /\ hub'[q] = hub[q] /\ page'[q] = page[q]
             /\ \A m \in 1 .. MaxConns : task'[<<q, m>>] = task[<<q, m>>]
             /\ hub[q] # None => hub[q].conn \in 1 .. MaxConns
             /\ page[q].conn # 0 => page[q].conn \in 1 .. MaxConns
  <2>1. \A m : <<q, m>> \in closing' <=> <<q, m>> \in closing
    BY <1>2
  <2> QED BY <1>1, <2>1 DEF RegInv, TypeInv, TypeOK, Registration
<1>10. ASSUME NEW q \in Pages \ {p} PROVE Linked(q)'
  <2>1. Linked(q)
    BY DEF RegInv, LinkInv
  <2> QED BY <1>9, <2>1 DEF Linked, Attached
<1>11. ASSUME p \notin astray' PROVE PageInv(p)'
  <2>1. PageInv(p)
    BY <1>1, <1>11 DEF RegInv, RegisteredInv
  <2>2. c = n \/ <<p, n>> \in closing
    BY <1>1, <2>1 DEF PageInv, Asking
  <2>3. ASSUME NEW m \in 1 .. MaxConns, task'[<<p, m>>].at \in Asking
        PROVE  page'[p].conn = m \/ <<p, m>> \in closing'
    <3>1. m # n /\ task[<<p, m>>].at \in Asking
      BY <1>1, <2>3 DEF Asking
    <3>2. c = m \/ <<p, m>> \in closing
      BY <2>1, <3>1 DEF PageInv
    <3>3. ~ (ends /\ c = m)
      BY <1>5, <1>6, <3>1 DEF Attached, Asking
    <3> QED BY <1>2, <1>7, <3>1, <3>2, <3>3
  <2>4. Live(p)' \/ <<p, n>> \in closing'
    BY <1>2, <1>7, <2>2 DEF Live
  <2>5. page'[p].conn # 0 => task'[<<p, page'[p].conn>>].at \in Asking \/ Live(p)'
    <3>1. CASE c = n
      BY <1>2, <3>1 DEF Live
    <3>2. CASE c # n /\ ~ends /\ c # 0
      <4>1. ~Live(p)
        BY <1>5, <3>2 DEF Replaces, Live
      <4>2. task[<<p, c>>].at \in Asking /\ c \in 1 .. MaxConns
        BY <1>3, <2>1, <3>2, <4>1 DEF PageInv
      <4> QED BY <1>1, <1>2, <3>2, <4>2
    <3> QED BY <1>2, <3>1, <3>2
  <2>6. task[t].chats <=> p \in Subscribed
    <3>1. CASE kind = "sync"
      BY <1>1, <3>1 DEF RegInv, CopyInv, Asking
    <3>2. CASE kind = "async"
      <4>1. /\ Replaces(p, n) => (hub[p].chats <=> task[t].chats)
            /\ hub[p] = None => ~task[t].chats
        BY <1>11, <3>2, RegisterEffect DEF RegInv
      <4> QED BY <1>5, <4>1 DEF Replaces, Subscribed
    <3> QED BY <3>1, <3>2, FeedAssumption DEF RegInv, TypeInv, TypeOK
  <2>7. p \in wants' <=> p \in Subscribed'
    <3>1. p \in Subscribed' <=> hub'[p].chats
      BY <1>2 DEF Subscribed
    <3>2. p \in wants <=> p \in Subscribed
      BY <2>1 DEF PageInv
    <3> QED BY <1>1, <1>2, <2>6, <3>1, <3>2
  <2> QED BY <1>2, <2>3, <2>4, <2>5, <2>7 DEF PageInv
<1>12. ASSUME NEW q \in Pages \ astray', q # p PROVE PageInv(q)'
  <2>1. PageInv(q)
    BY <1>1, <1>12 DEF RegInv, RegisteredInv
  <2>2. q \in Subscribed' <=> q \in Subscribed
    BY <1>9, <1>12 DEF Subscribed
  <2>3. Live(q)' <=> Live(q)
    BY <1>9, <1>12 DEF Live
  <2> QED BY <1>1, <1>9, <1>12, <2>1, <2>2, <2>3 DEF PageInv
<1> QED BY <1>8, <1>10, <1>11, <1>12 DEF LinkInv, RegisteredInv

(* A close event, of a connection that is registered or was.               *)
LEMMA ClosedLinks ==
  ASSUME RegInv, NEW p \in Pages, NEW n \in 1 .. MaxConns, Closed(p, n)
  PROVE  LinkInv' /\ RegisteredInv'
<1> DEFINE gone == Attached(<<p, n>>) /\ Disconnects(p, n)
<1>1. /\ running = None /\ <<p, n>> \in closing /\ closing' = closing \ {<<p, n>>}
      /\ hub' = IF gone THEN [hub EXCEPT ![p] = None] ELSE hub
      /\ wants' = IF gone THEN wants \ {p} ELSE wants
      /\ task[<<p, n>>].at # "asked"
      /\ UNCHANGED <<page, task, kind>>
      /\ astray' = IF kind = "async" /\ ~Attached(<<p, n>>) THEN astray \cup {p} ELSE astray
  BY DEF Closed, Free, Race
<1>2. \A q \in Pages : /\ hub'[q] = (IF gone /\ q = p THEN None ELSE hub[q])
                       /\ Linked(q)
                       /\ hub[q] # None => hub[q].conn \in 1 .. MaxConns
  BY <1>1 DEF RegInv, TypeInv, TypeOK, LinkInv, Registration
<1>3. ASSUME NEW q \in Pages PROVE Linked(q)'
  BY <1>1, <1>2 DEF Linked, Attached
<1>4. ASSUME NEW q \in Pages \ astray' PROVE PageInv(q)'
  <2>1. PageInv(q)
    BY <1>1 DEF RegInv, RegisteredInv
  <2>2. CASE q # p
    <3>1. hub'[q] = hub[q] /\ \A m : <<q, m>> \in closing' <=> <<q, m>> \in closing
      BY <1>1, <1>2, <2>2
    <3>2. (q \in Subscribed' <=> q \in Subscribed) /\ (q \in wants' <=> q \in wants) /\ (Live(q)' <=> Live(q))
      BY <1>1, <2>2, <3>1 DEF Subscribed, Live
    <3> QED BY <1>1, <2>1, <3>1, <3>2 DEF PageInv
  <2>3. CASE q = p
    <3>1. Attached(<<p, n>>)
      <4>1. CASE kind = "async"
        BY <1>1, <2>3, <4>1
      <4>2. CASE kind = "sync"
        <5>1. task[<<p, n>>].at \notin InTurn
          BY <1>1, <4>2, OneTurn, RequestTypes DEF RegInv
        <5>2. task[<<p, n>>].at # "none"
          BY <1>1, <1>2 DEF Linked
        <5>3. task[<<p, n>>].at \notin Asking
          BY <1>1, <5>1 DEF InTurn, Asking
        <5> QED BY <5>2, <5>3 DEF RegInv, StageInv, Attached
      <4> QED BY <4>1, <4>2, FeedAssumption DEF RegInv, TypeInv, TypeOK
    <3>2. task[<<p, n>>].at \notin Asking /\ page[p].conn # n
      BY <1>1, <1>2, <3>1 DEF Attached, Asking, Linked
    <3>3. \A m \in 1 .. MaxConns : task'[<<p, m>>].at \in Asking => page'[p].conn = m \/ <<p, m>> \in closing'
      BY <1>1, <2>1, <2>3, <3>2 DEF PageInv
    <3>4. hub'[p] # None => hub[p] # None /\ hub'[p] = hub[p] /\ hub[p].conn # n
      BY <1>1, <1>2, <3>1 DEF Disconnects
    <3>5. Live(p)' <=> Live(p)
      BY <1>1, <1>2, <3>2 DEF Live, Disconnects
    <3>6. p \in wants' <=> p \in Subscribed'
      BY <1>1, <1>2, <2>1, <2>3 DEF PageInv, Subscribed
    <3> QED BY <1>1, <2>1, <2>3, <3>3, <3>4, <3>5, <3>6 DEF PageInv
  <2> QED BY <2>2, <2>3
<1> QED BY <1>3, <1>4 DEF LinkInv, RegisteredInv

LEMMA LinkStep == RegInv /\ [Next]_vars => LinkInv' /\ RegisteredInv'
<1> SUFFICES ASSUME RegInv, [Next]_vars PROVE LinkInv' /\ RegisteredInv'
  OBVIOUS
<1>1. CASE ToldStep
  BY <1>1, ToldForms, ToldLinks, ToldRegistered DEF RegInv
<1> QED BY <1>1, StepForms, ConnectLinks, SubscribeLinks, RegisterLinks, ClosedLinks DEF RegInv

LEMMA StageStep == RegInv /\ [Next]_vars => StageInv'
<1> SUFFICES ASSUME RegInv, [Next]_vars, NEW p \in Pages, NEW n \in 1 .. MaxConns
             PROVE  task'[<<p, n>>].at \in Asking \cup {"none", "publish", "route", "done"}
  BY DEF StageInv
<1> DEFINE t == <<p, n>>
<1>0. t \in Requests /\ task[t].at \in Asking \cup {"none", "publish", "route", "done"}
  BY RequestTypes DEF RegInv, StageInv
<1>1. CASE ToldStep
  <2>1. GoesOn(t)
    BY <1>1, ToldForms DEF RegInv, StreamsGoOn
  <2> QED BY <1>0, <2>1 DEF GoesOn, Attached
<1>2. ASSUME NEW q \in Pages, SubscribeChat(q) \/ UnsubscribeChat(q) PROVE task'[t] = task[t]
  <2>1. <<q, 0>> \in Requests /\ t # <<q, 0>> /\ \E rec : Move(<<q, 0>>, rec)
    BY <1>2, RequestTypes DEF SubscribeChat, UnsubscribeChat
  <2> QED BY <1>0, <2>1, MoveEffect DEF RegInv, TypeInv
<1>3. ASSUME NEW q \in Pages, NEW m \in 1 .. MaxConns, Connect(q, m)
      PROVE  task'[t] = task[t] \/ task'[t].at = "asked"
  <2>1. task[t] \in Service
    BY <1>0 DEF RegInv, TypeInv, TypeOK
  <2>2. [task[t] EXCEPT !.at = "asked"].at = "asked"
    BY <2>1 DEF Service
  <2> QED BY <1>0, <1>3, <2>2 DEF Connect, RegInv, TypeInv, TypeOK
<1>4. ASSUME NEW q \in Pages, NEW m \in 1 .. MaxConns, SseRegister(q, m)
      PROVE  task'[t] = task[t] \/ task'[t].at = "publish"
  BY <1>0, <1>4, RegisterEffect DEF RegInv
<1>5. ASSUME NEW q \in Pages, NEW m \in 1 .. MaxConns, Drop(q) \/ Closed(q, m) PROVE task' = task
  BY <1>5 DEF Drop, Closed
<1> QED BY <1>0, <1>1, <1>2, <1>3, <1>4, <1>5, StepForms DEF Asking

(* Between two reads of a request of a sync server nobody else moves.      *)
LEMMA CopyStep == RegInv /\ [Next]_vars => CopyInv'
<1> SUFFICES ASSUME RegInv, [Next]_vars, kind = "sync", NEW p \in Pages, NEW n \in 1 .. MaxConns,
                    task'[<<p, n>>].at \in Asking \ {"asked"}
             PROVE  task'[<<p, n>>].chats <=> p \in Subscribed'
  BY TaskForms DEF CopyInv
<1> DEFINE t == <<p, n>>
<1>0. t \in Requests \ {Chat} /\ \A q \in Pages : <<q, 0>> \in Requests /\ <<q, 0>> # t
  BY RequestTypes
<1>1. \A u : running \in {None, u} /\ u # t => task[t].at \notin InTurn
  BY <1>0, OneTurn DEF RegInv
<1>2. task'[t].at \in InTurn
  BY DEF Asking, InTurn
<1>3. task'[t] = task[t] /\ hub' = hub => (task'[t].chats <=> p \in Subscribed')
  BY DEF RegInv, CopyInv, Subscribed
<1>4. ASSUME NEW u \in Requests \ {t}, running \in {None, u}, NEW rec, Move(u, rec) PROVE FALSE
  BY <1>0, <1>1, <1>2, <1>4, MoveEffect DEF RegInv, TypeInv
<1>5. ASSUME Free, task' = task PROVE FALSE
  BY <1>0, <1>1, <1>2, <1>5, RequestTypes DEF Free
<1>6. CASE Outputs
  BY <1>3, <1>5, <1>6 DEF Outputs, WriteOutputs, Announce, LoseNotification, Deliver
<1>7. CASE Chats
  <2>1. Chat \in Requests \ {t}
    BY <1>0, RequestTypes
  <2> QED BY <1>4, <1>5, <1>7, <2>1 DEF Chats, AppendMessage, ReadLastTurn, EmitMessages, ClearChat, At
<1>8. ASSUME NEW q \in Pages, NEW m \in 1 .. MaxConns, Reads(q, m) PROVE task'[t].chats <=> p \in Subscribed'
  <2>1. CASE <<q, m>> = t
    <3>1. hub' = hub /\ Reads(p, n)
      BY <1>8, <2>1 DEF Reads, SseBegin, ReadOutputs, ReadChats
    <3>2. /\ task[t].at \in {"asked", "outputs", "chats"}
          /\ task[t].at = "asked" => (task'[t].chats <=> p \in Subscribed)
          /\ task[t].at # "asked" => task'[t].chats = task[t].chats
      BY <3>1, ReadMoves DEF RegInv
    <3> QED BY <3>1, <3>2 DEF RegInv, CopyInv, Asking, Subscribed
  <2>2. CASE <<q, m>> # t
    BY <1>4, <1>8, <2>2, RequestTypes DEF Reads, SseBegin, ReadOutputs, ReadChats, At
  <2> QED BY <2>1, <2>2
<1>9. ASSUME NEW q \in Pages, SubscribeChat(q) \/ UnsubscribeChat(q) \/ NotConnected(q)
                               \/ ReadHydration(q) \/ WriteHydration(q)
      PROVE  FALSE
  BY <1>0, <1>4, <1>9 DEF SubscribeChat, UnsubscribeChat, NotConnected, ReadHydration, WriteHydration, At
<1>10. ASSUME NEW q \in Pages, NEW b \in BOOLEAN, Ask(q, b) PROVE task'[t].chats <=> p \in Subscribed'
  BY <1>0, <1>3, <1>10 DEF Ask, RegInv, TypeInv, TypeOK
<1>11. ASSUME NEW u \in Requests, PublishRead(u) \/ PublishRoute(u) PROVE FALSE
  <2>1. CASE u = t
    BY <1>11, <2>1, PublishMoves DEF RegInv, Asking
  <2> QED BY <1>4, <1>11, <2>1 DEF PublishRead, PublishRoute, At
<1>12. ASSUME NEW q \in Pages, NEW m \in 1 .. MaxConns, Connect(q, m) PROVE task'[t].chats <=> p \in Subscribed'
  <2>1. CASE <<q, m>> = t
    <3>1. [task[t] EXCEPT !.at = "asked"].at = "asked"
      BY <1>0 DEF RegInv, TypeInv, TypeOK, Service
    <3> QED BY <1>0, <1>12, <2>1, <3>1 DEF Connect, RegInv, TypeInv, TypeOK
  <2>2. CASE <<q, m>> # t
    BY <1>0, <1>3, <1>12, <2>2 DEF Connect, RegInv, TypeInv, TypeOK
  <2> QED BY <2>1, <2>2
<1>13. ASSUME NEW q \in Pages, NEW m \in 1 .. MaxConns, SseRegister(q, m) PROVE FALSE
  <2>1. CASE <<q, m>> = t
    BY <1>13, <2>1, RegisterEffect DEF RegInv, Asking
  <2>2. CASE <<q, m>> # t
    BY <1>4, <1>13, <2>2, RequestTypes DEF SseRegister, At
  <2> QED BY <2>1, <2>2
<1>14. ASSUME NEW q \in Pages, NEW m \in 1 .. MaxConns, Drop(q) \/ Closed(q, m)
       PROVE task'[t].chats <=> p \in Subscribed'
  BY <1>3, <1>5, <1>14 DEF Drop, Closed
<1>15. CASE UNCHANGED vars
  BY <1>3, <1>15 DEF vars
<1> QED BY <1>6, <1>7, <1>8, <1>9, <1>10, <1>11, <1>12, <1>13, <1>14, <1>15, StepForms DEF ToldStep

LEMMA RegInit == Init => RegInv
<1> SUFFICES ASSUME Init PROVE RegInv
  OBVIOUS
<1>1. /\ \A t \in Requests : task[t].at = "none"
      /\ \A p \in Pages : hub[p] = None /\ page[p].conn = 0
      /\ closing = {} /\ wants = {} /\ running = None
  BY ServiceTypes DEF Init
<1>2. \A p \in Pages, n \in 1 .. MaxConns : task[<<p, n>>].at = "none"
  BY <1>1, RequestTypes
<1>3. TurnInv /\ StageInv /\ LinkInv /\ CopyInv
  BY <1>1, <1>2 DEF TurnInv, StageInv, LinkInv, Linked, CopyInv, InTurn, Asking
<1>4. RegisteredInv
  BY <1>1, <1>2 DEF RegisteredInv, PageInv, Asking, Subscribed
<1> QED BY <1>3, <1>4, InitTypes DEF RegInv

LEMMA RegStep == RegInv /\ [Next]_vars => RegInv'
BY TypeStep, TurnStep, StageStep, LinkStep, CopyStep DEF RegInv

(* At rest exactly the connected pages are registered, under the connection*)
(* they hold and with the subscription accepted last, whatever order       *)
(* connections were opened, served, replaced and closed in: a late close   *)
(* event takes nothing from the connection that came after it.             *)
THEOREM StaysRegistered == Spec => []Registered
<1>1. RegInv => Registered
  <2> SUFFICES ASSUME RegInv, Quiet, NEW p \in Pages \ astray
               PROVE  /\ hub[p] = None <=> page[p].conn = 0
                      /\ hub[p] # None => Live(p) /\ (hub[p].chats <=> p \in wants)
    BY DEF Registered
  <2>1. PageInv(p) /\ closing = {}
    BY DEF RegInv, RegisteredInv, Quiet
  <2>2. \A n \in 1 .. MaxConns : task[<<p, n>>].at \notin Asking
    BY RequestTypes DEF Quiet, Asking
  <2>3. /\ page[p].conn # 0 => page[p].conn \in 1 .. MaxConns
        /\ hub[p] # None => hub[p].conn \in 1 .. MaxConns
    BY DEF RegInv, TypeInv, TypeOK, Registration
  <2> QED BY <2>1, <2>2, <2>3 DEF PageInv, Live, Subscribed
<1> QED BY <1>1, RegInit, RegStep, PTL DEF Spec

----------------------------------------------------------------------------
(* What the pages show.                                                    *)

LEMMA ShownAs ==
  ASSUME TypeInv, NEW to \in SUBSET Pages, NEW field \in {"data", "chat"}, NEW value, Write(to, field, value)
  PROVE  \A p \in Pages :
    /\ page'[p].conn = page[p].conn
    /\ Live(p)' => Live(p) /\ hub'[p] = hub[p]
    /\ field = "data" => /\ page'[p].chat = page[p].chat
                         /\ p \in to /\ Live(p) => page'[p].data = value
    /\ field = "chat" => /\ page'[p].data = page[p].data
                         /\ p \in to /\ Live(p) => page'[p].chat = value
                         /\ p \notin to => page'[p].chat = page[p].chat
<1> SUFFICES ASSUME NEW p \in Pages
             PROVE  /\ page'[p].conn = page[p].conn
                    /\ Live(p)' => Live(p) /\ hub'[p] = hub[p]
                    /\ field = "data" => /\ page'[p].chat = page[p].chat
                                         /\ p \in to /\ Live(p) => page'[p].data = value
                    /\ field = "chat" => /\ page'[p].data = page[p].data
                                         /\ p \in to /\ Live(p) => page'[p].chat = value
                                         /\ p \notin to => page'[p].chat = page[p].chat
  OBVIOUS
<1>1. page[p] \in [conn : 0 .. MaxConns, data : 0 .. MaxData, chat : 0 .. MaxChat]
  BY DEF TypeInv, TypeOK
<1>2. /\ page'[p].conn = page[p].conn
      /\ page'[p] = IF p \in to /\ Live(p) THEN [page[p] EXCEPT ![field] = value] ELSE page[p]
      /\ hub'[p] = hub[p] \/ hub'[p] = None
  BY WriteEffect DEF TypeInv
<1>3. Live(p)' => Live(p) /\ hub'[p] = hub[p]
  BY <1>2 DEF Live
<1>4. field = "data" => /\ [page[p] EXCEPT ![field] = value].chat = page[p].chat
                        /\ [page[p] EXCEPT ![field] = value].data = value
  BY <1>1
<1>5. field = "chat" => /\ [page[p] EXCEPT ![field] = value].data = page[p].data
                        /\ [page[p] EXCEPT ![field] = value].chat = value
  BY <1>1
<1> QED BY <1>2, <1>3, <1>4, <1>5

(* Steps at which nothing is told of the outputs.                          *)
DataKept ==
  /\ store'.data = store.data /\ (Coming => Coming') /\ kind' = kind /\ ("data" \in stale => "data" \in stale')
  /\ \A t \in Requests : (Repairs(t) => Repairs(t)') /\ (task'[t].at = "route" => task[t].at = "route")
  /\ \A p \in Pages : Live(p)' => Live(p) /\ page'[p].data = page[p].data

LEMMA KeptData ==
  ASSUME DataInv, DataKept
  PROVE  DataInv'
<1>1. UpToDate => UpToDate'
  BY DEF DataKept, UpToDate
<1>2. (\E t \in Requests : Repairs(t)) => \E t \in Requests : Repairs(t)'
  BY DEF DataKept
<1>3. (kind = "sync" => \A t \in Requests : task[t].at # "route")
        => (kind' = "sync" => \A t \in Requests : task'[t].at # "route")
  BY DEF DataKept
<1> QED BY <1>1, <1>2, <1>3 DEF DataInv, DataKept

(* A request that is to tell the outputs comes into being, or goes on.     *)
LEMMA RepairedData ==
  ASSUME NEW t \in Requests, task'[t].at \in Repairing
  PROVE  DataInv'
BY DEF DataInv, Repairs

(* The outputs told to all pages.                                          *)
LEMMA ToldData ==
  ASSUME TypeInv, TellOutputs(store.data, pipe'), UNCHANGED <<store, kind>>,
         kind = "sync" => \A t \in Requests : task'[t].at # "route"
  PROVE  DataInv'
<1>1. Write(Pages, "data", store.data)
  BY DEF TellOutputs
<1>2. UpToDate'
  BY <1>1, ShownAs DEF UpToDate
<1> QED BY <1>2 DEF DataInv

LEMMA PipeStep == TypeInv /\ PipeInv /\ [Next]_vars => PipeInv'
<1> SUFFICES ASSUME TypeInv, PipeInv, [Next]_vars PROVE PipeInv'
  OBVIOUS
<1>0. pipe \in Seq(1 .. MaxData)
  BY DEF TypeInv, TypeOK
<1>1. CASE WriteOutputs
  BY <1>1 DEF WriteOutputs, PipeInv
<1>2. CASE Announce
  BY <1>0, <1>2 DEF Announce, PipeInv
<1>3. CASE LoseNotification \/ Deliver
  <2>1. pipe' = Tail(pipe) /\ pipe # <<>> /\ UNCHANGED <<store, worker>>
    BY <1>3 DEF LoseNotification, Deliver
  <2>2. Tail(pipe) # <<>> => Tail(pipe)[Len(Tail(pipe))] = pipe[Len(pipe)]
    BY <1>0, <2>1
  <2> QED BY <2>1, <2>2 DEF PipeInv
<1>4. UNCHANGED <<worker, pipe>> /\ store'.data = store.data => PipeInv'
  BY DEF PipeInv
<1>5. CASE Chats
  BY <1>4, <1>5 DEF Chats, AppendMessage, ReadLastTurn, EmitMessages, ClearChat, TypeInv, TypeOK
<1>6. ASSUME NEW p \in Pages, Drop(p) \/ Subscription(p) PROVE PipeInv'
  BY <1>4, <1>6 DEF Drop, Subscription, SubscribeChat, UnsubscribeChat, NotConnected, ReadHydration, WriteHydration, Ask
<1>7. ASSUME NEW p \in Pages, NEW n \in 1 .. MaxConns, Stream(p, n) PROVE PipeInv'
  <2>1. CASE SseRegister(p, n)
    BY <1>4, <2>1 DEF SseRegister
  <2> QED BY <1>4, <1>7, <2>1 DEF Stream, Connect, SseBegin, Closed, ReadOutputs, ReadChats
<1>8. ASSUME NEW t \in Requests, PublishRead(t) \/ PublishRoute(t) PROVE PipeInv'
  BY <1>4, <1>8 DEF PublishRead, PublishRoute
<1>9. CASE UNCHANGED vars
  BY <1>4, <1>9 DEF vars
<1> QED BY <1>1, <1>2, <1>3, <1>5, <1>6, <1>7, <1>8, <1>9 DEF Next, Outputs

ShownInv == RegInv /\ PipeInv /\ DataInv /\ ChatInv

LEMMA OutputsData ==
  ASSUME ShownInv, Outputs
  PROVE  DataInv'
<1>0. TypeInv /\ pipe \in Seq(1 .. MaxData)
  BY DEF ShownInv, RegInv, TypeInv, TypeOK
<1>1. CASE WriteOutputs \/ Announce
  <2>1. Coming'
    BY <1>0, <1>1 DEF WriteOutputs, Announce, Coming
  <2> QED BY <2>1 DEF DataInv
<1>2. CASE LoseNotification
  <2>1. worker = "idle" \/ worker = "written"
    BY <1>0 DEF TypeInv, TypeOK
  <2>2. "data" \in stale' \/ Coming'
    BY <1>2, <2>1 DEF LoseNotification, Coming
  <2> QED BY <2>2 DEF DataInv
<1>3. CASE Deliver
  <2>1. TellOutputs(Head(pipe), pipe') /\ UNCHANGED <<store, worker, kind, task>> /\ Free /\ pipe # <<>> /\ pipe' = Tail(pipe)
    BY <1>3 DEF Deliver
  <2>2. kind = "sync" => \A t \in Requests : task'[t].at # "route"
    BY <1>0, <2>1, OneTurn, RequestTypes DEF Free, InTurn, ShownInv, RegInv
  <2>3. Head(pipe) = store.data \/ Coming'
    <3>1. CASE Tail(pipe) = <<>>
      <4>1. Len(pipe) = 1 /\ Head(pipe) = pipe[Len(pipe)]
        <5>1. Len(Tail(pipe)) = Len(pipe) - 1 /\ Len(pipe) \in Nat
          BY <1>0, <2>1, HeadTailProperties
        <5>2. Len(Tail(pipe)) = 0
          <6>1. Len(<<>>) = 0
            OBVIOUS
          <6> QED BY ONLY <3>1, <6>1, Zenon
        <5>3. Len(pipe) = 1
          BY ONLY <5>1, <5>2
        <5> QED BY <1>0, <2>1, <5>3
      <4>2. worker = "idle" \/ worker = "written"
        BY <1>0 DEF TypeInv, TypeOK
      <4> QED BY <2>1, <4>1, <4>2 DEF ShownInv, PipeInv, Coming
    <3>2. CASE Tail(pipe) # <<>>
      BY <2>1, <3>2 DEF Coming
    <3> QED BY <3>1, <3>2
  <2>4. CASE Head(pipe) = store.data
    BY <1>0, <2>1, <2>2, <2>4, ToldData
  <2> QED BY <2>3, <2>4 DEF DataInv
<1> QED BY <1>1, <1>2, <1>3 DEF Outputs

(* An older version that a request tells does not count: another request   *)
(* or the pipe corrects it, or the stores answer in their own time.        *)
LEMMA OverdueData ==
  ASSUME ShownInv, NEW t \in Requests, PublishRoute(t), task[t].data # store.data
  PROVE  DataInv'
<1>0. TypeInv /\ DataInv
  BY DEF ShownInv, RegInv
<1>1. /\ stale' = IF Race(pipe = <<>> /\ worker = "idle") THEN stale \cup {"data"} ELSE stale
      /\ UNCHANGED <<store, worker, kind, pipe>> /\ task[t].at = "route"
  BY DEF PublishRoute, TellOutputs, At
<1>2. \A u \in Requests \ {t} : task'[u] = task[u]
  BY <1>0, PublishMoves
<1> SUFFICES ASSUME "data" \notin stale' PROVE Coming' \/ \E u \in Requests : Repairs(u)'
  BY DEF DataInv
<1>3. "data" \notin stale
  BY <1>1
<1>4. CASE Coming
  BY <1>1, <1>4 DEF Coming
<1>5. ASSUME NEW u \in Requests, Repairs(u) PROVE Repairs(u)'
  <2>1. u # t
    BY <1>1, <1>5 DEF Repairs, Repairing
  <2> QED BY <1>1, <1>2, <1>5, <2>1 DEF Repairs
<1>6. CASE ~Coming /\ (kind = "sync" => \A u \in Requests : task[u].at # "route")
  <2>1. kind = "async"
    BY <1>0, <1>1, <1>6, FeedAssumption DEF TypeInv, TypeOK
  <2>2. worker = "idle" /\ pipe = <<>>
    BY <1>0, <1>6 DEF Coming, TypeInv, TypeOK
  <2> QED BY <1>1, <2>1, <2>2 DEF Race
<1> QED BY <1>0, <1>3, <1>4, <1>5, <1>6 DEF DataInv

LEMMA PublishData ==
  ASSUME ShownInv, NEW t \in Requests, PublishRead(t) \/ PublishRoute(t)
  PROVE  DataInv'
<1>0. TypeInv /\ task[t] \in Service
  BY DEF ShownInv, RegInv, TypeInv, TypeOK
<1>1. CASE PublishRead(t)
  <2> DEFINE rec == [task[t] EXCEPT !.at = "route", !.data = store.data]
  <2>1. rec.at = "route" /\ rec.data = store.data
    BY <1>0 DEF Service
  <2>2. Move(t, rec) /\ store' = store
    BY <1>1 DEF PublishRead
  <2> HIDE DEF rec
  <2>3. task'[t] = rec
    BY <1>0, <2>2, MoveEffect DEF TypeInv
  <2> QED BY <2>1, <2>2, <2>3 DEF DataInv, Repairs
<1>2. CASE PublishRoute(t) /\ task[t].data = store.data
  <2>1. TellOutputs(store.data, pipe') /\ UNCHANGED <<store, kind>> /\ running \in {None, t} /\ task[t].at = "route"
    BY <1>2 DEF PublishRoute, At
  <2>2. kind = "sync" => \A u \in Requests : task'[u].at # "route"
    <3>1. \A u \in Requests \ {t} : task'[u] = task[u]
      BY <1>0, <1>2, PublishMoves
    <3>2. task'[t].at # "route"
      <4>1. Published(t).at # "route"
        BY <1>0, ServiceTypes DEF Published, Service
      <4> QED BY <1>0, <1>2, <4>1, MoveEffect DEF PublishRoute, TypeInv
    <3> QED BY <1>0, <2>1, <3>1, <3>2, OneTurn DEF InTurn, ShownInv, RegInv
  <2> QED BY <1>0, <2>1, <2>2, ToldData
<1>3. CASE PublishRoute(t) /\ task[t].data # store.data
  BY <1>3, OverdueData
<1> QED BY <1>1, <1>2, <1>3

LEMMA RegisterData ==
  ASSUME ShownInv, NEW p \in Pages, NEW n \in 1 .. MaxConns, SseRegister(p, n)
  PROVE  DataInv'
<1>1. task'[<<p, n>>].at = "publish"
  BY RegisterEffect DEF ShownInv, RegInv
<1> QED BY <1>1, RequestTypes, RepairedData DEF Repairing

(* The other steps. Who moves was not to tell the outputs, and does not    *)
(* come to their routing.                                                  *)
LEMMA MoverData ==
  ASSUME NEW t \in Requests, ~Repairs(t), task'[t].at # "route",
         \A u \in Requests \ {t} : task'[u] = task[u],
         UNCHANGED <<worker, pipe, kind>>, store'.data = store.data, "data" \in stale => "data" \in stale',
         \A p \in Pages : Live(p)' => Live(p) /\ page'[p].data = page[p].data
  PROVE  DataKept
<1>1. Coming => Coming'
  BY DEF Coming
<1>2. \A u \in Requests : Repairs(u) => Repairs(u)'
  BY DEF Repairs
<1>3. \A u \in Requests : task'[u].at = "route" => task[u].at = "route"
  OBVIOUS
<1> QED BY <1>1, <1>2, <1>3 DEF DataKept

LEMMA ChatsData ==
  ASSUME ShownInv, Chats
  PROVE  DataInv'
<1>0. TypeInv /\ DataInv /\ Chat \in Requests /\ store' \in [data : 0 .. MaxData, chat : 0 .. MaxChat]
  BY TypeStep, RequestTypes DEF ShownInv, RegInv, TypeInv, TypeOK, Next
<1>1. UNCHANGED <<worker, pipe, kind>> /\ store'.data = store.data /\ ("data" \in stale => "data" \in stale')
  BY <1>0 DEF Chats, AppendMessage, ReadLastTurn, EmitMessages, ClearChat, TypeInv, TypeOK
<1>2. \A p \in Pages : Live(p)' => Live(p) /\ page'[p].data = page[p].data
  <2>1. CASE EmitMessages
    <3>1. Subscribed \in SUBSET Pages
      BY DEF Subscribed
    <3> QED BY <1>0, <2>1, <3>1, ShownAs DEF EmitMessages
  <2>2. UNCHANGED <<page, hub>> => \A p \in Pages : Live(p)' => Live(p) /\ page'[p].data = page[p].data
    BY DEF Live
  <2> QED BY <2>1, <2>2 DEF Chats, AppendMessage, ReadLastTurn, ClearChat
<1>3. CASE ClearChat
  BY <1>0, <1>1, <1>2, <1>3, KeptData DEF ClearChat, DataKept, Coming, Repairs
<1>4. CASE AppendMessage \/ ReadLastTurn \/ EmitMessages
  <2>1. /\ [Unserved EXCEPT !.at = "reread"].at = "reread"
        /\ [Unserved EXCEPT !.at = "emit", !.chat = store.chat].at = "emit"
        /\ Unserved.at = "none"
    BY DEF Unserved
  <2>2. /\ task[Chat].at \notin Repairing \cup {"route"} /\ task'[Chat].at # "route"
        /\ \A u \in Requests \ {Chat} : task'[u] = task[u]
    BY <1>0, <1>4, <2>1, MoveEffect DEF AppendMessage, ReadLastTurn, EmitMessages, At, TypeInv, Repairing
  <2>3. ~Repairs(Chat)
    BY <2>2 DEF Repairs
  <2> QED BY <1>0, <1>1, <1>2, <2>2, <2>3, MoverData, KeptData
<1> QED BY <1>3, <1>4 DEF Chats

LEMMA SubscriptionData ==
  ASSUME ShownInv, NEW p \in Pages, Subscription(p)
  PROVE  DataInv'
<1> DEFINE t == <<p, 0>>
<1>0. TypeInv /\ DataInv /\ t \in Requests /\ task[t] \in Service
  BY RequestTypes DEF ShownInv, RegInv, TypeInv, TypeOK
<1>1. CASE \E b \in BOOLEAN : Ask(p, b)
  <2>1. PICK b \in BOOLEAN : Ask(p, b)
    BY <1>1
  <2>2. [Unserved EXCEPT !.at = "publish", !.rounds = 2, !.chats = b].at = "publish"
    BY DEF Unserved
  <2>3. task'[t].at = "publish"
    BY <1>0, <2>1, <2>2 DEF Ask, TypeInv, TypeOK
  <2> QED BY <1>0, <2>3, RepairedData DEF Repairing
<1>2. CASE ~ \E b \in BOOLEAN : Ask(p, b)
  <2>1. UNCHANGED <<worker, pipe, kind, store>> /\ ("data" \in stale => "data" \in stale')
    BY <1>2 DEF Subscription, SubscribeChat, UnsubscribeChat, NotConnected, ReadHydration, WriteHydration
  <2>2. \A q \in Pages : Live(q)' => Live(q) /\ page'[q].data = page[q].data
    <3>1. CASE WriteHydration(p)
      BY <1>0, <3>1, ShownAs DEF WriteHydration
    <3>2. CASE SubscribeChat(p) \/ UnsubscribeChat(p)
      <4>1. PICK b \in BOOLEAN : hub[p] # None /\ hub' = [hub EXCEPT ![p].chats = b] /\ page' = page
        BY <3>2 DEF SubscribeChat, UnsubscribeChat
      <4>2. [hub[p] EXCEPT !.chats = b].conn = hub[p].conn
        BY <1>0, <4>1 DEF TypeInv, TypeOK, Registration
      <4> QED BY <1>0, <4>1, <4>2 DEF Live, TypeInv, TypeOK
    <3>3. UNCHANGED <<page, hub>> => \A q \in Pages : Live(q)' => Live(q) /\ page'[q].data = page[q].data
      BY DEF Live
    <3> QED BY <1>2, <3>1, <3>2, <3>3 DEF Subscription, NotConnected, ReadHydration
  <2>3. /\ [task[t] EXCEPT !.at = "hydrate"].at = "hydrate"
        /\ [task[t] EXCEPT !.at = "write", !.chat = store.chat].at = "write"
        /\ Unserved.at = "none"
    BY <1>0 DEF Unserved, Service
  <2> HIDE DEF t
  <2>4. /\ task[t].at \notin Repairing \cup {"route"} /\ task'[t].at # "route"
        /\ \A u \in Requests \ {t} : task'[u] = task[u]
    BY <1>0, <1>2, <2>3, MoveEffect
       DEF Subscription, SubscribeChat, UnsubscribeChat, NotConnected, ReadHydration, WriteHydration, At, TypeInv, Repairing, t
  <2>5. ~Repairs(t)
    BY <2>4 DEF Repairs
  <2> QED BY <1>0, <2>1, <2>2, <2>4, <2>5, MoverData, KeptData
<1> QED BY <1>1, <1>2

LEMMA StreamData ==
  ASSUME ShownInv, NEW p \in Pages, Drop(p) \/ \E n \in 1 .. MaxConns : Stream(p, n) /\ ~SseRegister(p, n)
  PROVE  DataInv'
<1>0. TypeInv /\ DataInv /\ LinkInv
  BY DEF ShownInv, RegInv
<1>1. CASE Drop(p)
  <2>1. \A q \in Pages : Live(q)' => Live(q) /\ page'[q] = page[q]
    BY <1>0, <1>1 DEF Drop, Live, TypeInv, TypeOK, Registration
  <2> QED BY <1>0, <1>1, <2>1, KeptData DEF Drop, DataKept, Coming, Repairs
<1>2. ASSUME NEW n \in 1 .. MaxConns, Connect(p, n) PROVE DataInv'
  <2> DEFINE t == <<p, n>>
  <2>1. t \in Requests /\ [task[t] EXCEPT !.at = "asked"].at = "asked"
    BY <1>0, RequestTypes DEF TypeInv, TypeOK, Service
  <2>2. /\ task[t].at = "none" /\ task'[t].at = "asked"
        /\ \A u \in Requests \ {t} : task'[u] = task[u]
    BY <1>0, <1>2, <2>1 DEF Connect, TypeInv, TypeOK
  <2>3. hub[p] # None => hub[p].conn # n
    BY <1>0, <2>2 DEF LinkInv, Linked, Attached
  <2>4. \A q \in Pages : Live(q)' => Live(q) /\ page'[q] = page[q]
    BY <1>0, <1>2, <2>3 DEF Connect, Live, TypeInv, TypeOK
  <2>5. ~Repairs(t)
    BY <2>2 DEF Repairs, Repairing
  <2>6. UNCHANGED <<worker, pipe, kind, store, stale>>
    BY <1>2 DEF Connect
  <2> QED BY <1>0, <2>1, <2>2, <2>4, <2>5, <2>6, MoverData, KeptData
<1>3. ASSUME NEW n \in 1 .. MaxConns, Reads(p, n) PROVE DataInv'
  <2>1. <<p, n>> \in Requests /\ task'[<<p, n>>].at \in {"outputs", "chats", "register"}
    BY <1>0, <1>3, ReadMoves, RequestTypes
  <2> QED BY <2>1, RepairedData DEF Repairing
<1>4. ASSUME NEW n \in 1 .. MaxConns, Closed(p, n) PROVE DataInv'
  <2>1. \A q \in Pages : Live(q)' => Live(q) /\ page'[q] = page[q]
    BY <1>0, <1>4 DEF Closed, Live, TypeInv, TypeOK
  <2> QED BY <1>0, <1>4, <2>1, KeptData DEF Closed, DataKept, Coming, Repairs
<1> QED BY <1>1, <1>2, <1>3, <1>4 DEF Stream, Reads

LEMMA DataStep == ShownInv /\ [Next]_vars => DataInv'
<1> SUFFICES ASSUME ShownInv, [Next]_vars PROVE DataInv'
  OBVIOUS
<1>1. CASE UNCHANGED vars
  BY <1>1 DEF vars, ShownInv, DataInv, Coming, Repairs, UpToDate, Live
<1> QED BY <1>1, OutputsData, ChatsData, SubscriptionData, StreamData, RegisterData, PublishData DEF Next

----------------------------------------------------------------------------
(* Steps at which nothing of the chat changes.                             *)
ChatKept ==
  /\ store'.chat = store.chat /\ kind' = kind /\ ("chat" \in stale => "chat" \in stale')
  /\ task'[Chat] = task[Chat]
  /\ \A t \in Requests :
       task'[t].at \in {"register", "write"} => task'[t] = task[t] \/ task'[t].chat = store.chat
  /\ \A p \in Pages : Live(p)' /\ hub'[p].chats =>
       /\ Live(p) /\ hub[p].chats /\ page'[p].chat = page[p].chat
       /\ task[<<p, 0>>].at \in {"hydrate", "write"} => task'[<<p, 0>>].at \in {"hydrate", "write"}

LEMMA KeptChat ==
  ASSUME ChatInv, ChatKept
  PROVE  ChatInv'
<1>1. task'[Chat].at = "emit" => task'[Chat].chat = store'.chat \/ "chat" \in stale'
  BY DEF ChatKept, ChatInv
<1>2. kind' = "sync" => \A t \in Requests :
        task'[t].at \in {"register", "write"} => task'[t].chat = store'.chat
  BY DEF ChatKept, ChatInv
<1>3. "chat" \notin stale' => \A p \in Pages : Live(p)' /\ hub'[p].chats =>
        \/ page'[p].chat = store'.chat
        \/ task'[Chat].at \in {"reread", "emit"}
        \/ task'[<<p, 0>>].at \in {"hydrate", "write"}
  BY DEF ChatKept, ChatInv
<1> QED BY <1>1, <1>2, <1>3 DEF ChatInv

LEMMA MoverChat ==
  ASSUME NEW t \in Requests \ {Chat}, \A u \in Requests \ {t} : task'[u] = task[u],
         task[t].at \in {"hydrate", "write"} => task'[t].at \in {"hydrate", "write"},
         task'[t].at \in {"register", "write"} => task'[t].chat = store.chat,
         store'.chat = store.chat, kind' = kind, "chat" \in stale => "chat" \in stale',
         \A p \in Pages : Live(p)' /\ hub'[p].chats =>
           Live(p) /\ hub[p].chats /\ page'[p].chat = page[p].chat
  PROVE  ChatKept
<1>1. task'[Chat] = task[Chat]
  BY RequestTypes
<1>2. \A p \in Pages : task[<<p, 0>>].at \in {"hydrate", "write"} => task'[<<p, 0>>].at \in {"hydrate", "write"}
  BY RequestTypes
<1> QED BY <1>1, <1>2 DEF ChatKept

LEMMA OutputsChat ==
  ASSUME ShownInv, Outputs
  PROVE  ChatInv'
<1>0. TypeInv /\ ChatInv
  BY DEF ShownInv, RegInv
<1>1. UNCHANGED <<task, kind>> /\ store'.chat = store.chat /\ ("chat" \in stale => "chat" \in stale')
  BY <1>0 DEF Outputs, WriteOutputs, Announce, LoseNotification, Deliver, TellOutputs, TypeInv, TypeOK
<1>2. \A p \in Pages : Live(p)' /\ hub'[p].chats =>
        Live(p) /\ hub[p].chats /\ page'[p].chat = page[p].chat
  <2>1. CASE Deliver
    BY <1>0, <2>1, ShownAs DEF Deliver, TellOutputs
  <2>2. CASE UNCHANGED <<page, hub>>
    BY <2>2 DEF Live
  <2> QED BY <2>1, <2>2 DEF Outputs, WriteOutputs, Announce, LoseNotification
<1> QED BY <1>0, <1>1, <1>2, KeptChat DEF ChatKept

LEMMA PublishChat ==
  ASSUME ShownInv, NEW t \in Requests, PublishRead(t) \/ PublishRoute(t)
  PROVE  ChatInv'
<1>0. TypeInv /\ ChatInv
  BY DEF ShownInv, RegInv
<1>1. UNCHANGED <<store, kind>> /\ ("chat" \in stale => "chat" \in stale')
  BY DEF PublishRead, PublishRoute, TellOutputs
<1>2. /\ task[t].at \notin {"hydrate", "write"} /\ task'[t].at \notin {"register", "write"}
      /\ \A u \in Requests \ {t} : task'[u] = task[u]
  BY <1>0, PublishMoves
<1>3. \A p \in Pages : Live(p)' /\ hub'[p].chats =>
        Live(p) /\ hub[p].chats /\ page'[p].chat = page[p].chat
  <2>1. CASE PublishRoute(t)
    BY <1>0, <2>1, ShownAs DEF PublishRoute, TellOutputs
  <2>2. CASE PublishRead(t)
    BY <2>2 DEF PublishRead, Live
  <2> QED BY <2>1, <2>2
<1>4. CASE t # Chat
  BY <1>0, <1>1, <1>2, <1>3, <1>4, MoverChat, KeptChat
<1>5. CASE t = Chat
  <2>1. task'[Chat].at # "emit" /\ task[Chat].at \notin {"reread", "emit"}
    BY <1>0, <1>5, PublishMoves
  <2>2. \A p \in Pages : task'[<<p, 0>>] = task[<<p, 0>>]
    BY <1>2, <1>5, RequestTypes
  <2>3. \A u \in Requests : task'[u].at \in {"register", "write"} => task'[u] = task[u]
    BY <1>2, <1>5
  <2> QED BY <1>1, <1>3, <2>1, <2>2, <2>3 DEF ShownInv, ChatInv
<1> QED BY <1>4, <1>5

LEMMA ChatsChat ==
  ASSUME ShownInv, Chats
  PROVE  ChatInv'
<1>0. /\ TypeInv /\ ChatInv /\ Chat \in Requests /\ Unserved.at = "none"
      /\ kind = "sync" => \A u \in Requests \ {Chat} : running \in {None, Chat} => task[u].at \notin {"register", "write"}
  <2>1. ASSUME kind = "sync", NEW u \in Requests \ {Chat}, running \in {None, Chat}
        PROVE  task[u].at \notin {"register", "write"}
    BY <2>1, OneTurn DEF ShownInv, RegInv, InTurn
  <2> QED BY <2>1, RequestTypes DEF ShownInv, RegInv, Unserved
<1>1. CASE ClearChat
  <2>1. /\ UNCHANGED <<task, kind>> /\ "chat" \in stale' /\ running = None
    BY <1>1 DEF ClearChat, Free
  <2>2. kind = "sync" => \A u \in Requests : task[u].at \notin {"register", "write"}
    BY <1>0, <2>1, OneTurn, RequestTypes DEF InTurn, ShownInv, RegInv
  <2> QED BY <2>1, <2>2 DEF ChatInv
<1>2. CASE AppendMessage
  <2>1. [Unserved EXCEPT !.at = "reread"].at = "reread"
    BY DEF Unserved
  <2>2. /\ task'[Chat].at = "reread" /\ kind' = kind /\ running \in {None, Chat}
        /\ \A u \in Requests \ {Chat} : task'[u] = task[u]
    BY <1>0, <1>2, <2>1, MoveEffect DEF AppendMessage, At, TypeInv
  <2> QED BY <1>0, <2>2 DEF ChatInv
<1>3. CASE ReadLastTurn
  <2>1. /\ [Unserved EXCEPT !.at = "emit", !.chat = store.chat].at = "emit"
        /\ [Unserved EXCEPT !.at = "emit", !.chat = store.chat].chat = store.chat
    BY DEF Unserved
  <2>2. /\ task'[Chat].at = "emit" /\ task'[Chat].chat = store.chat /\ UNCHANGED <<store, kind>>
        /\ \A u \in Requests \ {Chat} : task'[u] = task[u]
    BY <1>0, <1>3, <2>1, MoveEffect DEF ReadLastTurn, TypeInv
  <2> QED BY <1>0, <2>2 DEF ChatInv
<1>4. CASE EmitMessages
  <2> DEFINE v == task[Chat].chat
  <2>1. /\ task[Chat].at = "emit" /\ task'[Chat].at = "none" /\ UNCHANGED <<store, kind>>
        /\ \A u \in Requests \ {Chat} : task'[u] = task[u]
        /\ stale' = IF v = store.chat THEN stale \ {"chat"} ELSE stale
        /\ Write(Subscribed, "chat", v) /\ Subscribed \in SUBSET Pages
    BY <1>0, <1>4, MoveEffect DEF EmitMessages, At, TypeInv, Subscribed
  <2>2. \A p \in Pages : /\ Live(p)' => Live(p) /\ hub'[p] = hub[p]
                         /\ p \in Subscribed /\ Live(p) => page'[p].chat = v
    <3> HIDE DEF v
    <3>1. Write(Subscribed, "chat", v) /\ Subscribed \in SUBSET Pages
      BY <2>1
    <3> QED BY <1>0, <3>1, ShownAs
  <2>3. "chat" \notin stale' => v = store.chat
    BY <1>0, <2>1 DEF ChatInv
  <2>4. \A p \in Pages : Live(p)' /\ hub'[p].chats => page'[p].chat = v
    <3>1. \A p \in Pages : Live(p) /\ hub[p].chats => p \in Subscribed
      BY DEF Subscribed, Live
    <3> SUFFICES ASSUME NEW p \in Pages, Live(p)', hub'[p].chats PROVE page'[p].chat = v
      OBVIOUS
    <3>2. Live(p) /\ hub'[p] = hub[p]
      BY <2>2
    <3>3. p \in Subscribed
      BY <3>1, <3>2
    <3> QED BY <2>2, <3>2, <3>3
  <2>5. \A u \in Requests : task'[u].at \in {"register", "write"} => task'[u] = task[u]
    BY <2>1
  <2> QED BY <1>0, <2>1, <2>3, <2>4, <2>5 DEF ChatInv
<1> QED BY <1>1, <1>2, <1>3, <1>4 DEF Chats

LEMMA SubscriptionChat ==
  ASSUME ShownInv, NEW p \in Pages, Subscription(p)
  PROVE  ChatInv'
<1> DEFINE t == <<p, 0>>
<1>0. TypeInv /\ ChatInv /\ t \in Requests \ {Chat} /\ t \in Requests /\ task[t] \in Service /\ Unserved.at = "none"
  BY RequestTypes DEF ShownInv, RegInv, TypeInv, TypeOK, Unserved
<1>1. CASE SubscribeChat(p)
  <2>1. [task[t] EXCEPT !.at = "hydrate"].at = "hydrate"
    BY <1>0 DEF Service
  <2>2. /\ task'[t].at = "hydrate" /\ \A u \in Requests \ {t} : task'[u] = task[u]
        /\ UNCHANGED <<store, page, kind, stale>>
    <3> HIDE DEF t
    <3> QED BY <1>0, <1>1, <2>1, MoveEffect DEF SubscribeChat, TypeInv, t
  <2>3. \A q \in Pages \ {p} : hub'[q] = hub[q] /\ task'[<<q, 0>>] = task[<<q, 0>>]
    BY <1>0, <1>1, <2>2, RequestTypes DEF SubscribeChat, TypeInv, TypeOK
  <2>4. task'[Chat] = task[Chat] /\ \A u \in Requests : task'[u].at \in {"register", "write"} => task'[u] = task[u]
    BY <1>0, <2>2, RequestTypes
  <2>5. \A q \in Pages \ {p} : Live(q)' => Live(q)
    BY <2>2, <2>3 DEF Live
  <2> QED BY <1>0, <2>2, <2>3, <2>4, <2>5 DEF ChatInv
<1>2. CASE UnsubscribeChat(p)
  <2>1. /\ task[t].at = "subscribe" /\ task'[t].at = "none" /\ \A u \in Requests \ {t} : task'[u] = task[u]
        /\ UNCHANGED <<store, page, kind, stale>> /\ hub[p] # None
        /\ hub' = [hub EXCEPT ![p].chats = FALSE]
    BY <1>0, <1>2, MoveEffect DEF UnsubscribeChat, At, TypeInv
  <2>2. [hub[p] EXCEPT !.chats = FALSE].chats = FALSE
    BY <1>0, <2>1 DEF TypeInv, TypeOK, Registration
  <2>3. \A q \in Pages : Live(q)' /\ hub'[q].chats => Live(q) /\ hub[q].chats /\ page'[q].chat = page[q].chat
    BY <1>0, <2>1, <2>2 DEF Live, TypeInv, TypeOK
  <2> QED BY <1>0, <2>1, <2>3, MoverChat, KeptChat
<1>3. CASE NotConnected(p) \/ ReadHydration(p)
  <2>1. /\ [task[t] EXCEPT !.at = "write", !.chat = store.chat].at = "write"
        /\ [task[t] EXCEPT !.at = "write", !.chat = store.chat].chat = store.chat
    BY <1>0 DEF Service
  <2>2. /\ task[t].at \in {"hydrate", "write"} => task'[t].at \in {"hydrate", "write"}
        /\ task'[t].at \in {"register", "write"} => task'[t].chat = store.chat
        /\ \A u \in Requests \ {t} : task'[u] = task[u]
        /\ UNCHANGED <<store, page, hub, kind, stale>>
    <3> HIDE DEF t
    <3> QED BY <1>0, <1>3, <2>1, MoveEffect DEF NotConnected, ReadHydration, At, TypeInv, t
  <2>3. \A q \in Pages : Live(q)' /\ hub'[q].chats => Live(q) /\ hub[q].chats /\ page'[q].chat = page[q].chat
    BY <2>2 DEF Live
  <2> QED BY <1>0, <2>2, <2>3, MoverChat, KeptChat
<1>4. CASE WriteHydration(p)
  <2> DEFINE v == task[t].chat
  <2>1. /\ task[t].at = "write" /\ task'[t].at = "none" /\ \A u \in Requests \ {t} : task'[u] = task[u]
        /\ UNCHANGED <<store, kind>> /\ Write({p}, "chat", v)
        /\ stale' = IF Race(v # store.chat) THEN stale \cup {"chat"} ELSE stale
    BY <1>0, <1>4, MoveEffect DEF WriteHydration, At, TypeInv
  <2>2. /\ \A q \in Pages : Live(q)' => Live(q) /\ hub'[q] = hub[q]
        /\ \A q \in Pages : q # p => page'[q].chat = page[q].chat
        /\ Live(p) => page'[p].chat = v
    <3>1. {p} \in SUBSET Pages
      OBVIOUS
    <3> HIDE DEF v
    <3> QED BY <1>0, <2>1, <3>1, ShownAs
  <2>3. "chat" \notin stale' => v = store.chat /\ "chat" \notin stale
    <3>1. kind = "sync" \/ kind = "async"
      BY <1>0, FeedAssumption DEF TypeInv, TypeOK
    <3> QED BY <1>0, <2>1, <3>1 DEF Race, ChatInv
  <2>4. task'[Chat] = task[Chat] /\ \A u \in Requests : task'[u].at \in {"register", "write"} => task'[u] = task[u]
    BY <1>0, <2>1, RequestTypes
  <2>5. \A q \in Pages \ {p} : task'[<<q, 0>>] = task[<<q, 0>>]
    BY <1>0, <2>1, RequestTypes
  <2>6. "chat" \in stale => "chat" \in stale'
    BY <2>1
  <2> QED BY <1>0, <2>1, <2>2, <2>3, <2>4, <2>5, <2>6 DEF ChatInv
<1>5. ASSUME NEW b \in BOOLEAN, Ask(p, b) PROVE ChatInv'
  <2>1. [Unserved EXCEPT !.at = "publish", !.rounds = 2, !.chats = b].at = "publish"
    BY DEF Unserved
  <2>2. /\ task[t].at = "none" /\ task'[t].at = "publish" /\ \A u \in Requests \ {t} : task'[u] = task[u]
        /\ UNCHANGED <<store, page, hub, kind>> /\ ("chat" \in stale => "chat" \in stale')
    BY <1>0, <1>5, <2>1 DEF Ask, TypeInv, TypeOK
  <2>3. \A q \in Pages : Live(q)' /\ hub'[q].chats => Live(q) /\ hub[q].chats /\ page'[q].chat = page[q].chat
    BY <2>2 DEF Live
  <2> QED BY <1>0, <2>2, <2>3, MoverChat, KeptChat
<1> QED BY <1>1, <1>2, <1>3, <1>4, <1>5 DEF Subscription

LEMMA StreamChat ==
  ASSUME ShownInv, NEW p \in Pages, Drop(p) \/ \E n \in 1 .. MaxConns : Stream(p, n) /\ ~SseRegister(p, n)
  PROVE  ChatInv'
<1>0. TypeInv /\ ChatInv /\ LinkInv
  BY DEF ShownInv, RegInv
<1>1. UNCHANGED <<kind, store>> /\ ("chat" \in stale => "chat" \in stale')
  BY DEF Drop, Stream, Connect, SseBegin, Closed, ReadOutputs, ReadChats
<1>2. CASE Drop(p)
  <2>1. \A q \in Pages : Live(q)' => Live(q) /\ page'[q] = page[q] /\ hub'[q] = hub[q]
    BY <1>0, <1>2 DEF Drop, Live, TypeInv, TypeOK, Registration
  <2> QED BY <1>0, <1>1, <1>2, <2>1, KeptChat DEF Drop, ChatKept
<1>3. ASSUME NEW n \in 1 .. MaxConns, Connect(p, n) PROVE ChatInv'
  <2> DEFINE t == <<p, n>>
  <2>1. t \in Requests \ {Chat} /\ [task[t] EXCEPT !.at = "asked"].at = "asked"
    BY <1>0, RequestTypes DEF TypeInv, TypeOK, Service
  <2>2. /\ task[t].at = "none" /\ task'[t].at = "asked"
        /\ \A u \in Requests \ {t} : task'[u] = task[u]
    BY <1>0, <1>3, <2>1 DEF Connect, TypeInv, TypeOK
  <2>3. hub[p] # None => hub[p].conn # n
    BY <1>0, <2>2 DEF LinkInv, Linked, Attached
  <2>4. \A q \in Pages : Live(q)' => Live(q) /\ page'[q] = page[q] /\ hub'[q] = hub[q]
    BY <1>0, <1>3, <2>3 DEF Connect, Live, TypeInv, TypeOK
  <2> QED BY <1>0, <1>1, <2>1, <2>2, <2>4, MoverChat, KeptChat
<1>4. ASSUME NEW n \in 1 .. MaxConns, Reads(p, n) PROVE ChatInv'
  <2>1. \A q \in Pages : Live(q)' => Live(q) /\ page'[q] = page[q] /\ hub'[q] = hub[q]
    BY <1>4 DEF Reads, SseBegin, ReadOutputs, ReadChats, Live
  <2>2. /\ <<p, n>> \in Requests \ {Chat}
        /\ task[<<p, n>>].at \in {"asked", "outputs", "chats"} /\ task'[<<p, n>>].at \in {"outputs", "chats", "register"}
        /\ task'[<<p, n>>].at = "register" => task'[<<p, n>>].chat = store.chat
        /\ \A u \in Requests \ {<<p, n>>} : task'[u] = task[u]
    BY <1>0, <1>4, ReadMoves, RequestTypes
  <2> QED BY <1>0, <1>1, <2>1, <2>2, MoverChat, KeptChat
<1>5. ASSUME NEW n \in 1 .. MaxConns, Closed(p, n) PROVE ChatInv'
  <2>1. \A q \in Pages : Live(q)' => Live(q) /\ page'[q] = page[q] /\ hub'[q] = hub[q]
    BY <1>0, <1>5 DEF Closed, Live, TypeInv, TypeOK
  <2> QED BY <1>0, <1>1, <1>5, <2>1, KeptChat DEF Closed, ChatKept
<1> QED BY <1>2, <1>3, <1>4, <1>5 DEF Stream, Reads

LEMMA RegisterChat ==
  ASSUME ShownInv, NEW p \in Pages, NEW n \in 1 .. MaxConns, SseRegister(p, n)
  PROVE  ChatInv'
<1> DEFINE t == <<p, n>>
<1>0. TypeInv /\ ChatInv /\ t \in Requests \ {Chat} /\ (kind = "sync" \/ kind = "async")
  BY RequestTypes, FeedAssumption DEF ShownInv, RegInv, TypeInv, TypeOK
<1>1. /\ UNCHANGED <<store, kind>>
      /\ stale' = IF Race(task[t].chats /\ task[t].chat # store.chat) THEN stale \cup {"chat"} ELSE stale
  BY DEF SseRegister
<1>2. task[t].at = "register" /\ task'[t].at = "publish"
  BY <1>0, RegisterEffect
<1>3. \A u \in Requests \ {t} : task'[u] = task[u]
  BY <1>0, RegisterEffect
<1>4. hub'[p] = [conn |-> n, chats |-> task[t].chats]
  BY <1>0, RegisterEffect
<1>5. \A q \in Pages \ {p} : hub'[q] = hub[q] /\ page'[q] = page[q]
  BY <1>0, RegisterEffect
<1>6. page[p].conn = n => page'[p] = [conn |-> n, data |-> task[t].data, chat |-> task[t].chat]
  BY <1>0, RegisterEffect
<1>7. page[p].conn # n => page'[p].conn = 0 \/ page'[p].conn = page[p].conn
  BY <1>0, RegisterEffect
<1>8. Live(p)' => page'[p].chat = task[t].chat
  BY <1>4, <1>6, <1>7 DEF Live
<1>9. "chat" \notin stale' /\ task[t].chats => task[t].chat = store.chat
  BY <1>0, <1>1, <1>2 DEF Race, ChatInv
<1>10. /\ task'[Chat] = task[Chat] /\ \A q \in Pages : task'[<<q, 0>>] = task[<<q, 0>>]
       /\ \A u \in Requests : task'[u].at \in {"register", "write"} => task'[u] = task[u]
  <2>1. \A q \in Pages : <<q, 0>> \in Requests \ {t}
    <3>1. n # 0
      OBVIOUS
    <3> QED BY <3>1, RequestTypes
  <2> QED BY <1>0, <1>2, <1>3, <2>1, RequestTypes
<1>11. \A q \in Pages \ {p} : Live(q)' => Live(q)
  BY <1>5 DEF Live
<1>12. "chat" \in stale => "chat" \in stale'
  BY <1>1
<1>13. ASSUME NEW q \in Pages, "chat" \notin stale', Live(q)', hub'[q].chats
       PROVE  \/ page'[q].chat = store'.chat
              \/ task'[Chat].at \in {"reread", "emit"}
              \/ task'[<<q, 0>>].at \in {"hydrate", "write"}
  <2>1. CASE q = p
    BY <1>1, <1>4, <1>8, <1>9, <1>13, <2>1
  <2>2. CASE q # p
    BY <1>0, <1>1, <1>5, <1>10, <1>11, <1>12, <1>13, <2>2 DEF ChatInv
  <2> QED BY <2>1, <2>2
<1> QED BY <1>0, <1>1, <1>10, <1>12, <1>13 DEF ChatInv

LEMMA ShownStep == ShownInv /\ [Next]_vars => ShownInv'
<1> SUFFICES ASSUME ShownInv, [Next]_vars PROVE ShownInv'
  OBVIOUS
<1>1. RegInv' /\ PipeInv'
  BY RegStep, PipeStep DEF ShownInv, RegInv
<1>2. ChatInv'
  <2>1. CASE UNCHANGED vars
    BY <2>1 DEF vars, ShownInv, ChatInv, Live
  <2> QED BY <2>1, OutputsChat, ChatsChat, SubscriptionChat, StreamChat, RegisterChat, PublishChat DEF Next
<1> QED BY <1>1, <1>2, DataStep DEF ShownInv

LEMMA ShownInit == Init => ShownInv
<1> SUFFICES ASSUME Init PROVE ShownInv
  OBVIOUS
<1>1. (\A t \in Requests : task[t].at = "none") /\ (\A p \in Pages : ~Live(p))
  BY ServiceTypes DEF Init, Live
<1>2. PipeInv /\ DataInv /\ ChatInv
  BY <1>1, RequestTypes DEF Init, PipeInv, DataInv, UpToDate, ChatInv
<1> QED BY <1>2, RegInit DEF ShownInv

(* At rest a connected page shows what is persisted. After the newest       *)
(* version was lost on the pipe, or an older one was told last by async     *)
(* stores, that holds again once a further version has been written or any  *)
(* request to connect, subscribe or unsubscribe has begun; a chat that was  *)
(* cleared, or told out of its order, stays so until a message is appended. *)
THEOREM ShowsWhatIsPersisted == Spec => []Current
<1>1. ShownInv => Current
  <2> SUFFICES ASSUME ShownInv, Quiet, NEW p \in Pages, Live(p)
               PROVE  /\ "data" \notin stale => page[p].data = store.data
                      /\ hub[p].chats /\ "chat" \notin stale => page[p].chat = store.chat
    BY DEF Current
  <2>1. page[p].conn \in 1 .. MaxConns
    BY DEF Live, ShownInv, RegInv, TypeInv, TypeOK, Registration
  <2>2. /\ <<p, page[p].conn>> \in Requests /\ <<p, 0>> \in Requests /\ Chat \in Requests
    BY <2>1, RequestTypes
  <2>3. ~Coming /\ \A t \in Requests : ~Repairs(t)
    BY DEF Quiet, Coming, Repairs, Repairing
  <2> QED BY <2>2, <2>3 DEF ShownInv, DataInv, UpToDate, ChatInv, Quiet
<1> QED BY <1>1, ShownInit, ShownStep, PTL DEF Spec

=============================================================================
