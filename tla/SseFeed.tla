------------------------------ MODULE SseFeed ------------------------------
(* The event stream of the server runtime (server-runtime/sse-hub.ts,       *)
(* routes-sse.ts, routes-watchers.ts, index.ts): pages hold a connection,   *)
(* receive the published state once, and then what the board's worker and   *)
(* the chat store notify. The worker is a process of its own: it writes the *)
(* outputs and announces them on a pipe. The server is one thread. With     *)
(* stores that answer at once ("sync") a request is served in one turn of   *)
(* its loop, or in two when it waits for its body; with stores of the cloud *)
(* ("async") every read is an await at which other requests go on. Outputs  *)
(* and chat records are versions.                                           *)
EXTENDS Naturals, Sequences, FiniteSets

CONSTANTS
  Pages,        \* client ids; a page keeps its id when it reconnects
  Stores,       \* kinds of stores the server may have: "sync", "async"
  MaxConns,     \* bound: connections of a page
  MaxData,      \* bound: drains of the worker that publish
  MaxChat,      \* bound: changes of the chat
  MaxRequests,  \* bound: requests to subscribe or unsubscribe
  MaxLost,      \* bound: notifications lost on the pipe
  MaxServing,   \* bound: requests served at a time
  None

(* Requests: <<p, n>> is the stream request of connection n of page p,      *)
(* <<p, 0>> its request to (un)subscribe, Chat the append of a message.     *)
Streams == Pages \X (1 .. MaxConns)
Subscriptions == Pages \X {0}
Chat == <<None, 0>>
Requests == Streams \cup Subscriptions \cup {Chat}

Registration == [conn : 1 .. MaxConns, chats : BOOLEAN]

ASSUME FeedAssumption ==
  /\ None \notin Pages \cup Requests \cup Registration /\ Stores \subseteq {"sync", "async"}
  /\ {MaxConns, MaxData, MaxChat, MaxRequests, MaxLost, MaxServing} \subseteq Nat

VARIABLES
  store,    \* what is persisted: the version of the outputs and of the chat
  worker,   \* "idle", or "written": the outputs are, the notification is not
  pipe,     \* announced versions of the outputs that the server has not read
  page,     \* per page: its connection (0: none) and what it shows
  hub,      \* per page: its registration in sseClients, or None
  task,     \* per request: how far it is served and what it has read
  running,  \* the request that holds the thread of a server with sync stores
  closing,  \* connections closed by the page, not yet seen by the server
  kind,     \* the kind of the stores
  stale,    \* history: "data" or "chat" went wrong, and nothing has since begun to correct it
  astray,   \* history: pages that raced with themselves at an await
  wants,    \* history: pages whose subscription was accepted
  bounds    \* how often the bounded things have happened

vars == <<store, worker, pipe, page, hub, task, running, closing, kind, stale, astray, wants, bounds>>

Unserved == [at |-> "none", chats |-> FALSE, data |-> 0, chat |-> 0, rounds |-> 0]
Served   == [Unserved EXCEPT !.at = "done"]

Live(p) == hub[p] # None /\ hub[p].conn = page[p].conn
Count(what) == bounds' = [bounds EXCEPT ![what] = @ + 1]
Race(cond) == kind = "async" /\ cond

(* A request with sync stores keeps the thread until it is served or waits  *)
(* for its body, as one to (un)subscribe does after its snapshots; other    *)
(* events are handled when nobody does.                                     *)
Free == running = None
Serving == {t \in Requests : task[t].at \notin {"none", "asked", "done"}}
MayServe == Cardinality(Serving) < MaxServing

At(t, at) == task[t].at = at /\ running \in {None, t}
Move(t, rec) ==
  /\ task' = [task EXCEPT ![t] = rec]
  /\ running' = IF kind = "sync" /\ rec.at \notin {"none", "done", "subscribe"} THEN t ELSE None

Init ==
  /\ store = [data |-> 0, chat |-> 0] /\ worker = "idle" /\ pipe = <<>>
  /\ page = [p \in Pages |-> [conn |-> 0, data |-> 0, chat |-> 0]]
  /\ hub = [p \in Pages |-> None] /\ task = [t \in Requests |-> Unserved]
  /\ running = None /\ closing = {} /\ kind \in Stores
  /\ stale = {} /\ astray = {} /\ wants = {}
  /\ bounds = [data |-> 0, chat |-> 0, requests |-> 0, lost |-> 0]

----------------------------------------------------------------------------
(* The worker, at the end of a drain, and the pipe.                         *)

(* A newer version corrects the pages when it is announced.                 *)
WriteOutputs ==
  /\ worker = "idle" /\ bounds.data < MaxData
  /\ store' = [store EXCEPT !.data = @ + 1] /\ worker' = "written" /\ Count("data")
  /\ stale' = stale \ {"data"}
  /\ UNCHANGED <<pipe, page, hub, task, running, closing, kind, astray, wants>>

Announce ==
  /\ worker = "written" /\ worker' = "idle" /\ pipe' = Append(pipe, store.data)
  /\ UNCHANGED <<store, page, hub, task, running, closing, kind, stale, astray, wants, bounds>>

(* What cannot be delivered is dropped: the pages stay behind if nothing    *)
(* newer comes after it.                                                    *)
LoseNotification ==
  /\ pipe # <<>> /\ bounds.lost < MaxLost
  /\ pipe' = Tail(pipe) /\ Count("lost")
  /\ stale' = IF Tail(pipe) = <<>> /\ worker = "idle" THEN stale \cup {"data"} ELSE stale
  /\ UNCHANGED <<store, worker, page, hub, task, running, closing, kind, astray, wants>>

----------------------------------------------------------------------------
(* The hub. A frame reaches the page if the connection registered is the one*)
(* it holds; a write to another may throw, which drops the registration.    *)

Broken(ps) == {p \in ps : hub[p] # None /\ ~Live(p)}

Write(to, field, value) ==
  \E gone \in SUBSET Broken(to) :
    /\ page' = [p \in Pages |-> IF p \in to /\ Live(p) THEN [page[p] EXCEPT ![field] = value] ELSE page[p]]
    /\ hub' = [p \in Pages |-> IF p \in gone THEN None ELSE hub[p]]
    /\ wants' = wants \ gone

Subscribed == {p \in Pages : hub[p] # None /\ hub[p].chats}

(* A version of the outputs told to every page. What is older than the      *)
(* outputs with nothing on its way to correct it has overtaken them.        *)
TellOutputs(v, rest) ==
  /\ Write(Pages, "data", v)
  /\ stale' = IF v = store.data THEN stale \ {"data"}
              ELSE IF Race(rest = <<>> /\ worker = "idle") THEN stale \cup {"data"} ELSE stale

Deliver ==
  /\ Free /\ pipe # <<>>
  /\ pipe' = Tail(pipe) /\ TellOutputs(Head(pipe), Tail(pipe))
  /\ UNCHANGED <<store, worker, task, running, closing, kind, astray, bounds>>

(* publishPersistedStateSnapshot, after a stream is connected and before a  *)
(* subscription is changed, twice each time: before and after the cards of  *)
(* the store are upserted.                                                  *)
PublishRead(t) ==
  /\ At(t, "publish") /\ Move(t, [task[t] EXCEPT !.at = "route", !.data = store.data])
  /\ UNCHANGED <<store, worker, pipe, page, hub, closing, kind, stale, astray, wants, bounds>>

(* Fault: the loop over the boards does not end.                            *)
MutPublished(t) == [task[t] EXCEPT !.at = "publish", !.rounds = @ - 1, !.data = 0]

Published(t) ==
  IF task[t].rounds > 1 THEN [task[t] EXCEPT !.at = "publish", !.rounds = @ - 1, !.data = 0]
  ELSE IF t \in Streams THEN Served ELSE [task[t] EXCEPT !.at = "subscribe", !.rounds = 0, !.data = 0]

PublishRoute(t) ==
  /\ At(t, "route") /\ TellOutputs(task[t].data, pipe) /\ Move(t, Published(t))
  /\ UNCHANGED <<store, worker, pipe, closing, kind, astray, bounds>>

----------------------------------------------------------------------------
(* A stream request.                                                        *)

Connect(p, n) ==
  /\ page[p].conn = 0 /\ task[<<p, n>>].at = "none"
  /\ \A k \in 1 .. n - 1 : task[<<p, k>>].at # "none"
  /\ page' = [page EXCEPT ![p].conn = n]
  /\ task' = [task EXCEPT ![<<p, n>>].at = "asked"]
  /\ UNCHANGED <<store, worker, pipe, hub, running, closing, kind, stale, astray, wants, bounds>>

Drop(p) ==
  /\ page[p].conn # 0
  /\ page' = [page EXCEPT ![p].conn = 0] /\ closing' = closing \cup {<<p, page[p].conn>>}
  /\ UNCHANGED <<store, worker, pipe, hub, task, running, kind, stale, astray, wants, bounds>>

(* The subscriptions of the registration found are copied. What the request *)
(* will publish corrects every page.                                        *)
SseBegin(p, n) ==
  /\ At(<<p, n>>, "asked") /\ MayServe
  /\ Move(<<p, n>>, [task[<<p, n>>] EXCEPT !.at = "outputs", !.chats = p \in Subscribed])
  /\ stale' = stale \ {"data"}
  /\ UNCHANGED <<store, worker, pipe, page, hub, closing, kind, astray, wants, bounds>>

ReadOutputs(t) ==
  /\ At(t, "outputs") /\ Move(t, [task[t] EXCEPT !.at = "chats", !.data = store.data])
  /\ UNCHANGED <<store, worker, pipe, page, hub, closing, kind, stale, astray, wants, bounds>>

ReadChats(t) ==
  /\ At(t, "chats") /\ Move(t, [task[t] EXCEPT !.at = "register", !.chat = store.chat])
  /\ UNCHANGED <<store, worker, pipe, page, hub, closing, kind, stale, astray, wants, bounds>>

(* The payload is written and the connection takes the place of the one that*)
(* is registered, which is ended.                                           *)
Replaces(p, n) == hub[p] # None /\ hub[p].conn # n

SseRegister(p, n) ==
  LET t == <<p, n>>
      ends == Replaces(p, n) /\ Live(p)
      overtaken == \/ Replaces(p, n) /\ hub[p].chats # task[t].chats
                   \/ hub[p] = None /\ task[t].chats IN
  /\ At(t, "register")
  /\ page' = [page EXCEPT ![p] =
       IF @.conn = n THEN [conn |-> n, data |-> task[t].data, chat |-> task[t].chat]
       ELSE IF ends THEN [@ EXCEPT !.conn = 0] ELSE @]
  /\ closing' = IF ends THEN closing \cup {<<p, hub[p].conn>>} ELSE closing
  /\ hub' = [hub EXCEPT ![p] = [conn |-> n, chats |-> task[t].chats]]
  /\ stale' = IF Race(task[t].chats /\ task[t].chat # store.chat) THEN stale \cup {"chat"} ELSE stale
  /\ astray' = IF Race(overtaken) THEN astray \cup {p} ELSE astray
  /\ Move(t, [Unserved EXCEPT !.at = "publish", !.rounds = 2])
  /\ UNCHANGED <<store, worker, pipe, kind, wants, bounds>>

(* The close event of a connection, which is only listened to after it has  *)
(* been registered. An older connection leaves the registration alone.      *)
Attached(t) == task[t].at \in {"publish", "route", "done"}

(* Fault: disconnect() is not told which connection it is about.            *)
MutDisconnects(p, n) == hub[p] # None

Disconnects(p, n) == hub[p] # None /\ hub[p].conn = n

Closed(p, n) ==
  /\ Free /\ <<p, n>> \in closing /\ task[<<p, n>>].at # "asked"
  /\ closing' = closing \ {<<p, n>>}
  /\ IF Attached(<<p, n>>) /\ Disconnects(p, n)
     THEN hub' = [hub EXCEPT ![p] = None] /\ wants' = wants \ {p}
     ELSE UNCHANGED <<hub, wants>>
  /\ astray' = IF Race(~Attached(<<p, n>>)) THEN astray \cup {p} ELSE astray
  /\ UNCHANGED <<store, worker, pipe, page, task, running, kind, stale, bounds>>

----------------------------------------------------------------------------
(* Chats: subscribing, hydration, and what the chat store emits.            *)

(* Fault: the subscription is changed without publishing the state first.   *)
MutAsk(p, subscribe) ==
  /\ page[p].conn # 0 /\ task[<<p, 0>>].at = "none" /\ bounds.requests < MaxRequests /\ MayServe
  /\ task' = [task EXCEPT ![<<p, 0>>] = [Unserved EXCEPT !.at = "subscribe", !.chats = subscribe]]
  /\ Count("requests") /\ stale' = stale \ {"data"}
  /\ UNCHANGED <<store, worker, pipe, page, hub, running, closing, kind, astray, wants>>

Ask(p, subscribe) ==
  /\ page[p].conn # 0 /\ task[<<p, 0>>].at = "none" /\ bounds.requests < MaxRequests /\ MayServe
  /\ task' = [task EXCEPT ![<<p, 0>>] = [Unserved EXCEPT !.at = "publish", !.rounds = 2, !.chats = subscribe]]
  /\ Count("requests") /\ stale' = stale \ {"data"}
  /\ UNCHANGED <<store, worker, pipe, page, hub, running, closing, kind, astray, wants>>

SubscribeChat(p) ==
  LET t == <<p, 0>> IN
  /\ At(t, "subscribe") /\ task[t].chats /\ hub[p] # None
  /\ hub' = [hub EXCEPT ![p].chats = TRUE] /\ wants' = wants \cup {p}
  /\ Move(t, [task[t] EXCEPT !.at = "hydrate"])
  /\ UNCHANGED <<store, worker, pipe, page, closing, kind, stale, astray, bounds>>

UnsubscribeChat(p) ==
  LET t == <<p, 0>> IN
  /\ At(t, "subscribe") /\ ~task[t].chats /\ hub[p] # None
  /\ hub' = [hub EXCEPT ![p].chats = FALSE] /\ wants' = wants \ {p}
  /\ Move(t, Unserved)
  /\ UNCHANGED <<store, worker, pipe, page, closing, kind, stale, astray, bounds>>

NotConnected(p) ==
  /\ At(<<p, 0>>, "subscribe") /\ hub[p] = None /\ Move(<<p, 0>>, Unserved)
  /\ UNCHANGED <<store, worker, pipe, page, hub, closing, kind, stale, astray, wants, bounds>>

ReadHydration(p) ==
  /\ At(<<p, 0>>, "hydrate")
  /\ Move(<<p, 0>>, [task[<<p, 0>>] EXCEPT !.at = "write", !.chat = store.chat])
  /\ UNCHANGED <<store, worker, pipe, page, hub, closing, kind, stale, astray, wants, bounds>>

WriteHydration(p) ==
  LET t == <<p, 0>> IN
  /\ At(t, "write") /\ Write({p}, "chat", task[t].chat) /\ Move(t, Unserved)
  /\ stale' = IF Race(task[t].chat # store.chat) THEN stale \cup {"chat"} ELSE stale
  /\ UNCHANGED <<store, worker, pipe, closing, kind, astray, bounds>>

AppendMessage ==
  /\ At(Chat, "none") /\ bounds.chat < MaxChat /\ MayServe /\ Count("chat")
  /\ store' = [store EXCEPT !.chat = @ + 1] /\ Move(Chat, [Unserved EXCEPT !.at = "reread"])
  /\ UNCHANGED <<worker, pipe, page, hub, closing, kind, stale, astray, wants>>

ReadLastTurn ==
  /\ At(Chat, "reread") /\ Move(Chat, [Unserved EXCEPT !.at = "emit", !.chat = store.chat])
  /\ UNCHANGED <<store, worker, pipe, page, hub, closing, kind, stale, astray, wants, bounds>>

EmitMessages ==
  /\ At(Chat, "emit") /\ Write(Subscribed, "chat", task[Chat].chat) /\ Move(Chat, Unserved)
  /\ stale' = IF task[Chat].chat = store.chat THEN stale \ {"chat"} ELSE stale
  /\ UNCHANGED <<store, worker, pipe, closing, kind, astray, bounds>>

(* Clearing a chat announces nothing about its messages.                    *)
ClearChat ==
  /\ Free /\ bounds.chat < MaxChat /\ Count("chat")
  /\ store' = [store EXCEPT !.chat = @ + 1] /\ stale' = stale \cup {"chat"}
  /\ UNCHANGED <<worker, pipe, page, hub, task, running, closing, kind, astray, wants>>

----------------------------------------------------------------------------

Outputs == WriteOutputs \/ Announce \/ LoseNotification \/ Deliver

Stream(p, n) ==
  \/ Connect(p, n) \/ SseBegin(p, n) \/ SseRegister(p, n) \/ Closed(p, n)
  \/ ReadOutputs(<<p, n>>) \/ ReadChats(<<p, n>>)

Subscription(p) ==
  \/ SubscribeChat(p) \/ UnsubscribeChat(p) \/ NotConnected(p)
  \/ ReadHydration(p) \/ WriteHydration(p)
  \/ \E subscribe \in BOOLEAN : Ask(p, subscribe)

Chats == AppendMessage \/ ReadLastTurn \/ EmitMessages \/ ClearChat

Next ==
  \/ Outputs \/ Chats
  \/ \E p \in Pages : Drop(p) \/ Subscription(p) \/ \E n \in 1 .. MaxConns : Stream(p, n)
  \/ \E t \in Requests : PublishRead(t) \/ PublishRoute(t)

Spec == Init /\ [][Next]_vars

----------------------------------------------------------------------------

Stages == {"none", "asked", "outputs", "chats", "register", "publish", "route", "done",
           "subscribe", "hydrate", "write", "reread", "emit"}
Service == [at : Stages, chats : BOOLEAN, data : 0 .. MaxData, chat : 0 .. MaxChat, rounds : 0 .. 2]

TypeOK ==
  /\ store \in [data : 0 .. MaxData, chat : 0 .. MaxChat]
  /\ worker \in {"idle", "written"} /\ pipe \in Seq(1 .. MaxData)
  /\ page \in [Pages -> [conn : 0 .. MaxConns, data : 0 .. MaxData, chat : 0 .. MaxChat]]
  /\ hub \in [Pages -> {None} \cup Registration]
  /\ task \in [Requests -> Service]
  /\ running \in {None} \cup Requests /\ closing \subseteq Streams /\ kind \in Stores
  /\ stale \subseteq {"data", "chat"} /\ astray \subseteq Pages /\ wants \subseteq Pages
  /\ bounds \in [data : 0 .. MaxData, chat : 0 .. MaxChat,
                 requests : 0 .. MaxRequests, lost : 0 .. MaxLost]

(* Nothing is on its way, and no request is being served.                   *)
Quiet ==
  /\ worker = "idle" /\ pipe = <<>> /\ closing = {}
  /\ \A t \in Requests : task[t].at \in {"none", "done"}

(* At rest a connected page shows the outputs, and the chat it is subscribed*)
(* to, as they are persisted, whatever it missed while it was away or being *)
(* connected, and whatever notification was lost, once a further version has*)
(* been written or a request to connect, subscribe or unsubscribe has begun,*)
(* of whichever page. Until then it may lack the newest version if its      *)
(* notification was lost (process-runner.ts:290) and, with async stores,    *)
(* show an older one that was read before and told after it. A cleared chat *)
(* stays until a message is appended, and so does a chat that was read      *)
(* before and told after a newer one.                                       *)
Current ==
  Quiet => \A p \in Pages : Live(p) =>
    /\ "data" \notin stale => page[p].data = store.data
    /\ hub[p].chats /\ "chat" \notin stale => page[p].chat = store.chat

(* At rest exactly the connected pages are registered, under the connection *)
(* they hold and with the subscription that was accepted last, in whichever *)
(* order connections were opened, served and closed. With async stores a    *)
(* page that reconnects or closes while it is being served may go astray.   *)
Registered ==
  Quiet => \A p \in Pages \ astray :
    /\ hub[p] = None <=> page[p].conn = 0
    /\ hub[p] # None => Live(p) /\ (hub[p].chats <=> p \in wants)
=============================================================================
