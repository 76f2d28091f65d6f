---------------------------- MODULE CardHandler ----------------------------
(***************************************************************************)
(* The pure part of the handler of a card                                  *)
(* (src/src/cli/common/board-live-cards-lib.ts, createCardHandlerFn): what *)
(* one call of it does to the runtime state of the card, which fetch       *)
(* request it makes, and whether it completes the card.                    *)
(*                                                                         *)
(* A card is a task.  It fetches from the sources 1..SourceCount[c], in    *)
(* the order of its source_defs; none is skipped.  Tokens are the times of *)
(* requests; the content of a source is the token of the request that it   *)
(* was fetched for.                                                        *)
(***************************************************************************)
EXTENDS LiveGraph

CONSTANTS SourceCount, MaxSource

ASSUME SourceAssumption == MaxSource \in Nat /\ SourceCount \in [Tasks -> 0..MaxSource]

NoToken    == 0
Token      == Nat
Source     == 1..MaxSource
Sources(c) == 1..SourceCount[c]

(* SourceRuntimeEntry.                                                     *)
Entry == [queued    : Token,   \* queueRequestedToken
          requested : Token,   \* lastRequestedToken
          completed : Token,   \* lastCompletedToken
          status    : {"not-started", "success", "failure"}]

NoEntry == [queued |-> NoToken, requested |-> NoToken, completed |-> NoToken, status |-> "not-started"]

(* CardRuntimeSnapshot: execs is _lastExecutionCount, -1 when undefined.   *)
Runtime  == [execs : Nat \cup {-1}, src : [Source -> Entry]]
NoSources == [s \in Source |-> NoEntry]
NoRuntime == [execs |-> -1, src |-> NoSources]

(* An answer to a fetch: the data staged, nothing staged, or a failure.    *)
Answers == {"data", "missing", "failure"}
Update  == [source : 0..MaxSource, rqt : Token, answer : Answers]   \* source 0: none

----------------------------------------------------------------------------
(* decideSourceAction.                                                     *)
Idle(e, wanted) ==
  /\ e.requested # NoToken /\ e.completed = e.requested
  /\ e.completed >= wanted

InFlight(e) == e.requested # NoToken /\ e.completed # e.requested

Due(e, wanted) == ~InFlight(e) /\ ~Idle(e, wanted)

Wanted(e, now) ==
  IF e.queued # NoToken THEN e.queued ELSE IF e.requested # NoToken THEN e.requested ELSE now

(* The entries are wiped when the execution count of the card has changed. *)
Wiped(r, execs) == IF r.execs = execs THEN r ELSE [execs |-> execs, src |-> NoSources]

(* A run queues a new request cycle for each of its sources.               *)
Queued(r, c, now) ==
  [r EXCEPT !.src = [s \in Source |-> IF s \in Sources(c) THEN [r.src[s] EXCEPT !.queued = now]
                                                           ELSE r.src[s]]]

(* Fault: late answers are taken.                                          *)
MutAccepts(r, u) == u.answer # "failure"

(* Whether the answer is taken for data: it is not older than the last one.*)
Accepts(r, u) ==
  /\ u.answer # "failure"
  /\ r.src[u.source].completed = NoToken \/ u.rqt > r.src[u.source].completed

Commits(r, u) == Accepts(r, u) /\ u.answer = "data"

(* Fault: the answer itself is recorded as the status.                     *)
MutAnswered(r, u) ==
  IF Accepts(r, u) \/ u.answer = "failure"
  THEN [r EXCEPT !.src[u.source].completed = u.rqt, !.src[u.source].status = u.answer]
  ELSE r

(* A failure is recorded whatever its age.                                 *)
Answered(r, u) ==
  IF Accepts(r, u) \/ u.answer = "failure"
  THEN [r EXCEPT !.src[u.source].completed = u.rqt,
                 !.src[u.source].status = IF u.answer = "data" THEN "success" ELSE "failure"]
  ELSE r

(* Sources to be fetched now, and the state once they are requested.       *)
DueSources(r, c, now) == {s \in Sources(c) : Due(r.src[s], Wanted(r.src[s], now))}

QueuedAt(e, now) == IF e.queued # NoToken THEN e.queued ELSE now

Requested(r, c, now) ==
  [r EXCEPT !.src = [s \in Source |-> IF s \in DueSources(r, c, now)
                                      THEN [r.src[s] EXCEPT !.requested = QueuedAt(r.src[s], now)]
                                      ELSE r.src[s]]]

(* One request for the card, with the token of its last source that is due.*)
RequestToken(r, c, now) ==
  LET due == DueSources(r, c, now)
  IN  QueuedAt(r.src[CHOOSE s \in due : \A x \in due : x <= s], now)

(* Fault: sources in flight are not waited for.                            *)
MutCompletes(r, c, now) == DueSources(r, c, now) = {}

Completes(r, c, now) ==
  DueSources(r, c, now) = {} /\ \A s \in Sources(c) : ~InFlight(r.src[s])

============================================================================
