-------------------------- MODULE ReactiveDataflow --------------------------
(***************************************************************************)
(* The reactive graph implements Dataflow: the refinement mapping.  A run  *)
(* of a task lasts from the dispatch of its handlers until the event that  *)
(* answers it is applied, however long that event waits in a queue.        *)
(***************************************************************************)
EXTENDS ReactiveGraph

(* What the unanswered runs of t have read: those still on their way, and  *)
(* those whose answer waits.                                               *)
Answers(q, t) == {q[i].read : i \in {j \in DOMAIN q : q[j].type \in {"completed", "failed"} /\ q[j].task = t}}

Unanswered(t) == {flights[t][i] : i \in DOMAIN flights[t]}
                 \cup Answers(batch, t) \cup Answers(internal, t) \cup Answers(input, t)

Busy(t) == Unanswered(t) # {}

ReadBy(t) == IF Busy(t) THEN CHOOSE r \in Unanswered(t) : TRUE ELSE NoInputs

ModeOf(t) == IF Busy(t) THEN "busy"
             ELSE CASE live.st[t].status = "not-started" -> "new"
                    [] live.st[t].status = "completed"   -> "done"
                    [] live.st[t].status = "failed"      -> "dead"
                    [] OTHER                             -> "orphaned"

Content(g, k) == IF Providers(g, k) # {} THEN g.st[LastProvider(g, k)].data ELSE NoData

Contents == [k \in Tokens |-> Content(live, k)]
Modes    == [t \in Handled |-> ModeOf(t)]
Readings == [t \in Handled |-> ReadBy(t)]
Bases    == [t \in Handled |-> basis[t]]

Flow == INSTANCE Dataflow WITH
  Nothing <- NoData, content <- Contents, available <- live.out,
  mode <- Modes, reads <- Readings, basis <- Bases

(* Every step of the engine is a step of Dataflow or none: tasks run one   *)
(* at a time each, only on available inputs that changed, their result is  *)
(* published once; and a task whose inputs changed does run in the end     *)
(* (reactive.ts:327-486 with schedule.ts:21-191).                          *)
ImplementsDataflow == Flow!Spec

=============================================================================
