----------------------------- MODULE FirstAnswer -----------------------------
(***************************************************************************)
(* internal/backend/kserve: what a Ready model's server says about itself  *)
(* (interfaces.go) and its first answer (answer.go).                       *)
(*                                                                         *)
(* One serving object, which stays, listed by several calls.  Lists read   *)
(* the server and ask it a request once per Ready transition, outside any  *)
(* lock; the request outlives the list that sent it.                       *)
(***************************************************************************)
EXTENDS Naturals, FiniteSets, Sequences

CONSTANTS
    Lister,      \* lists under way at a time
    MaxTurns,    \* bound on the Ready transitions
    MaxMisses,   \* bound on the reads and requests that get no answer
    NotRead      \* no memory of a transition

ASSUME AnswerBounds == MaxTurns \in Nat /\ MaxMisses \in Nat

VARIABLES
    turn,     \* the Ready transitions so far: the object's ReadyAt
    ready,    \* its Ready condition
    routes,   \* whether the server registers a route to ask
    sent,     \* the requests sent, oldest first
    ask,      \* Backend.asks: the request kept for the object, 0 for none
    apiCache, \* Backend.apiCache, by transition
    lister,   \* lister[l]
    shown,    \* what the last list showed: in which transition, which answer
    misses

answerVars == <<turn, ready, routes, sent, ask, apiCache, lister, shown, misses>>

Turn == 1..MaxTurns
Outcome == {"answered", "failed", "unanswered"}
Answer == {"At", "Failure", "Waiting", "Skipped", "None"}

(* firstAsk: the transition a request was sent for, and the one its answer
   came in. *)
FirstAsk == [transition: Turn, state: Outcome \cup {"flying"}, came: 0..MaxTurns]

(* serverAPI: retryAt is not set, in the future or past. *)
ServerAPI == [answer: Answer, retryAt: {"none", "set", "past"}]

(* What a list found of the object, and how far it is with it. *)
ListState ==
    [pc: {"idle", "listed", "ask", "await", "store"},
     turn: 0..MaxTurns, ready: BOOLEAN,
     retry: BOOLEAN, ask: Nat, answer: Answer]

AnswerTypeOK ==
    /\ turn \in 0..MaxTurns
    /\ {ready, routes} \subseteq BOOLEAN
    /\ \A i \in DOMAIN sent : sent[i] \in FirstAsk
    /\ ask \in 0..Len(sent)
    /\ apiCache \in [Turn -> ServerAPI \cup {NotRead}]
    /\ lister \in [Lister -> ListState]
    /\ \A l \in Lister : lister[l].ask <= Len(sent)
    /\ shown \in [turn: 0..MaxTurns, answer: Answer]
    /\ misses \in 0..MaxMisses

-----------------------------------------------------------------------------
finished(i) == sent[i].state # "flying"

GoList(l, q) == lister' = [lister EXCEPT ![l] = q]
AtList(l, pc) == lister[l].pc = pc
Misses == misses < MaxMisses /\ misses' = misses + 1

IdleList == [pc |-> "idle", turn |-> 0, ready |-> FALSE, retry |-> FALSE,
         ask |-> 0, answer |-> "None"]

(* The list is over and shows a: applyAnswer holds the ready step to it. *)
Shows(l, a) ==
    /\ shown' = [turn |-> IF lister[l].ready THEN lister[l].turn ELSE 0, answer |-> a]
    /\ lister' = [lister EXCEPT ![l] = IdleList]

OutcomeAnswer(i) ==
    CASE sent[i].state = "answered" -> "At"
      [] sent[i].state = "failed" -> "Failure"
      [] sent[i].state = "unanswered" -> "Waiting"

(* standingFailure: the failed first request, while no later one has its
   answer. *)
standingFailure == IF ask # 0 /\ sent[ask].state = "failed" THEN "Failure" ELSE "None"

Keep(S) == apiCache' = [k \in Turn |-> IF k \in S THEN apiCache[k] ELSE NotRead]

-----------------------------------------------------------------------------
(* One list *)

ListObjects(l) ==
    /\ AtList(l, "idle")
    /\ GoList(l, [lister[l] EXCEPT !.pc = "listed", !.turn = turn, !.ready = ready])
    /\ UNCHANGED <<turn, ready, routes, sent, ask, apiCache, misses, shown>>

(* serverAPIs under apiMu: memory of other transitions goes; an object that is
   not Ready keeps its standing failure; a transition already read is not read
   again before its retry.  forgetAsks, which follows, drops nothing of an
   object that is listed. *)
Consult(l) ==
    LET q == lister[l]
        a == IF q.ready THEN apiCache[q.turn] ELSE NotRead
        known == a # NotRead /\ a.retryAt # "past" IN
    /\ AtList(l, "listed")
    /\ Keep(IF q.ready THEN {q.turn} ELSE {})
    /\ \/ ~q.ready /\ Shows(l, standingFailure)
       \/ known /\ Shows(l, a.answer)
       \/ /\ q.ready /\ ~known
          /\ GoList(l, [q EXCEPT !.pc = "ask"]) /\ UNCHANGED shown
    /\ UNCHANGED <<turn, ready, routes, sent, ask, misses>>

(* askFirst sends unless a request is in flight, or this transition's has its
   answer or its failure. *)
ToSend(t) ==
    ask # 0 => /\ finished(ask)
               /\ sent[ask].transition # t \/ sent[ask].state = "unanswered"

(* serverOrigin: where the server is cannot be told, so it is not asked. *)
Unknown(l) ==
    /\ AtList(l, "ask")
    /\ Misses
    /\ GoList(l, [lister[l] EXCEPT !.pc = "store", !.retry = TRUE, !.answer = "Waiting"])
    /\ UNCHANGED <<turn, ready, routes, sent, ask, apiCache, shown>>

(* readServerAPI, which meets nobody, and askFirst under askMu.  A server that
   was not reached is read again later and asked nothing new; one that
   registers no route to ask is asked nothing. *)
Ask(l) ==
    LET q == lister[l] IN
    /\ AtList(l, "ask")
    /\ \E retry \in BOOLEAN :
          /\ IF retry THEN Misses ELSE UNCHANGED misses
          /\ \/ /\ ToSend(q.turn) /\ (retry \/ ~routes)
                /\ GoList(l, [q EXCEPT !.pc = "store", !.retry = retry,
                                     !.answer = IF retry THEN "Waiting" ELSE "Skipped"])
                /\ UNCHANGED <<sent, ask>>
             \/ /\ ToSend(q.turn) /\ ~retry /\ routes
                /\ sent' = Append(sent, [transition |-> q.turn, state |-> "flying", came |-> 0])
                /\ ask' = Len(sent) + 1
                /\ GoList(l, [q EXCEPT !.pc = "await", !.ask = ask'])
             \/ /\ ~ToSend(q.turn)
                /\ GoList(l, [q EXCEPT !.pc = "await", !.retry = retry, !.ask = ask])
                /\ UNCHANGED <<sent, ask>>
    /\ UNCHANGED <<turn, ready, routes, apiCache, shown>>

(* The outcome, or answerWait is over, or the caller hung up. *)
Await(l) ==
    LET q == lister[l] IN
    /\ AtList(l, "await")
    /\ GoList(l, [q EXCEPT !.pc = "store",
                         !.answer = IF finished(q.ask) THEN OutcomeAnswer(q.ask) ELSE "Waiting"])
    /\ UNCHANGED <<turn, ready, routes, sent, ask, apiCache, misses, shown>>

(* Mutant: a transition still waited for is not read again. *)
MutRetryAt(q) == IF q.retry THEN "set" ELSE "none"

RetryAt(q) == IF q.retry \/ q.answer = "Waiting" THEN "set" ELSE "none"

(* What the read found goes to the driver's memory, whatever is in it by now. *)
Store(l) ==
    LET q == lister[l] IN
    /\ AtList(l, "store")
    /\ apiCache' = [apiCache EXCEPT ![q.turn] = [answer |-> q.answer, retryAt |-> RetryAt(q)]]
    /\ Shows(l, q.answer)
    /\ UNCHANGED <<turn, ready, routes, sent, ask, misses>>

ListStep(l) == ListObjects(l) \/ Consult(l) \/ Unknown(l) \/ Ask(l) \/ Await(l) \/ Store(l)

-----------------------------------------------------------------------------
(* The model and the cluster *)

(* send: the runtime answers, fails, or says nothing for answerTimeout. *)
Replies(i) ==
    /\ ~finished(i)
    /\ \E o \in Outcome :
          /\ sent' = [sent EXCEPT ![i].state = o, ![i].came = IF o = "answered" THEN turn ELSE 0]
          /\ IF o = "unanswered" THEN Misses ELSE UNCHANGED misses
    /\ UNCHANGED <<turn, ready, routes, ask, apiCache, lister, shown>>

TurnsReady ==
    /\ ~ready /\ turn < MaxTurns
    /\ ready' = TRUE /\ turn' = turn + 1
    /\ UNCHANGED <<routes, sent, ask, apiCache, lister, shown, misses>>

LeavesReady ==
    /\ ready
    /\ ready' = FALSE
    /\ UNCHANGED <<turn, routes, sent, ask, apiCache, lister, shown, misses>>

RetryPasses(t) ==
    /\ apiCache[t] # NotRead
    /\ apiCache[t].retryAt = "set"
    /\ apiCache' = [apiCache EXCEPT ![t].retryAt = "past"]
    /\ UNCHANGED <<turn, ready, routes, sent, ask, lister, shown, misses>>

-----------------------------------------------------------------------------
AnswerInit ==
    /\ turn = 0 /\ ready = FALSE
    /\ routes \in BOOLEAN
    /\ sent = <<>> /\ ask = 0
    /\ apiCache = [t \in Turn |-> NotRead]
    /\ shown = [turn |-> 0, answer |-> "None"]
    /\ lister = [l \in Lister |-> IdleList]
    /\ misses = 0

AnswerNext ==
    \/ \E l \in Lister : ListStep(l)
    \/ \E i \in DOMAIN sent : Replies(i)
    \/ TurnsReady
    \/ LeavesReady
    \/ \E t \in Turn : RetryPasses(t)

(* Lists go on, a request ends within answerTimeout, a minute passes. *)
AnswerFairness ==
    /\ \A l \in Lister : WF_answerVars(ListStep(l))
    /\ WF_answerVars(\E i \in DOMAIN sent : Replies(i))
    /\ \A t \in Turn : WF_answerVars(RetryPasses(t))

AnswerSpec == AnswerInit /\ [][AnswerNext]_answerVars /\ AnswerFairness

-----------------------------------------------------------------------------

(* A model that stays Ready comes out as served or as failed: no list is left
   showing that it waits for the first answer, once the server is reached
   (interfaces.go:107-112, the retry of a read that did not reach it). *)
AnswerIsShown ==
    <>[](ready => shown.turn = turn /\ shown.answer \in {"At", "Failure", "Skipped"})
==============================================================================
