------------------------------- MODULE MCReads -------------------------------
(***************************************************************************)
(* What a list of the served models does besides listing (served.go,       *)
(* listServed): ask the models (FirstAnswer), put them on the LLM endpoint *)
(* (GatewayModels), remember what fills their cache directories            *)
(* (CacheIndex).  The three share no variable; a behaviour runs one of     *)
(* them, chosen at the start, so that one run checks all three.            *)
(***************************************************************************)
EXTENDS CacheIndex, FirstAnswer, GatewayModels

VARIABLE part

readVars == <<part, indexVars, answerVars, gatewayVars>>

TypeOK ==
    /\ part \in {"index", "answer", "endpoint"}
    /\ IndexTypeOK /\ AnswerTypeOK /\ GatewayTypeOK

(* A part that does not run starts in one of its initial states only. *)
Init ==
    /\ part \in {"index", "answer", "endpoint"}
    /\ IndexInit /\ AnswerInit /\ GatewayInit
    /\ cache = CHOOSE v \in Volume : TRUE
    /\ part # "answer" => routes

Index(A) == part = "index" /\ A /\ UNCHANGED <<part, answerVars, gatewayVars>>
Answers(A) == part = "answer" /\ A /\ UNCHANGED <<part, indexVars, gatewayVars>>
Gateway(A) == part = "endpoint" /\ A /\ UNCHANGED <<part, indexVars, answerVars>>

Next == Index(IndexNext) \/ Answers(AnswerNext) \/ Gateway(GatewayNext)

(* The fairness of the three, for the one that runs. *)
Fairness ==
    /\ WF_readVars(Index(Expires)) /\ \A c \in Caller : WF_readVars(Index(CallStep(c)))
    /\ \A l \in Lister : WF_readVars(Answers(ListStep(l)))
    /\ WF_readVars(Answers(\E i \in DOMAIN sent : Replies(i)))
    /\ \A t \in Turn : WF_readVars(Answers(RetryPasses(t)))
    /\ WF_readVars(Gateway(ResyncDue)) /\ \A c \in Sync : WF_readVars(Gateway(SyncStep(c)))

Spec == Init /\ [][Next]_readVars /\ Fairness
==============================================================================
