--------------------------- MODULE AnswerService ---------------------------
(***************************************************************************)
(* Questions on their way through the retrieval service.  The handlers     *)
(* /api/answers and /api/retrieval/search are coroutines of one event      *)
(* loop; their session is a synchronous one, so that a search occupies the *)
(* loop, and the connection it takes from the pool stays with the question *)
(* until its handler is left, over the calls of the model provider.  The   *)
(* other endpoints use the same pool from threads.                         *)
(***************************************************************************)
EXTENDS Naturals, FiniteSets

CONSTANTS
  Questions,
  Inspections,       \* the questions that only ask for the ranked passages
  Threads,           \* the threads that serve synchronous endpoints
  PoolSize,          \* db_pool_size + db_max_overflow
  SourceLimit,       \* context_chunk_limit
  RequireCitations,  \* RetrievalConfig.require_citations
  RetryInvalid       \* RetrievalConfig.retry_invalid_citations

ASSUME ConstantsAssumption ==
  /\ Inspections \subseteq Questions
  /\ IsFiniteSet(Threads) /\ IsFiniteSet(Questions)
  /\ Threads \cap Questions = {}
  /\ PoolSize \in Nat \ {0}
  /\ SourceLimit \in Nat \ {0}
  /\ RequireCitations \in BOOLEAN
  /\ RetryInvalid \in BOOLEAN

VARIABLES
  question,   \* by question: how far it is, and what it has learned
  holders     \* the questions and threads that have a connection of the pool

vars == <<question, holders>>

Channels == {"dense", "lexical"}

PCs == Channels \cup {"absent", "embedding", "ranking", "generating", "done"}

Outcomes == {"pending", "answered", "abstained", "listed", "failed"}

\* Mutant of Attempts: the bound of the range is off by one.
AttemptsOneMore == IF RetryInvalid THEN 3 ELSE 2

Attempts == IF RetryInvalid THEN 2 ELSE 1

\* A label that the generator writes: [S1] to [Sn] name the passages of the
\* prompt, any other is made up.
Labels == 1..(SourceLimit + 1)

Question ==
  [pc : PCs,
   skips : SUBSET Channels,    \* the searches that will send no statement
   found : SUBSET Channels,    \* the searches that returned passages
   failed : SUBSET Channels,   \* the searches that raised
   met : SUBSET Channels,      \* those of them that raised for a fault of their own
   aborted : BOOLEAN,          \* the session's transaction awaits a rollback
   sources : 0..SourceLimit,   \* the passages in the prompt or in the list
   attempt : 0..2,
   outcome : Outcomes,
   cited : SUBSET Labels]

Fresh ==
  [pc |-> "absent", skips |-> {}, found |-> {}, failed |-> {}, met |-> {}, aborted |-> FALSE,
   sources |-> 0, attempt |-> 0, outcome |-> "pending", cited |-> {}]

Init ==
  /\ question = [q \in Questions |-> Fresh]
  /\ holders = {}

(***************************************************************************)
(* Coroutines.                                                             *)
(***************************************************************************)
At(q, pc) == question[q].pc = pc

\* A search runs in the loop's own thread, waiting for a connection included.
LoopFree == \A q \in Questions : question[q].pc \notin Channels

Become(q, state) == question' = [question EXCEPT ![q] = state]

Goto(q, pc) == Become(q, [question[q] EXCEPT !.pc = pc])

\* Mutant of Finish: the session is not closed.
FinishLeaks(q, outcome, sources, cited) ==
  /\ Become(q, [question[q] EXCEPT !.pc = "done", !.outcome = outcome,
                                   !.sources = sources, !.cited = cited])
  /\ UNCHANGED holders

\* The handler is left: with SessionLocal() closes the session, and the
\* connection goes back to the pool.
Finish(q, outcome, sources, cited) ==
  /\ Become(q, [question[q] EXCEPT !.pc = "done", !.outcome = outcome,
                                   !.sources = sources, !.cited = cited])
  /\ holders' = holders \ {q}

Ask(q) ==
  /\ At(q, "absent") /\ LoopFree
  /\ Goto(q, "embedding")
  /\ UNCHANGED holders

\* The query vector arrives, or the question is blank or the provider is not
\* configured, raises or sends a vector that _validate_query_embedding refuses.
\* gather queues both searches, which run one after the other: neither awaits
\* anything.  Whether one has nothing to send, for a vector of the wrong
\* dimension or a question without a word, is settled by now.
Embedded(q) ==
  /\ At(q, "embedding") /\ LoopFree
  /\ \/ \E skips \in SUBSET Channels :
          /\ Become(q, [question[q] EXCEPT !.pc = "dense", !.skips = skips])
          /\ UNCHANGED holders
     \/ Finish(q, "failed", 0, {})

(***************************************************************************)
(* The two searches of a question on its one session.                      *)
(***************************************************************************)
After(c) == IF c = "dense" THEN "lexical" ELSE "ranking"

Raise(q, c, own, aborted) ==
  Become(q, [question[q] EXCEPT !.pc = After(c), !.failed = @ \cup {c}, !.aborted = aborted,
                                !.met = IF own THEN @ \cup {c} ELSE @])

Return(q, c, any) ==
  Become(q, [question[q] EXCEPT !.pc = After(c), !.found = IF any THEN @ \cup {c} ELSE @])

CanConnect(q) == q \in holders \/ Cardinality(holders) < PoolSize

\* No statement is sent: a vector of another dimension than the column's
\* raises, and without a word to search for nothing is found.
SkipsDatabase(q, c) ==
  /\ At(q, c) /\ c \in question[q].skips
  /\ \/ c = "dense" /\ Raise(q, c, TRUE, question[q].aborted)
     \/ c = "lexical" /\ Return(q, c, FALSE)
  /\ UNCHANGED holders

\* The statement runs.  When it fails, PostgreSQL refuses every later one of
\* the same transaction.
Searches(q, c) ==
  /\ At(q, c) /\ CanConnect(q) /\ ~question[q].aborted
  /\ holders' = holders \cup {q}
  /\ \/ \E any \in BOOLEAN : Return(q, c, any)
     \/ Raise(q, c, TRUE, TRUE)

BehindAbort(q, c) ==
  /\ At(q, c) /\ question[q].aborted
  /\ Raise(q, c, FALSE, TRUE)
  /\ UNCHANGED holders

\* There is no connection to be had from the server.
ConnectFails(q, c) ==
  /\ At(q, c) /\ q \notin holders /\ Cardinality(holders) < PoolSize
  /\ Raise(q, c, TRUE, FALSE)
  /\ UNCHANGED holders

\* Mutant of PoolTimeout: the pool waits without a timeout.
PoolWaitsForever(q, c) == FALSE

\* The pool is exhausted for its timeout, and the checkout raises.
PoolTimeout(q, c) ==
  /\ At(q, c) /\ ~CanConnect(q)
  /\ Raise(q, c, TRUE, FALSE)
  /\ UNCHANGED holders

Search(q, c) ==
  \/ SkipsDatabase(q, c)
  \/ /\ c \notin question[q].skips
     /\ \/ Searches(q, c) \/ BehindAbort(q, c)
        \/ ConnectFails(q, c) \/ PoolTimeout(q, c)

(***************************************************************************)
(* Ranking and the prompt.                                                 *)
(***************************************************************************)

\* Both searches raised, or a score is not a number (the distance of a vector
\* without any feature).
RankFails(q) ==
  /\ At(q, "ranking") /\ LoopFree
  /\ question[q].failed = Channels \/ "dense" \in question[q].found
  /\ Finish(q, "failed", 0, {})

\* Fusion takes the passages of either search, and removing duplicates keeps
\* the first: something is left if anything was found.  A reranker that raises
\* changes nothing.
AnyRanked(q) == question[q].found # {}

\* The limits by document and section admit the best passage, and the whole
\* selection is bounded.
Selections(q) == IF AnyRanked(q) THEN 1..SourceLimit ELSE {0}

\* The prompt takes a prefix of the selection that fits the token budget; it
\* may be empty.
Prompts(n) == 0..n

RankForInspection(q) ==
  /\ At(q, "ranking") /\ LoopFree
  /\ q \in Inspections /\ question[q].failed # Channels
  /\ \E n \in Selections(q) : Finish(q, "listed", n, {})

RankForAnswer(q) ==
  /\ At(q, "ranking") /\ LoopFree
  /\ q \notin Inspections /\ question[q].failed # Channels
  /\ \E n \in Selections(q) : \E kept \in Prompts(n) :
       \/ /\ kept = 0
          /\ Finish(q, "abstained", 0, {})
       \/ /\ kept > 0
          /\ Become(q, [question[q] EXCEPT !.pc = "generating", !.sources = kept,
                                           !.attempt = 1])
          /\ UNCHANGED holders

(***************************************************************************)
(* Generation, and the validation of its citations.                        *)
(***************************************************************************)
Reply ==
  [empty : BOOLEAN,
   inline : SUBSET Labels,      \* the labels in the text of the answer
   declared : SUBSET Labels,    \* the labels in its list of citations
   abstained : BOOLEAN]

Replies == {r \in Reply : r.empty => r.inline = {}}

Cited(r, sources) == r.inline \cap 1..sources

InvalidLabels(r, sources) == (r.inline \cup r.declared) \ (1..sources)

\* Mutant of HasRequired: the list of citations counts as a visible citation.
HasRequiredDeclared(r, sources) ==
  RequireCitations /\ ~r.abstained => (r.inline \cup r.declared) \cap 1..sources # {}

HasRequired(r, sources) == RequireCitations /\ ~r.abstained => Cited(r, sources) # {}

Accepted(r, sources) ==
  InvalidLabels(r, sources) = {} /\ HasRequired(r, sources) /\ ~r.empty

Generates(q) == At(q, "generating") /\ LoopFree

GenerationFails(q) == Generates(q) /\ Finish(q, "abstained", question[q].sources, {})

AcceptReply(q, r) ==
  /\ Generates(q) /\ Accepted(r, question[q].sources)
  /\ Finish(q, IF r.abstained THEN "abstained" ELSE "answered",
            question[q].sources, Cited(r, question[q].sources))

\* The labels are wrong or missing: the generator is told so and asked again,
\* once.
RetryReply(q, r) ==
  /\ Generates(q) /\ ~Accepted(r, question[q].sources)
  /\ question[q].attempt < Attempts
  /\ Become(q, [question[q] EXCEPT !.attempt = @ + 1])
  /\ UNCHANGED holders

RejectReply(q, r) ==
  /\ Generates(q) /\ ~Accepted(r, question[q].sources)
  /\ question[q].attempt = Attempts
  /\ Finish(q, "abstained", question[q].sources, {})

Generated(q) ==
  \/ GenerationFails(q)
  \/ \E r \in Replies : AcceptReply(q, r) \/ RetryReply(q, r) \/ RejectReply(q, r)

(***************************************************************************)
(* Threads of synchronous endpoints, exact counting among them.            *)
(***************************************************************************)
ThreadTakes(t) ==
  /\ t \notin holders /\ Cardinality(holders) < PoolSize
  /\ holders' = holders \cup {t}
  /\ UNCHANGED question

ThreadReturns(t) ==
  /\ t \in holders
  /\ holders' = holders \ {t}
  /\ UNCHANGED question

QuestionStep(q) ==
  \/ Embedded(q)
  \/ \E c \in Channels : Search(q, c)
  \/ RankFails(q) \/ RankForInspection(q) \/ RankForAnswer(q)
  \/ Generated(q)

Next ==
  \/ \E q \in Questions : Ask(q) \/ QuestionStep(q)
  \/ \E t \in Threads : ThreadTakes(t) \/ ThreadReturns(t)

Spec == Init /\ [][Next]_vars

(***************************************************************************)
(* Fairness: the providers' clients and the pool have timeouts, so that an *)
(* awaited call ends and a blocked checkout raises; the loop runs a        *)
(* coroutine that is ready.  Nothing makes a thread ask for a connection   *)
(* or return it by a certain time.                                         *)
(***************************************************************************)
FairSpec == Spec /\ \A q \in Questions : WF_vars(QuestionStep(q))

(***************************************************************************)
(* Properties.                                                             *)
(***************************************************************************)

\* Every variable keeps its type; the pool never lends more than it has.
TypeOK ==
  /\ question \in [Questions -> Question]
  /\ holders \subseteq Questions \cup Threads
  /\ Cardinality(holders) <= PoolSize

\* A connection that a question took is the question's until its handler is
\* left, on whichever of its paths, and no longer: a question that was
\* answered, refused or failed holds none.
ConnectionsReturned ==
  \A q \in Questions : q \in holders =>
    question[q].pc \in {"lexical", "ranking", "generating"}

replies ==
  [q \in Questions |->
     IF At(q, "done")
     THEN [outcome |-> question[q].outcome, shown |-> question[q].sources,
           cited |-> question[q].cited]
     ELSE [outcome |-> "pending", shown |-> 0, cited |-> {}]]

Promise == INSTANCE GroundedAnswers WITH reply <- replies

\* The service implements what it promises: one reply, and an answer cites
\* passages of its own prompt only, on the first attempt and on the second.
Grounded == Promise!Spec

\* A question that was asked ends.  One that waits for a connection stops the
\* loop on which those that hold the connections would go on, so that the
\* pool's timeout is what ends the wait.
EveryQuestionEnds ==
  \A q \in Questions : ~At(q, "absent") ~> At(q, "done")

\* "One failed retrieval channel degrades gracefully": a question is without
\* both searches only when each met a fault of its own.
OneChannelDegrades ==
  \A q \in Questions : question[q].failed = Channels => question[q].met = Channels
=============================================================================
