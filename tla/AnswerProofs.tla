---------------------------- MODULE AnswerProofs ----------------------------
(***************************************************************************)
(* Theorems about AnswerService, for every set of questions and threads    *)
(* and every size of the pool and of the prompt.                           *)
(*                                                                         *)
(* A step of a question either leaves its handler (Finishes) or goes on    *)
(* (Continues).  Both preserve the inductive invariant; the first tells    *)
(* the client something, once, and the second nothing.                     *)
(***************************************************************************)
EXTENDS AnswerService, FiniteSetTheorems, TLAPS

\* A question that generates asks for an answer and has a prompt.
PromptHasSources ==
  \A q \in Questions : At(q, "generating") =>
    q \notin Inspections /\ question[q].sources > 0

IInv == TypeOK /\ ConnectionsReturned /\ PromptHasSources

Working == {"lexical", "ranking", "generating"}

(***************************************************************************)
(* The pool.                                                               *)
(***************************************************************************)
LEMMA HoldersFinite ==
  ASSUME TypeOK
  PROVE  IsFiniteSet(holders) /\ Cardinality(holders) \in Nat
<1>1. IsFiniteSet(Questions \cup Threads)
  BY ConstantsAssumption, FS_Union
<1>2. IsFiniteSet(holders)
  BY <1>1, FS_Subset DEF TypeOK
<1>3. QED
  BY <1>2, FS_CardinalityType

\* Taking a connection that the pool can lend, and returning one.
LEMMA TakeKeepsBound ==
  ASSUME TypeOK, NEW x \in Questions \cup Threads,
         x \in holders \/ Cardinality(holders) < PoolSize
  PROVE  /\ holders \cup {x} \subseteq Questions \cup Threads
         /\ Cardinality(holders \cup {x}) <= PoolSize
<1>1. Cardinality(holders \cup {x}) =
        IF x \in holders THEN Cardinality(holders) ELSE Cardinality(holders) + 1
  BY HoldersFinite, FS_AddElement
<1>2. QED
  BY <1>1, HoldersFinite, ConstantsAssumption DEF TypeOK

LEMMA ReturnKeepsBound ==
  ASSUME TypeOK, NEW x
  PROVE  /\ holders \ {x} \subseteq Questions \cup Threads
         /\ Cardinality(holders \ {x}) <= PoolSize
<1>1. Cardinality(holders \ {x}) =
        IF x \in holders THEN Cardinality(holders) - 1 ELSE Cardinality(holders)
  BY HoldersFinite, FS_RemoveElement
<1>2. QED
  BY <1>1, HoldersFinite, ConstantsAssumption DEF TypeOK

(***************************************************************************)
(* The two kinds of a question's steps.                                    *)
(***************************************************************************)
LEMMA Finishes ==
  ASSUME IInv, NEW q \in Questions, ~At(q, "done"),
         NEW outcome \in Outcomes, NEW n \in 0..SourceLimit, NEW cited \in SUBSET (1..n),
         Finish(q, outcome, n, cited)
  PROVE  IInv' /\ Promise!Tell(q, outcome, n, cited)
<1>1. cited \in SUBSET Labels
  BY ConstantsAssumption DEF Labels
<1>2. PICK r \in Question : /\ question' = [question EXCEPT ![q] = r]
                            /\ r.pc = "done" /\ r.outcome = outcome
                            /\ r.sources = n /\ r.cited = cited
  <2> DEFINE old == question[q]
             r == [old EXCEPT !.pc = "done", !.outcome = outcome,
                              !.sources = n, !.cited = cited]
  <2>2. question' = [question EXCEPT ![q] = r]
    BY DEF Finish, Become
  <2>4. old \in Question
    BY DEF IInv, TypeOK
  <2> HIDE DEF old
  <2>1. r \in Question /\ r.pc = "done" /\ r.outcome = outcome
        /\ r.sources = n /\ r.cited = cited
    BY <1>1, <2>4 DEF Question, PCs
  <2> HIDE DEF r
  <2>3. QED
    BY <2>1, <2>2
<1>3. TypeOK'
  BY <1>2, ReturnKeepsBound DEF Finish, IInv, TypeOK
<1>4. ConnectionsReturned'
  BY <1>2 DEF Finish, IInv, TypeOK, ConnectionsReturned
<1>5. PromptHasSources'
  BY <1>2 DEF IInv, TypeOK, PromptHasSources, At
<1>6. replies[q] = Promise!NoReply
  BY DEF replies, Promise!NoReply
<1>7. replies' = [replies EXCEPT ![q] = [outcome |-> outcome, shown |-> n, cited |-> cited]]
  BY <1>2 DEF replies, At, IInv, TypeOK
<1>8. QED
  BY <1>3, <1>4, <1>5, <1>6, <1>7 DEF IInv, Promise!Tell

LEMMA Continues ==
  ASSUME IInv, NEW q \in Questions, ~At(q, "done"),
         NEW r \in Question, question' = [question EXCEPT ![q] = r], r.pc # "done",
         r.pc = "generating" => q \notin Inspections /\ r.sources > 0,
         \/ holders' = holders /\ (q \in holders => r.pc \in Working)
         \/ holders' = holders \cup {q} /\ CanConnect(q) /\ r.pc \in Working
  PROVE  IInv' /\ replies' = replies
<1>1. holders' \subseteq Questions \cup Threads /\ Cardinality(holders') <= PoolSize
  <2>1. CASE holders' = holders
    BY <2>1 DEF IInv, TypeOK
  <2>2. CASE holders' = holders \cup {q} /\ CanConnect(q)
    BY <2>2, TakeKeepsBound DEF IInv, CanConnect
  <2>3. QED
    BY <2>1, <2>2
<1>2. TypeOK'
  BY <1>1 DEF IInv, TypeOK
<1>3. ConnectionsReturned'
  BY DEF IInv, TypeOK, ConnectionsReturned, Working
<1>4. PromptHasSources'
  BY DEF IInv, TypeOK, PromptHasSources, At
<1>5. replies' = replies
  BY DEF IInv, TypeOK, replies, At
<1>6. QED
  BY <1>2, <1>3, <1>4, <1>5 DEF IInv

\* What one step means to the client.
Told(q) ==
  \/ replies' = replies
  \/ Promise!Answer(q) \/ Promise!Abstain(q) \/ Promise!List(q) \/ Promise!Fail(q)

LEMMA FailTold ==
  ASSUME IInv, NEW q \in Questions, ~At(q, "done"), Finish(q, "failed", 0, {})
  PROVE  IInv' /\ Told(q)
<1>1. 0 \in 0..SourceLimit /\ {} \in SUBSET (1..0) /\ "failed" \in Outcomes
  BY ConstantsAssumption DEF Outcomes
<1>2. IInv' /\ Promise!Tell(q, "failed", 0, {})
  BY <1>1, Finishes
<1>3. QED
  BY <1>2 DEF Told, Promise!Fail

LEMMA AbstainTold ==
  ASSUME IInv, NEW q \in Questions, ~At(q, "done"), q \notin Inspections,
         NEW n \in 0..SourceLimit, NEW cited \in SUBSET (1..n),
         Finish(q, "abstained", n, cited)
  PROVE  IInv' /\ Told(q)
<1>1. IInv' /\ Promise!Tell(q, "abstained", n, cited)
  BY Finishes DEF Outcomes
<1>2. QED
  BY <1>1 DEF Told, Promise!Abstain

(***************************************************************************)
(* The actions.                                                            *)
(***************************************************************************)
LEMMA AskStep ==
  ASSUME IInv, NEW q \in Questions, Ask(q)
  PROVE  IInv' /\ Told(q)
<1> DEFINE r == [question[q] EXCEPT !.pc = "embedding"]
<1>1. r \in Question /\ r.pc = "embedding" /\ question' = [question EXCEPT ![q] = r]
  BY DEF Ask, Goto, Become, IInv, TypeOK, Question, PCs
<1>2. ~At(q, "done") /\ q \notin holders /\ holders' = holders
  BY DEF Ask, At, IInv, ConnectionsReturned
<1> HIDE DEF r
<1>3. QED
  BY <1>1, <1>2, Continues DEF Told

LEMMA EmbeddedStep ==
  ASSUME IInv, NEW q \in Questions, Embedded(q)
  PROVE  IInv' /\ Told(q)
<1>1. ~At(q, "done") /\ q \notin holders
  BY DEF Embedded, At, IInv, ConnectionsReturned
<1>2. ASSUME NEW skips \in SUBSET Channels, UNCHANGED holders,
             Become(q, [question[q] EXCEPT !.pc = "dense", !.skips = skips])
      PROVE  IInv' /\ Told(q)
  <2> DEFINE r == [question[q] EXCEPT !.pc = "dense", !.skips = skips]
  <2>1. question[q] \in Question /\ "dense" \in PCs
    BY DEF IInv, TypeOK, PCs, Channels
  <2>2. r \in Question /\ r.pc = "dense"
    BY <1>2, <2>1 DEF Question
  <2>3. question' = [question EXCEPT ![q] = r]
    BY <1>2 DEF Become
  <2> HIDE DEF r
  <2> QED
    BY <1>1, <1>2, <2>2, <2>3, Continues DEF Told
<1>3. CASE Finish(q, "failed", 0, {})
  BY <1>1, <1>3, FailTold
<1>4. QED
  BY <1>2, <1>3, Zenon DEF Embedded

\* A search, whether it returns or raises, makes the question go on to the
\* next one or to the ranking.
LEMMA ReturnGoesOn ==
  ASSUME IInv, NEW q \in Questions, NEW c \in Channels, NEW any \in BOOLEAN,
         Return(q, c, any)
  PROVE  \E r \in Question : r.pc \in Working \ {"generating"}
                             /\ question' = [question EXCEPT ![q] = r]
<1> DEFINE r == [question[q] EXCEPT !.pc = After(c),
                                    !.found = IF any THEN @ \cup {c} ELSE @]
<1>1. After(c) \in {"lexical", "ranking"}
  BY DEF After
<1>2. r \in Question /\ r.pc = After(c)
  <2>1. question[q] \in Question /\ After(c) \in PCs
    BY <1>1 DEF IInv, TypeOK, PCs, Channels
  <2> QED BY <2>1 DEF Question
<1>3. question' = [question EXCEPT ![q] = r]
  BY DEF Return, Become
<1> HIDE DEF r
<1>4. QED
  BY <1>1, <1>2, <1>3 DEF Working

LEMMA RaiseGoesOn ==
  ASSUME IInv, NEW q \in Questions, NEW c \in Channels,
         NEW own \in BOOLEAN, NEW aborted \in BOOLEAN, Raise(q, c, own, aborted)
  PROVE  \E r \in Question : r.pc \in Working \ {"generating"}
                             /\ question' = [question EXCEPT ![q] = r]
<1> DEFINE r == [question[q] EXCEPT !.pc = After(c), !.failed = @ \cup {c},
                                    !.aborted = aborted,
                                    !.met = IF own THEN @ \cup {c} ELSE @]
<1>1. After(c) \in {"lexical", "ranking"}
  BY DEF After
<1>2. r \in Question /\ r.pc = After(c)
  <2>1. question[q] \in Question /\ After(c) \in PCs
    BY <1>1 DEF IInv, TypeOK, PCs, Channels
  <2> QED BY <2>1 DEF Question
<1>3. question' = [question EXCEPT ![q] = r]
  BY DEF Raise, Become
<1> HIDE DEF r
<1>4. QED
  BY <1>1, <1>2, <1>3 DEF Working

LEMMA SearchStep ==
  ASSUME IInv, NEW q \in Questions, NEW c \in Channels, Search(q, c)
  PROVE  IInv' /\ Told(q)
<1>1. ~At(q, "done")
  BY DEF Search, SkipsDatabase, Searches, BehindAbort, ConnectFails, PoolTimeout, At, Channels
<1>2. question[q].aborted \in BOOLEAN
  BY DEF IInv, TypeOK, Question
<1>3. \E r \in Question : r.pc \in Working \ {"generating"}
                          /\ question' = [question EXCEPT ![q] = r]
  <2>1. CASE \E any \in BOOLEAN : Return(q, c, any)
    BY <2>1, ReturnGoesOn
  <2>2. CASE \E own \in BOOLEAN, aborted \in BOOLEAN : Raise(q, c, own, aborted)
    BY <2>2, RaiseGoesOn
  <2>3. QED
    BY <1>2, <2>1, <2>2
       DEF Search, SkipsDatabase, Searches, BehindAbort, ConnectFails, PoolTimeout
<1>4. holders' = holders \/ (holders' = holders \cup {q} /\ CanConnect(q))
  BY DEF Search, SkipsDatabase, Searches, BehindAbort, ConnectFails, PoolTimeout
<1>5. QED
  BY <1>1, <1>3, <1>4, Continues DEF Told, Working

LEMMA RankStep ==
  ASSUME IInv, NEW q \in Questions,
         RankFails(q) \/ RankForInspection(q) \/ RankForAnswer(q)
  PROVE  IInv' /\ Told(q)
<1>1. ~At(q, "done")
  BY DEF RankFails, RankForInspection, RankForAnswer, At
<1>2. \A n \in Selections(q) : n \in 0..SourceLimit
  BY ConstantsAssumption DEF Selections, AnyRanked
<1>3. CASE RankFails(q)
  BY <1>1, <1>3, FailTold DEF RankFails
<1>4. CASE RankForInspection(q)
  <2>1. PICK n \in 0..SourceLimit : Finish(q, "listed", n, {})
    BY <1>2, <1>4 DEF RankForInspection
  <2>2. IInv' /\ Promise!Tell(q, "listed", n, {})
    BY <1>1, <2>1, Finishes DEF Outcomes
  <2>3. QED
    BY <1>4, <2>2 DEF Told, Promise!List, RankForInspection
<1>5. CASE RankForAnswer(q)
  <2>1. q \notin Inspections
    BY <1>5 DEF RankForAnswer
  <2>2. CASE Finish(q, "abstained", 0, {})
    BY <1>1, <2>1, <2>2, AbstainTold, ConstantsAssumption
  <2>3. ASSUME NEW kept \in 0..SourceLimit, kept > 0, UNCHANGED holders,
               Become(q, [question[q] EXCEPT !.pc = "generating", !.sources = kept,
                                             !.attempt = 1])
        PROVE  IInv' /\ Told(q)
    <3> DEFINE r == [question[q] EXCEPT !.pc = "generating", !.sources = kept, !.attempt = 1]
    <3>1. r \in Question /\ r.pc = "generating" /\ r.sources = kept
      <4>1. question[q] \in Question /\ "generating" \in PCs /\ 1 \in 0..2
        BY DEF IInv, TypeOK, PCs
      <4>2. QED
        BY <4>1 DEF Question
    <3>2. question' = [question EXCEPT ![q] = r]
      BY <2>3 DEF Become
    <3> HIDE DEF r
    <3>3. QED
      BY <1>1, <2>1, <2>3, <3>1, <3>2, Continues DEF Told, Working
  <2>4. \E n \in 0..SourceLimit : \E kept \in 0..n :
          \/ Finish(q, "abstained", 0, {})
          \/ /\ kept > 0
             /\ Become(q, [question[q] EXCEPT !.pc = "generating", !.sources = kept,
                                              !.attempt = 1])
             /\ UNCHANGED holders
    BY <1>2, <1>5 DEF RankForAnswer, Prompts
  <2>5. \A n \in 0..SourceLimit : \A kept \in 0..n : kept \in 0..SourceLimit
    BY ConstantsAssumption
  <2>6. QED
    BY <2>2, <2>3, <2>4, <2>5
<1>6. QED
  BY <1>3, <1>4, <1>5

\* The only step that depends on the validation: an accepted reply that does
\* not abstain has a label in its text, and all of them are in the prompt.
LEMMA AcceptStep ==
  ASSUME IInv, RequireCitations, NEW q \in Questions, NEW reply \in Replies,
         AcceptReply(q, reply)
  PROVE  IInv' /\ Told(q)
<1> DEFINE n == question[q].sources
           cited == Cited(reply, n)
<1>1. n \in 1..SourceLimit /\ q \notin Inspections /\ ~At(q, "done")
  BY DEF AcceptReply, Generates, At, IInv, PromptHasSources, TypeOK, Question
<1>2. cited \in SUBSET (1..n)
  BY DEF Cited
<1>3. CASE reply.abstained
  BY <1>1, <1>2, <1>3, AbstainTold DEF AcceptReply
<1>4. CASE ~reply.abstained
  <2>1. cited # {}
    BY <1>4 DEF AcceptReply, Accepted, HasRequired
  <2>2. IInv' /\ Promise!Tell(q, "answered", n, cited)
    BY <1>1, <1>2, <1>4, Finishes DEF AcceptReply, Outcomes
  <2>3. Promise!Answer(q)
    BY <1>1, <1>2, <2>1, <2>2 DEF Promise!Answer
  <2>4. QED
    BY <2>2, <2>3 DEF Told
<1>5. QED
  BY <1>3, <1>4

LEMMA RetryStep ==
  ASSUME IInv, NEW q \in Questions, NEW reply \in Replies, RetryReply(q, reply)
  PROVE  IInv' /\ Told(q)
<1> DEFINE r == [question[q] EXCEPT !.attempt = @ + 1]
<1>1. r \in Question /\ r.pc = "generating" /\ r.sources = question[q].sources
  BY DEF RetryReply, Generates, At, Attempts, IInv, TypeOK, Question
<1>2. question' = [question EXCEPT ![q] = r] /\ holders' = holders
  BY DEF RetryReply, Become
<1>3. ~At(q, "done") /\ q \notin Inspections /\ question[q].sources > 0
  BY DEF RetryReply, Generates, At, IInv, PromptHasSources
<1> HIDE DEF r
<1>4. QED
  BY <1>1, <1>2, <1>3, Continues DEF Told, Working

LEMMA GeneratedStep ==
  ASSUME IInv, RequireCitations, NEW q \in Questions, Generated(q)
  PROVE  IInv' /\ Told(q)
<1>1. Generates(q)
  BY DEF Generated, GenerationFails, AcceptReply, RetryReply, RejectReply
<1>2. /\ question[q].sources \in 0..SourceLimit
      /\ q \notin Inspections /\ ~At(q, "done")
  BY <1>1 DEF Generates, At, IInv, PromptHasSources, TypeOK, Question
<1>3. CASE Finish(q, "abstained", question[q].sources, {})
  BY <1>2, <1>3, AbstainTold
<1>4. CASE \E reply \in Replies : AcceptReply(q, reply)
  BY <1>4, AcceptStep
<1>5. CASE \E reply \in Replies : RetryReply(q, reply)
  BY <1>5, RetryStep
<1>6. QED
  BY <1>3, <1>4, <1>5 DEF Generated, GenerationFails, RejectReply

LEMMA ThreadStep ==
  ASSUME IInv, NEW t \in Threads, ThreadTakes(t) \/ ThreadReturns(t)
  PROVE  IInv' /\ replies' = replies
<1>1. question' = question /\ t \notin Questions
  BY ConstantsAssumption DEF ThreadTakes, ThreadReturns
<1>2. holders' \subseteq Questions \cup Threads /\ Cardinality(holders') <= PoolSize
  BY TakeKeepsBound, ReturnKeepsBound DEF ThreadTakes, ThreadReturns, IInv
<1>3. \A q \in Questions : q \in holders' => q \in holders
  BY <1>1 DEF ThreadTakes, ThreadReturns
<1>4. QED
  BY <1>1, <1>2, <1>3
     DEF IInv, TypeOK, ConnectionsReturned, PromptHasSources, replies, At

(***************************************************************************)
(* The invariant and the theorems.                                         *)
(***************************************************************************)
LEMMA InitInvariant == Init => IInv
<1>1. SUFFICES ASSUME Init PROVE IInv
  OBVIOUS
<1>2. Fresh \in Question
  BY ConstantsAssumption DEF Fresh, Question, PCs, Outcomes
<1>3. TypeOK
  BY <1>1, <1>2, FS_EmptySet, ConstantsAssumption DEF Init, TypeOK
<1>4. QED
  BY <1>1, <1>3 DEF Init, IInv, ConnectionsReturned, PromptHasSources, At, Fresh

LEMMA NextTold ==
  ASSUME IInv, RequireCitations, Next
  PROVE  IInv' /\ (replies' = replies \/ Promise!Next)
<1>1. ASSUME NEW q \in Questions, Ask(q) \/ QuestionStep(q)
      PROVE  IInv' /\ Told(q)
  BY <1>1, AskStep, EmbeddedStep, SearchStep, RankStep, GeneratedStep DEF QuestionStep
<1>2. ASSUME NEW t \in Threads, ThreadTakes(t) \/ ThreadReturns(t)
      PROVE  IInv' /\ replies' = replies
  BY <1>2, ThreadStep
<1>3. QED
  BY <1>1, <1>2 DEF Next, Told, Promise!Next

LEMMA Stutter ==
  ASSUME IInv, UNCHANGED vars
  PROVE  IInv' /\ replies' = replies
  BY DEF IInv, vars, TypeOK, ConnectionsReturned, PromptHasSources, replies, At

LEMMA InvariantHolds ==
  ASSUME RequireCitations
  PROVE  Spec => []IInv
<1>1. IInv /\ [Next]_vars => IInv'
  BY NextTold, Stutter
<1>2. QED
  BY <1>1, InitInvariant, PTL DEF Spec

\* The types, and the pool's bound: no step of a question or a thread takes a
\* connection that the pool does not have.
THEOREM AnswerTypesHold ==
  ASSUME RequireCitations
  PROVE  Spec => []TypeOK
<1>1. IInv => TypeOK
  BY DEF IInv
<1>2. QED
  BY <1>1, InvariantHolds, PTL

\* A question that has ended holds no connection, on any path through search,
\* answer and the handler.
THEOREM ConnectionsComeBack ==
  ASSUME RequireCitations
  PROVE  Spec => []ConnectionsReturned
<1>1. IInv => ConnectionsReturned
  BY DEF IInv
<1>2. QED
  BY <1>1, InvariantHolds, PTL

\* The retrieval service keeps its promise: it replies once, and an answer
\* cites passages of its own prompt, whatever the generator writes.
THEOREM AnswersAreGrounded ==
  ASSUME RequireCitations
  PROVE  Spec => Grounded
<1>1. Init => Promise!Init
  BY DEF Init, Promise!Init, Promise!NoReply, replies, At, Fresh
<1>2. IInv /\ [Next]_vars => [Promise!Next]_replies
  BY NextTold, Stutter
<1>3. QED
  BY <1>1, <1>2, InvariantHolds, PTL DEF Spec, Grounded, Promise!Spec

(***************************************************************************)
(* How far a question is from its end.                                     *)
(***************************************************************************)

\* The steps that a question in state r has left at most, two generations included.
StepsFrom(r) ==
  CASE r.pc = "absent" -> 7
    [] r.pc = "embedding" -> 6
    [] r.pc = "dense" -> 5
    [] r.pc = "lexical" -> 4
    [] r.pc = "ranking" -> 3
    [] r.pc = "generating" -> 3 - r.attempt
    [] r.pc = "done" -> 0

StepsLeft(q) == StepsFrom(question[q])

FewLeft(q) == StepsLeft(q) \in 0..7

\* Question q comes nearer to its end, and no other question moves.
Advances(q) ==
  /\ StepsLeft(q)' < StepsLeft(q)
  /\ \A p \in Questions : p # q => question'[p] = question[p]

LEMMA StepsAreFew ==
  ASSUME NEW r \in Question
  PROVE  /\ StepsFrom(r) \in 0..7
         /\ r.pc # "done" => StepsFrom(r) > 0
<1>1. r.pc \in PCs /\ r.attempt \in 0..2
  BY DEF Question
<1> QED BY <1>1 DEF StepsFrom, PCs, Channels

LEMMA MoveAdvances ==
  ASSUME TypeOK, NEW q \in Questions, NEW r, question' = [question EXCEPT ![q] = r],
         StepsFrom(r) < StepsLeft(q)
  PROVE  Advances(q)
<1>1. question'[q] = r /\ \A p \in Questions : p # q => question'[p] = question[p]
  BY DEF TypeOK
<1>2. StepsLeft(q)' = StepsFrom(r)
  BY <1>1 DEF StepsLeft
<1> QED BY <1>1, <1>2 DEF Advances

LEMMA FinishAdvances ==
  ASSUME TypeOK, NEW q \in Questions, ~At(q, "done"),
         NEW outcome, NEW n, NEW cited, Finish(q, outcome, n, cited)
  PROVE  Advances(q)
<1> DEFINE old == question[q]
           r == [old EXCEPT !.pc = "done", !.outcome = outcome, !.sources = n, !.cited = cited]
<1>1. old \in Question /\ old.pc # "done"
  BY DEF TypeOK, At
<1>2. question' = [question EXCEPT ![q] = r]
  BY DEF Finish, Become
<1>3. StepsLeft(q) = StepsFrom(old)
  BY DEF StepsLeft
<1> HIDE DEF old
<1>4. r.pc = "done"
  BY <1>1 DEF Question
<1> HIDE DEF r
<1>5. StepsFrom(r) = 0
  BY <1>4 DEF StepsFrom
<1>6. StepsFrom(old) > 0
  BY <1>1, StepsAreFew
<1> QED BY <1>2, <1>3, <1>5, <1>6, MoveAdvances

\* A search that returns, raises or is refused leads to the next one or to the ranking.
LEMMA SearchAdvances ==
  ASSUME TypeOK, NEW q \in Questions, NEW c \in Channels, Search(q, c)
  PROVE  Advances(q)
<1> DEFINE old == question[q]
<1>1. At(q, c) /\ old \in Question
  BY DEF Search, SkipsDatabase, Searches, BehindAbort, ConnectFails, PoolTimeout, TypeOK
<1>2. \/ \E any \in BOOLEAN : Return(q, c, any)
      \/ \E own, aborted : Raise(q, c, own, aborted)
  BY DEF Search, SkipsDatabase, Searches, BehindAbort, ConnectFails, PoolTimeout
<1>3. \E r : r.pc = After(c) /\ question' = [question EXCEPT ![q] = r]
  <2>1. ASSUME NEW any \in BOOLEAN, Return(q, c, any)
        PROVE  \E r : r.pc = After(c) /\ question' = [question EXCEPT ![q] = r]
    <3> DEFINE more == IF any THEN old.found \cup {c} ELSE old.found
               r == [old EXCEPT !.pc = After(c), !.found = more]
    <3>1. question' = [question EXCEPT ![q] = r]
      BY <2>1 DEF Return, Become
    <3> HIDE DEF old, more
    <3>2. r.pc = After(c)
      BY <1>1 DEF Question
    <3> QED BY <3>1, <3>2
  <2>2. ASSUME NEW own, NEW aborted, Raise(q, c, own, aborted)
        PROVE  \E r : r.pc = After(c) /\ question' = [question EXCEPT ![q] = r]
    <3> DEFINE more == old.failed \cup {c}
               faults == IF own THEN old.met \cup {c} ELSE old.met
               r == [old EXCEPT !.pc = After(c), !.failed = more, !.aborted = aborted,
                                !.met = faults]
    <3>1. question' = [question EXCEPT ![q] = r]
      BY <2>2 DEF Raise, Become
    <3> HIDE DEF old, more, faults
    <3>2. r.pc = After(c)
      BY <1>1 DEF Question
    <3> QED BY <3>1, <3>2
  <2> QED BY <1>2, <2>1, <2>2
<1>4. PICK r : r.pc = After(c) /\ question' = [question EXCEPT ![q] = r]
  BY <1>3
<1>5. StepsFrom(r) < StepsLeft(q)
  BY <1>1, <1>4 DEF StepsFrom, StepsLeft, After, At, Channels
<1> QED BY <1>4, <1>5, MoveAdvances

LEMMA QuestionAdvances ==
  ASSUME TypeOK, NEW q \in Questions, Ask(q) \/ QuestionStep(q)
  PROVE  Advances(q)
<1> DEFINE old == question[q]
<1>1. old \in Question /\ StepsLeft(q) = StepsFrom(old)
  BY DEF TypeOK, StepsLeft
<1>2. CASE Ask(q)
  <2> DEFINE r == [old EXCEPT !.pc = "embedding"]
  <2>1. old.pc = "absent" /\ question' = [question EXCEPT ![q] = r]
    BY <1>2 DEF Ask, At, Goto, Become
  <2> HIDE DEF old
  <2>2. r.pc = "embedding"
    BY <1>1 DEF Question
  <2> HIDE DEF r
  <2>3. StepsFrom(r) < StepsLeft(q)
    BY <1>1, <2>1, <2>2 DEF StepsFrom
  <2> QED BY <2>1, <2>3, MoveAdvances
<1>3. CASE Embedded(q)
  <2>1. ~At(q, "done") /\ old.pc = "embedding"
    BY <1>3 DEF Embedded, At
  <2>2. ASSUME NEW skips \in SUBSET Channels,
               Become(q, [question[q] EXCEPT !.pc = "dense", !.skips = skips])
        PROVE  Advances(q)
    <3> DEFINE r == [old EXCEPT !.pc = "dense", !.skips = skips]
    <3>1. question' = [question EXCEPT ![q] = r]
      BY <2>2 DEF Become
    <3> HIDE DEF old
    <3>2. r.pc = "dense"
      BY <1>1 DEF Question
    <3> HIDE DEF r
    <3>3. StepsFrom(r) < StepsLeft(q)
      BY <1>1, <2>1, <3>2 DEF StepsFrom
    <3> QED BY <3>1, <3>3, MoveAdvances
  <2>3. CASE Finish(q, "failed", 0, {})
    BY <2>1, <2>3, FinishAdvances
  <2> QED BY <1>3, <2>2, <2>3, Zenon DEF Embedded
<1>4. CASE \E c \in Channels : Search(q, c)
  BY <1>4, SearchAdvances
<1>5. CASE RankFails(q) \/ RankForInspection(q) \/ RankForAnswer(q)
  <2>1. ~At(q, "done") /\ old.pc = "ranking"
    BY <1>5 DEF RankFails, RankForInspection, RankForAnswer, At
  <2>2. \/ \E outcome, n, cited : Finish(q, outcome, n, cited)
        \/ \E kept : Become(q, [question[q] EXCEPT !.pc = "generating", !.sources = kept,
                                                   !.attempt = 1])
    BY <1>5 DEF RankFails, RankForInspection, RankForAnswer
  <2>3. ASSUME NEW kept, Become(q, [question[q] EXCEPT !.pc = "generating", !.sources = kept,
                                                       !.attempt = 1])
        PROVE  Advances(q)
    <3> DEFINE r == [old EXCEPT !.pc = "generating", !.sources = kept, !.attempt = 1]
    <3>1. question' = [question EXCEPT ![q] = r]
      BY <2>3 DEF Become
    <3> HIDE DEF old
    <3>2. r.pc = "generating" /\ r.attempt = 1
      BY <1>1 DEF Question
    <3> HIDE DEF r
    <3>3. StepsFrom(r) < StepsLeft(q)
      BY <1>1, <2>1, <3>2 DEF StepsFrom
    <3> QED BY <3>1, <3>3, MoveAdvances
  <2> QED BY <2>1, <2>2, <2>3, FinishAdvances, Zenon
<1>6. CASE Generated(q)
  <2>1. ~At(q, "done") /\ old.pc = "generating"
    BY <1>6 DEF Generated, GenerationFails, AcceptReply, RetryReply, RejectReply, Generates, At
  <2>2. \/ \E outcome, n, cited : Finish(q, outcome, n, cited)
        \/ \E reply \in Replies : RetryReply(q, reply)
    BY <1>6 DEF Generated, GenerationFails, AcceptReply, RejectReply
  <2>3. ASSUME NEW reply \in Replies, RetryReply(q, reply) PROVE Advances(q)
    <3> DEFINE again == old.attempt + 1
               r == [old EXCEPT !.attempt = again]
    <3>1. question' = [question EXCEPT ![q] = r]
      BY <2>3 DEF RetryReply, Become
    <3>2. old.attempt \in 0..2 /\ again = old.attempt + 1
      BY <1>1 DEF Question
    <3> HIDE DEF old, again
    <3>3. r.pc = "generating" /\ r.attempt = again
      BY <1>1, <2>1 DEF Question
    <3> HIDE DEF r
    <3>4. StepsFrom(r) < StepsLeft(q)
      BY <1>1, <2>1, <3>2, <3>3 DEF StepsFrom
    <3> QED BY <3>1, <3>4, MoveAdvances
  <2> QED BY <2>1, <2>2, <2>3, FinishAdvances, Zenon
<1> QED BY <1>2, <1>3, <1>4, <1>5, <1>6 DEF QuestionStep

\* However the generator fails, is refused and is asked again, and whether or not the
\* pool has a connection, every step of a question brings it nearer to its end, and no
\* step of another question throws it back: a question that was asked has ended after
\* six steps of its own at most, on whichever path.
THEOREM QuestionsAdvance ==
  ASSUME RequireCitations
  PROVE  Spec => /\ [](\A q \in Questions : FewLeft(q))
                 /\ [][(\E q \in Questions : Advances(q)) \/ UNCHANGED question]_vars
<1> DEFINE Few == \A q \in Questions : FewLeft(q)
           Advance == (\E q \in Questions : Advances(q)) \/ UNCHANGED question
<1>1. TypeOK => Few
  <2> HAVE TypeOK
  <2> TAKE q \in Questions
  <2>1. question[q] \in Question
    BY DEF TypeOK
  <2> QED BY <2>1, StepsAreFew DEF FewLeft, StepsLeft
<1>2. TypeOK /\ [Next]_vars => [Advance]_vars
  <2> SUFFICES ASSUME TypeOK, Next PROVE Advance
    OBVIOUS
  <2>1. (\E q \in Questions : Ask(q) \/ QuestionStep(q)) \/ UNCHANGED question
    BY DEF Next, ThreadTakes, ThreadReturns
  <2> QED BY <2>1, QuestionAdvances
<1> QED BY <1>1, <1>2, AnswerTypesHold, PTL DEF Spec
=============================================================================
