------------------------- MODULE CodeEvidenceProofs -------------------------
(***************************************************************************)
(* Proofs about CodeEvidence, for any number of turns and of attempts, any   *)
(* limit below which a suite is topped up, and every answer of the model and *)
(* of the sandbox that the actions allow.                                   *)
(***************************************************************************)
EXTENDS CodeEvidence, TLAPS

-----------------------------------------------------------------------------
(* The inductive invariant *)

Cases == [input : {"plain", "edge"}, by : SUBSET Both, shape : {"any", "a", "b"}]

\* Only a candidate that has cases can be verified.
Solutions ==
    [code : Codes, cases : {None}, verified : {FALSE}]
        \cup [code : Codes, cases : SUBSET Cases, verified : BOOLEAN]

EvidenceTypes ==
    /\ sandbox \in BOOLEAN /\ curated \in BOOLEAN
    /\ examples \in [Problems -> SUBSET Cases]
    /\ cache \in [Keys -> SUBSET Cases]
    /\ exercise \in Codes \cup {None}
    /\ shown \subseteq Codes
    /\ pc \in {"asked", "suite", "synthesise", "reference", "plant", "run",
               "reveal", "execute", "record"}
    /\ msg \in Messages \cup {None}
    /\ suite \subseteq Cases
    /\ source \in {"none", "extracted", "synthesised"}
    /\ solution \in Solutions \cup {None}
    /\ {initial, final} \subseteq {"pass", "fail", "inconclusive", None}
    /\ reply \in [code : Codes, checked : BOOLEAN] \cup {None}
    /\ event \in {"solved", "failed", "unknown", None}

\* A message with code asks for nothing else, and an exercise brings no problem.
MessageInOrder ==
    /\ msg \in Messages
    /\ msg.ask = "attempt" <=> msg.code # None
    /\ msg.ask = "exercise" => msg.problem = "none"

\* What each step finds of the steps before it.
WhereTheTurnIs ==
    /\ IF pc = "asked" THEN msg = None ELSE MessageInOrder
    /\ pc = "asked" => suite = {} /\ solution = None
    /\ pc = "suite" => suite = {} /\ msg.code # None
    /\ pc = "synthesise" => msg.code # None
    /\ pc = "plant" => msg.ask = "exercise" /\ solution # None /\ solution.verified
    /\ initial # None => pc \in {"reveal", "execute", "record"}
    /\ reply # None => pc \in {"execute", "record"}

\* The suite is for the code that was sent, and holds the examples that fit it.
SuiteIsGrounded ==
    /\ source = "none" <=> suite = {}
    /\ suite # {} => msg.code # None
    /\ source = "extracted" => Extracted # {}
    /\ pc \notin {"asked", "suite"} /\ msg.code # None => Extracted \subseteq suite

\* The verdict on the learner's code is that of a run of it against the suite.
VerdictIsOfTheRun ==
    /\ initial \in {"pass", "fail"} => OwnRun
    /\ initial = "pass" => Report(msg.code, suite) = "passed"

\* A verified solution passed its cases, the examples that fit it among them.
Verified(candidate) ==
    /\ sandbox
    /\ Extract(candidate.code, ReferenceExamples) \subseteq candidate.cases
    /\ Report(candidate.code, candidate.cases) = "passed"

SolutionIsVerified == solution # None /\ solution.verified => Verified(solution)

\* Code is called checked when it is the verified solution.
ReplyIsTheSolution ==
    reply # None /\ reply.checked =>
        solution # None /\ solution.verified /\ reply.code = solution.code

EvidenceInv ==
    /\ EvidenceTypes
    /\ WhereTheTurnIs
    /\ SuiteIsGrounded
    /\ VerdictIsOfTheRun
    /\ SolutionIsVerified
    /\ ReplyIsTheSolution

-----------------------------------------------------------------------------
(* The operators *)

\* A run has passed when the code loads, there are cases, and it passes each.
LEMMA PassedMeansAllPass ==
    ASSUME NEW code, NEW cases
    PROVE  Report(code, cases) = "passed" <=>
             /\ Loads(code) /\ Functions(code)
             /\ cases # {}
             /\ AllPass(code, cases)
BY DEF Report

\* Only a run that went through to the end and passed gives the verdict "pass".
LEMMA PassIsAPassedRun ==
    ASSUME NEW code, NEW cases, NEW result \in Results(code, cases), Verify(result) = "pass"
    PROVE  Report(code, cases) = "passed"
BY DEF Results, Verify

LEMMA VerdictsAreTyped ==
    ASSUME NEW code, NEW cases
    PROVE  /\ Verdicts(code, cases) \subseteq {"pass", "fail", "inconclusive"}
           /\ "pass" \in Verdicts(code, cases) => Report(code, cases) = "passed"
<1>1. \A result : Verify(result) \in {"pass", "fail", "inconclusive"}
      BY DEF Verify
<1>2. \A result \in Results(code, cases) :
         Verify(result) = "pass" => Report(code, cases) = "passed"
      BY PassIsAPassedRun
<1> QED BY <1>1, <1>2 DEF Verdicts

\* Cases are added to a suite, never taken from it.
LEMMA ExtraIsAdded ==
    ASSUME NEW base, NEW extra
    PROVE  /\ base \subseteq WithExtraCases(base, extra)
           /\ WithExtraCases(base, extra) \subseteq base \cup extra
           /\ base = {} => WithExtraCases(base, extra) = extra
BY DEF WithExtraCases, Without

LEMMA ExtractIsKnown ==
    ASSUME NEW code, NEW known
    PROVE  Extract(code, known) \subseteq known
BY DEF Extract

LEMMA ProposalsAreCases ==
    ASSUME NEW cases \in Proposals
    PROVE  cases \subseteq Cases /\ cases # {}
<1>1. PICK s \in {"a", "b"} :
         cases \in {{Case("plain", Both, s)}, {Case("plain", {}, s)},
                    {Case("edge", {"bug"}, s)},
                    {Case("plain", Both, s), Case("edge", {"right"}, s)}}
      BY DEF Proposals
<1>2. \A input \in {"plain", "edge"}, by \in SUBSET Both : Case(input, by, s) \in Cases
      BY DEF Case, Cases
<1>3. Both \in SUBSET Both /\ {} \in SUBSET Both /\ {"bug"} \in SUBSET Both /\ {"right"} \in SUBSET Both
      BY DEF Both
<1> QED BY <1>1, <1>2, <1>3

LEMMA StatementsAreCases ==
    /\ \A statement \in Statements : statement \subseteq Cases
    /\ \A by \in {Both, {}} : {Case("plain", by, "any")} \subseteq Cases
BY DEF Statements, Case, Cases, Both

\* What a reference is run against holds the examples it can be called with.
LEMMA ReferenceSuiteHolds ==
    ASSUME NEW code, NEW proposed
    PROVE  /\ Extract(code, ReferenceExamples) \subseteq ReferenceSuite(code, proposed)
           /\ ReferenceSuite(code, proposed) \subseteq ReferenceExamples \cup proposed
BY ExtractIsKnown DEF ReferenceSuite

\* The cases a suite is widened with are cases the code passes.
LEMMA WidenedStillPasses ==
    ASSUME NEW code, NEW cases, NEW proposed, NEW wider \in Widened(code, cases, proposed),
           Report(code, cases) = "passed"
    PROVE  /\ cases \subseteq wider /\ wider \subseteq cases \cup proposed
           /\ Report(code, wider) = "passed"
<1>1. Loads(code) /\ Functions(code) /\ cases # {} /\ AllPass(code, cases)
      BY PassedMeansAllPass
<1>2. cases \subseteq wider /\ wider \subseteq cases \cup proposed
      BY DEF Widened
<1>3. AllPass(code, wider)
      BY <1>1 DEF AllPass, Widened
<1> QED BY <1>1, <1>2, <1>3, PassedMeansAllPass

\* The examples, the message and the world decide what the examples of a turn are.
LEMMA ExamplesAreKept ==
    ASSUME UNCHANGED <<examples, msg, curated>>
    PROVE  UNCHANGED <<Extracted, ReferenceExamples, Stated, SubjectKey>>
BY DEF Extracted, KnownExamples, ReferenceExamples, Stated, SubjectKey

\* What a turn knows of the examples is made of cases, and the subject has a row.
LEMMA ExamplesAreCases ==
    ASSUME EvidenceTypes, msg \in Messages
    PROVE  /\ ReferenceExamples \subseteq Cases
           /\ Extracted \subseteq Cases
           /\ msg.ask = "exercise" \/ Stated \/ msg.code # None => SubjectKey \in Keys
<1>1. examples[msg.about] \subseteq Cases /\ examples["exercise"] \subseteq Cases
      BY DEF EvidenceTypes, Messages, Problems
<1>2. ReferenceExamples \subseteq Cases /\ KnownExamples \subseteq Cases
      BY <1>1 DEF ReferenceExamples, KnownExamples
<1>3. Extracted \subseteq Cases
      BY <1>2, ExtractIsKnown DEF Extracted
<1>4. msg.code # None => msg.code \in Codes
      BY DEF Messages, Attempts
<1>5. msg.ask = "exercise" \/ Stated \/ msg.code # None => SubjectKey \in Keys
      BY <1>4 DEF SubjectKey, Keys, Messages, Problems
<1> QED BY <1>2, <1>3, <1>5

-----------------------------------------------------------------------------
(* Every step keeps the invariant *)

\* A conversation begins without a message, and each problem with its examples.
LEMMA InitSetsUp == Init => EvidenceInv
<1> SUFFICES ASSUME Init PROVE EvidenceInv
    OBVIOUS
<1>1. examples \in [Problems -> SUBSET Cases]
  <2>1. PICK statement \in Statements :
           examples = [p \in Problems |->
                         IF p = "theirs" THEN statement
                         ELSE IF curated THEN {Case("plain", Both, "any")}
                         ELSE {}]
        BY DEF Init
  <2> QED BY <2>1, StatementsAreCases
<1>2. EvidenceTypes
      BY <1>1 DEF Init, EvidenceTypes
<1>3. WhereTheTurnIs
      BY DEF Init, WhereTheTurnIs
<1>4. SuiteIsGrounded
      BY DEF Init, SuiteIsGrounded
<1>5. VerdictIsOfTheRun
      BY NoneIsNoOutcome DEF Init, VerdictIsOfTheRun
<1>6. SolutionIsVerified /\ ReplyIsTheSolution
      BY DEF Init, SolutionIsVerified, ReplyIsTheSolution
<1> QED BY <1>2, <1>3, <1>4, <1>5, <1>6 DEF EvidenceInv

\* A message starts from nothing.
LEMMA ReceiveKeeps ==
    ASSUME EvidenceInv, NEW m \in Messages, Receive(m)
    PROVE  EvidenceInv'
<1>1. /\ pc = "asked" /\ msg' = m
      /\ pc' \in {"suite", "reference", "record"} /\ (pc' = "suite" <=> m.code # None)
      /\ m.ask = "attempt" <=> m.code # None
      /\ m.ask = "exercise" => m.problem = "none"
      /\ event' = None
      /\ UNCHANGED <<sandbox, curated, examples, cache, exercise, shown, suite, source,
                     solution, initial, final, reply>>
      BY DEF Receive, world, kept
<1>2. suite = {} /\ source = "none" /\ solution = None /\ initial = None /\ reply = None
      BY <1>1 DEF EvidenceInv, WhereTheTurnIs, SuiteIsGrounded
<1>3. EvidenceTypes'
      BY <1>1 DEF EvidenceInv, EvidenceTypes
<1>4. WhereTheTurnIs'
      BY <1>1, <1>2 DEF WhereTheTurnIs, MessageInOrder
<1>5. SuiteIsGrounded'
      BY <1>1, <1>2 DEF SuiteIsGrounded
<1>6. VerdictIsOfTheRun'
      BY <1>1, <1>2, NoneIsNoOutcome DEF VerdictIsOfTheRun
<1>7. SolutionIsVerified' /\ ReplyIsTheSolution'
      BY <1>1, <1>2 DEF SolutionIsVerified, ReplyIsTheSolution
<1> QED BY <1>3, <1>4, <1>5, <1>6, <1>7 DEF EvidenceInv

\* The suite holds the examples that fit the code, and says where it comes from.
LEMMA ResolveTestSuiteKeeps ==
    ASSUME EvidenceInv, NEW readable \in BOOLEAN, ResolveTestSuite(readable)
    PROVE  EvidenceInv'
<1> DEFINE cached == Cached(readable)
<1>1. /\ pc = "suite"
      /\ \/ ResolveExtracted(cached) \/ ResolveCached(cached) \/ ResolveNew(cached)
      /\ UNCHANGED <<sandbox, curated, examples, cache, exercise, shown, msg,
                     solution, initial, final, reply, event>>
      BY DEF ResolveTestSuite, world, kept, outcome
<1>2. /\ MessageInOrder /\ msg.code # None /\ suite = {} /\ source = "none"
      /\ initial = None /\ reply = None
      BY <1>1 DEF EvidenceInv, WhereTheTurnIs, SuiteIsGrounded
<1>3. cached \subseteq Cases /\ Extracted \subseteq Cases
  <2>1. msg \in Messages /\ EvidenceTypes
        BY <1>2 DEF EvidenceInv, MessageInOrder
  <2>2. SubjectKey \in Keys /\ Extracted \subseteq Cases
        BY <1>2, <2>1, ExamplesAreCases
  <2> QED BY <2>1, <2>2 DEF EvidenceTypes, Cached
<1>4. pc' \in {"synthesise", "run", "reference"}
      BY <1>1 DEF ResolveExtracted, ResolveCached, ResolveNew, AfterSuite
<1>5. /\ suite' \subseteq Cases /\ source' \in {"none", "extracted", "synthesised"}
      /\ Extracted \subseteq suite'
      /\ source' = "none" <=> suite' = {}
      /\ source' = "extracted" => Extracted # {}
  <2>1. CASE ResolveExtracted(cached)
        BY <1>3, <2>1, ExtraIsAdded DEF ResolveExtracted
  <2>2. CASE ResolveCached(cached)
        BY <1>3, <2>2 DEF ResolveCached
  <2>3. CASE ResolveNew(cached)
        BY <1>2, <2>3 DEF ResolveNew
  <2> QED BY <1>1, <2>1, <2>2, <2>3
<1>6. Extracted' = Extracted /\ ReferenceExamples' = ReferenceExamples
      BY <1>1, ExamplesAreKept
<1>7. EvidenceTypes'
      BY <1>1, <1>4, <1>5 DEF EvidenceInv, EvidenceTypes
<1>8. WhereTheTurnIs'
      BY <1>1, <1>2, <1>4 DEF WhereTheTurnIs, MessageInOrder
<1>9. SuiteIsGrounded'
      BY <1>1, <1>2, <1>5, <1>6 DEF SuiteIsGrounded
<1>10. VerdictIsOfTheRun'
      BY <1>1, <1>2, NoneIsNoOutcome DEF VerdictIsOfTheRun
<1>11. SolutionIsVerified' /\ ReplyIsTheSolution'
      BY <1>1, <1>6 DEF EvidenceInv, SolutionIsVerified, ReplyIsTheSolution, Verified
<1> QED BY <1>7, <1>8, <1>9, <1>10, <1>11 DEF EvidenceInv

\* What the steps that make cases leave alone.
Aside == UNCHANGED <<sandbox, curated, examples, exercise, shown, msg, solution,
                     initial, final, reply, event>>

\* A step that only goes on with the turn keeps the invariant.
LEMMA GoingOnKeeps ==
    ASSUME EvidenceInv, Aside, UNCHANGED <<cache, suite, source>>,
           pc \notin {"asked", "suite"}, pc' \in {pc, "record"} \/ pc' = AfterSuite,
           reply = None \/ pc' = "record", initial = None \/ pc' = "record"
    PROVE  EvidenceInv'
<1>1. pc' \in {pc, "record", "run", "reference"}
      BY DEF AfterSuite
<1>2. Extracted' = Extracted /\ ReferenceExamples' = ReferenceExamples
      BY ExamplesAreKept DEF Aside
<1>3. EvidenceTypes'
      BY <1>1 DEF EvidenceInv, EvidenceTypes, Aside
<1>4. WhereTheTurnIs'
      BY <1>1 DEF EvidenceInv, WhereTheTurnIs, MessageInOrder, Aside
<1>5. SuiteIsGrounded'
      BY <1>2 DEF EvidenceInv, SuiteIsGrounded, Aside
<1>6. VerdictIsOfTheRun'
      BY DEF EvidenceInv, VerdictIsOfTheRun, OwnRun, Aside
<1>7. SolutionIsVerified' /\ ReplyIsTheSolution'
      BY <1>2 DEF EvidenceInv, SolutionIsVerified, ReplyIsTheSolution, Verified, Aside
<1> QED BY <1>3, <1>4, <1>5, <1>6, <1>7 DEF EvidenceInv

\* A proposal that holds is added to the examples that are there.
LEMMA SynthesiseKeeps ==
    ASSUME EvidenceInv, NEW reference \in Codes, NEW cases \in Proposals,
           NEW written \in BOOLEAN, Synthesise(reference, cases, written)
    PROVE  EvidenceInv'
<1>1. /\ pc = "synthesise" /\ pc' \in {"run", "reference"}
      /\ suite' = WithExtraCases(suite, cases)
      /\ source' = IF suite = {} THEN "synthesised" ELSE source
      /\ cache' = IF written THEN [cache EXCEPT ![SubjectKey] = cases] ELSE cache
      /\ Aside
      BY DEF Synthesise, AfterSuite, world, outcome, Aside
<1>2. MessageInOrder /\ msg.code # None /\ initial = None /\ reply = None
      BY <1>1 DEF EvidenceInv, WhereTheTurnIs
<1>3. cases \subseteq Cases /\ cases # {}
      BY ProposalsAreCases
<1>4. suite \subseteq suite' /\ suite' \subseteq suite \cup cases /\ suite' # {}
  <2>1. CASE suite = {}
        BY <1>1, <1>3, <2>1, ExtraIsAdded
  <2>2. CASE suite # {}
        BY <1>1, <2>2, ExtraIsAdded
  <2> QED BY <2>1, <2>2
<1>5. Extracted' = Extracted /\ ReferenceExamples' = ReferenceExamples
      BY <1>1, ExamplesAreKept DEF Aside
<1>6. cache' \in [Keys -> SUBSET Cases]
      BY <1>1, <1>3 DEF EvidenceInv, EvidenceTypes
<1>7. EvidenceTypes'
      BY <1>1, <1>3, <1>4, <1>6 DEF EvidenceInv, EvidenceTypes, Aside
<1>8. WhereTheTurnIs'
      BY <1>1, <1>2 DEF WhereTheTurnIs, MessageInOrder, Aside
<1>9. SuiteIsGrounded'
      BY <1>1, <1>2, <1>4, <1>5 DEF EvidenceInv, SuiteIsGrounded, Aside
<1>10. VerdictIsOfTheRun'
      BY <1>1, <1>2, NoneIsNoOutcome DEF VerdictIsOfTheRun, Aside
<1>11. SolutionIsVerified' /\ ReplyIsTheSolution'
      BY <1>1, <1>5 DEF EvidenceInv, SolutionIsVerified, ReplyIsTheSolution, Verified, Aside
<1> QED BY <1>7, <1>8, <1>9, <1>10, <1>11 DEF EvidenceInv

\* Every step of the making of a suite.
LEMMA SuitesKeep == ASSUME EvidenceInv, Suites PROVE EvidenceInv'
<1>1. ASSUME NEW readable \in BOOLEAN, ResolveTestSuite(readable) PROVE EvidenceInv'
      BY <1>1, ResolveTestSuiteKeeps
<1>2. ASSUME SynthesiseNothing \/ SynthesiseUnusable PROVE EvidenceInv'
  <2>1. /\ pc = "synthesise" /\ pc' \in {pc, AfterSuite} /\ Aside
        /\ UNCHANGED <<cache, suite, source>>
        BY <1>2 DEF SynthesiseNothing, SynthesiseUnusable, world, kept, outcome, Aside
  <2>2. reply = None /\ initial = None
        BY <2>1 DEF EvidenceInv, WhereTheTurnIs
  <2> QED BY <2>1, <2>2, GoingOnKeeps
<1>3. ASSUME NEW reference \in Codes, NEW cases \in Proposals, NEW written \in BOOLEAN,
             Synthesise(reference, cases, written)
      PROVE  EvidenceInv'
      BY <1>3, SynthesiseKeeps
<1> QED BY <1>1, <1>2, <1>3 DEF Suites

\* The solution of a turn is replaced only while it is looked for, by one whose
\* claim to be verified holds.
LEMMA NewSolutionKeeps ==
    ASSUME EvidenceInv, pc = "reference", pc' \in {"reference", "run", "plant", "record"},
           UNCHANGED <<sandbox, curated, examples, cache, exercise, shown, msg, suite, source,
                       initial, final, reply, event>>,
           solution' \in Solutions \cup {None},
           pc' = "plant" => msg.ask = "exercise" /\ solution' # None /\ solution'.verified,
           solution' # None /\ solution'.verified => Verified(solution')
    PROVE  EvidenceInv'
<1>1. MessageInOrder /\ initial = None /\ reply = None
      BY DEF EvidenceInv, WhereTheTurnIs
<1>2. Extracted' = Extracted /\ ReferenceExamples' = ReferenceExamples
      BY ExamplesAreKept
<1>3. EvidenceTypes'
      BY DEF EvidenceInv, EvidenceTypes
<1>4. WhereTheTurnIs'
      BY <1>1 DEF WhereTheTurnIs, MessageInOrder
<1>5. SuiteIsGrounded'
      BY <1>2 DEF EvidenceInv, SuiteIsGrounded
<1>6. VerdictIsOfTheRun'
      BY <1>1, NoneIsNoOutcome DEF VerdictIsOfTheRun
<1>7. SolutionIsVerified'
      BY <1>2 DEF SolutionIsVerified, Verified
<1>8. ReplyIsTheSolution'
      BY <1>1 DEF ReplyIsTheSolution
<1> QED BY <1>3, <1>4, <1>5, <1>6, <1>7, <1>8 DEF EvidenceInv

LEMMA EndReferenceKeeps ==
    ASSUME EvidenceInv, pc = "reference", NEW candidate \in Solutions \cup {None},
           candidate # None /\ candidate.verified => Verified(candidate),
           EndReference(candidate)
    PROVE  EvidenceInv'
<1>1. /\ solution' = candidate
      /\ pc' \in {"run", "plant", "record"}
      /\ pc' = "plant" => msg.ask = "exercise" /\ solution' # None /\ solution'.verified
      /\ UNCHANGED <<sandbox, curated, examples, cache, exercise, shown, msg, suite, source,
                     initial, final, reply, event>>
      BY DEF EndReference, AfterReference, world, kept, outcome
<1> QED BY <1>1, NewSolutionKeeps

\* What a proposed reference is run against, and the candidates made of it.
LEMMA CandidatesAreSolutions ==
    ASSUME EvidenceInv, pc = "reference", NEW code \in Codes,
           NEW proposed \in Proposals \cup {{}}
    PROVE  /\ ReferenceSuite(code, proposed) \subseteq Cases
           /\ proposed \subseteq Cases
           /\ Candidate(code, None, FALSE) \in Solutions
           /\ \A cases \in SUBSET Cases, verified \in BOOLEAN :
                Candidate(code, cases, verified) \in Solutions
<1>1. msg \in Messages /\ EvidenceTypes
      BY DEF EvidenceInv, WhereTheTurnIs, MessageInOrder
<1>2. ReferenceExamples \subseteq Cases
      BY <1>1, ExamplesAreCases
<1>3. proposed \subseteq Cases
      BY ProposalsAreCases
<1>4. ReferenceSuite(code, proposed) \subseteq Cases
      BY <1>2, <1>3, ReferenceSuiteHolds
<1>5. /\ Candidate(code, None, FALSE) \in Solutions
      /\ \A cases \in SUBSET Cases, verified \in BOOLEAN :
           Candidate(code, cases, verified) \in Solutions
      BY DEF Candidate, Solutions
<1> QED BY <1>3, <1>4, <1>5

\* A candidate nothing passed for does not claim to be verified.
LEMMA UncheckedClaimsNothing ==
    ASSUME NEW code, NEW cases
    PROVE  ~Candidate(code, cases, FALSE).verified
BY DEF Candidate

\* A reference that passed is verified, whether the wider suite was run or not.
LEMMA ReferencePassedKeeps ==
    ASSUME EvidenceInv, NEW code \in Codes, NEW proposed \in Proposals \cup {{}},
           ReferencePassed(code, proposed)
    PROVE  EvidenceInv'
<1> DEFINE cases == ReferenceSuite(code, proposed)
<1>1. /\ pc = "reference" /\ sandbox /\ Report(code, cases) = "passed"
      /\ \E wider \in Widened(code, cases, proposed) : EndReference(Candidate(code, wider, TRUE))
      BY DEF ReferencePassed, Runnable
<1>2. cases \subseteq Cases /\ proposed \subseteq Cases
      BY <1>1, CandidatesAreSolutions
<1>3. Extract(code, ReferenceExamples) \subseteq cases
      BY ReferenceSuiteHolds
<1> HIDE DEF cases
<1>4. PICK wider \in Widened(code, cases, proposed) : EndReference(Candidate(code, wider, TRUE))
      BY <1>1
<1>5. cases \subseteq wider /\ wider \subseteq cases \cup proposed /\ Report(code, wider) = "passed"
      BY <1>1, WidenedStillPasses
<1>6. Verified(Candidate(code, wider, TRUE))
      BY <1>1, <1>3, <1>5 DEF Verified, Candidate
<1>7. Candidate(code, wider, TRUE) \in Solutions
      BY <1>1, <1>2, <1>5, CandidatesAreSolutions
<1> QED BY <1>1, <1>4, <1>6, <1>7, EndReferenceKeeps

\* Every step of the search for a solution.
LEMMA ReferencesKeep == ASSUME EvidenceInv, References PROVE EvidenceInv'
<1>1. ASSUME ReferenceRefused PROVE EvidenceInv'
  <2>1. pc = "reference" /\ (EndReference(solution) \/ EndReference(None))
        BY <1>1 DEF ReferenceRefused
  <2>2. solution \in Solutions \cup {None} /\ (solution # None /\ solution.verified => Verified(solution))
        BY DEF EvidenceInv, EvidenceTypes, SolutionIsVerified
  <2> QED BY <2>1, <2>2, EndReferenceKeeps
<1>2. ASSUME ReferenceUnusable PROVE EvidenceInv'
  <2>1. /\ pc = "reference" /\ pc' = pc /\ Aside
        /\ UNCHANGED <<cache, suite, source>>
        BY <1>2 DEF ReferenceUnusable, world, kept, outcome, Aside
  <2>2. reply = None /\ initial = None
        BY <2>1 DEF EvidenceInv, WhereTheTurnIs
  <2> QED BY <2>1, <2>2, GoingOnKeeps
<1>3. ASSUME NEW code \in Codes, NEW proposed \in Proposals \cup {{}},
             ReferenceUnchecked(code, proposed)
      PROVE  EvidenceInv'
  <2> DEFINE cases == ReferenceSuite(code, proposed)
  <2>1. /\ pc = "reference"
        /\ EndReference(Candidate(code, None, FALSE)) \/ EndReference(Candidate(code, cases, FALSE))
        BY <1>3 DEF ReferenceUnchecked
  <2>2. Candidate(code, None, FALSE) \in Solutions /\ Candidate(code, cases, FALSE) \in Solutions
        BY <2>1, CandidatesAreSolutions
  <2>3. ~Candidate(code, None, FALSE).verified /\ ~Candidate(code, cases, FALSE).verified
        BY UncheckedClaimsNothing
  <2> HIDE DEF cases
  <2> QED BY <2>1, <2>2, <2>3, EndReferenceKeeps
<1>4. ASSUME NEW code \in Codes, NEW proposed \in Proposals \cup {{}},
             ReferenceFailed(code, proposed)
      PROVE  EvidenceInv'
  <2> DEFINE cases == ReferenceSuite(code, proposed)
             candidate == Candidate(code, cases, FALSE)
  <2>1. /\ pc = "reference"
        /\ \/ /\ pc' = pc /\ solution' = candidate
              /\ UNCHANGED <<sandbox, curated, examples, cache, exercise, shown, msg, suite,
                             source, initial, final, reply, event>>
           \/ EndReference(candidate)
        BY <1>4 DEF ReferenceFailed, world, kept, outcome
  <2>2. candidate \in Solutions /\ ~candidate.verified
        BY <2>1, CandidatesAreSolutions, UncheckedClaimsNothing
  <2> HIDE DEF candidate
  <2>3. CASE EndReference(candidate)
        BY <2>1, <2>2, <2>3, EndReferenceKeeps
  <2>4. CASE ~EndReference(candidate)
        BY <2>1, <2>2, <2>4, NewSolutionKeeps
  <2> QED BY <2>3, <2>4
<1>5. ASSUME NEW code \in Codes, NEW proposed \in Proposals \cup {{}},
             ReferencePassed(code, proposed)
      PROVE  EvidenceInv'
      BY <1>5, ReferencePassedKeeps
<1> QED BY <1>1, <1>2, <1>3, <1>4, <1>5 DEF References

\* The statement written for an exercise is another problem's than the one the
\* turn's examples are of, unless it is the one that is there.
LEMMA PlantBugKeeps ==
    ASSUME EvidenceInv, NEW code \in Codes, NEW statement \in WrittenExamples,
           NEW written \in BOOLEAN, PlantBug(code, statement, written), pc = "plant"
    PROVE  EvidenceInv'
<1>1. /\ exercise' = code
      /\ examples' = [examples EXCEPT !["exercise"] = statement]
      /\ cache' = IF written THEN [cache EXCEPT ![SubjectKey] = solution.cases] ELSE cache
      /\ reply' = [code |-> code, checked |-> FALSE]
      /\ pc' = "record"
      /\ UNCHANGED <<sandbox, curated, shown, msg, suite, source, solution,
                     initial, final, event>>
      BY DEF PlantBug, world
<1>2. /\ MessageInOrder /\ msg.ask = "exercise" /\ msg.code = None
      /\ solution # None /\ solution.verified /\ initial = None /\ suite = {} /\ source = "none"
      BY DEF EvidenceInv, WhereTheTurnIs, MessageInOrder, SuiteIsGrounded
<1>3. solution.cases \subseteq Cases
      BY <1>2 DEF EvidenceInv, EvidenceTypes, Solutions
<1>4. statement \subseteq Cases
      BY StatementsAreCases DEF WrittenExamples, EvidenceInv, EvidenceTypes, Problems
<1>5. ReferenceExamples' = ReferenceExamples
  <2>1. ReferenceExamples = IF curated THEN examples["exercise"] ELSE {}
        BY <1>2 DEF ReferenceExamples
  <2>2. ReferenceExamples' = IF curated THEN examples'["exercise"] ELSE {}
        BY <1>1, <1>2 DEF ReferenceExamples
  <2>3. curated => statement = examples["exercise"]
        BY DEF WrittenExamples
  <2>4. examples'["exercise"] = statement
        BY <1>1 DEF EvidenceInv, EvidenceTypes, Problems
  <2> QED BY <2>1, <2>2, <2>3, <2>4
<1>6. EvidenceTypes'
  <2>1. examples' \in [Problems -> SUBSET Cases] /\ cache' \in [Keys -> SUBSET Cases]
        BY <1>1, <1>3, <1>4 DEF EvidenceInv, EvidenceTypes
  <2> QED BY <1>1, <2>1 DEF EvidenceInv, EvidenceTypes
<1>7. WhereTheTurnIs'
      BY <1>1, <1>2 DEF WhereTheTurnIs, MessageInOrder
<1>8. SuiteIsGrounded'
      BY <1>1, <1>2 DEF SuiteIsGrounded
<1>9. VerdictIsOfTheRun'
      BY <1>1, <1>2, NoneIsNoOutcome DEF VerdictIsOfTheRun
<1>10. SolutionIsVerified'
      BY <1>1, <1>5 DEF EvidenceInv, SolutionIsVerified, Verified
<1>11. ReplyIsTheSolution'
      BY <1>1 DEF ReplyIsTheSolution
<1> QED BY <1>6, <1>7, <1>8, <1>9, <1>10, <1>11 DEF EvidenceInv

\* Every step of the making of an exercise.
LEMMA ExercisesKeep == ASSUME EvidenceInv, Exercises PROVE EvidenceInv'
<1>1. ASSUME PlantNothing \/ PlantAgain PROVE EvidenceInv'
  <2>1. /\ pc = "plant" /\ pc' \in {pc, "record"} /\ Aside
        /\ UNCHANGED <<cache, suite, source>>
        BY <1>1 DEF PlantNothing, PlantAgain, world, kept, outcome, Aside
  <2>2. reply = None /\ initial = None
        BY <2>1 DEF EvidenceInv, WhereTheTurnIs
  <2> QED BY <2>1, <2>2, GoingOnKeeps
<1>2. ASSUME pc = "plant", NEW code \in Codes, NEW statement \in WrittenExamples,
             NEW written \in BOOLEAN, PlantBug(code, statement, written)
      PROVE  EvidenceInv'
      BY <1>2, PlantBugKeeps
<1> QED BY <1>1, <1>2 DEF Exercises

\* The first verdict is that of a run of the learner's own code.
LEMMA RunLearnerCodeKeeps == ASSUME EvidenceInv, RunLearnerCode PROVE EvidenceInv'
<1>1. /\ pc = "run" /\ pc' \in {"reveal", "execute"}
      /\ initial' \in IF OwnRun THEN Verdicts(msg.code, suite) ELSE {None}
      /\ UNCHANGED <<sandbox, curated, examples, cache, exercise, shown, msg, suite, source,
                     solution, final, reply, event>>
      BY DEF RunLearnerCode, world, kept
<1>2. MessageInOrder /\ reply = None
      BY <1>1 DEF EvidenceInv, WhereTheTurnIs
<1>3. Extracted' = Extracted /\ ReferenceExamples' = ReferenceExamples
      BY <1>1, ExamplesAreKept
<1>4. /\ initial' \in {"pass", "fail", "inconclusive", None}
      /\ initial' \in {"pass", "fail"} => OwnRun
      /\ initial' = "pass" => Report(msg.code, suite) = "passed"
      BY <1>1, VerdictsAreTyped, NoneIsNoOutcome
<1>5. EvidenceTypes'
      BY <1>1, <1>4 DEF EvidenceInv, EvidenceTypes
<1>6. WhereTheTurnIs'
      BY <1>1, <1>2 DEF WhereTheTurnIs, MessageInOrder
<1>7. SuiteIsGrounded'
      BY <1>1, <1>3 DEF EvidenceInv, SuiteIsGrounded
<1>8. VerdictIsOfTheRun'
      BY <1>1, <1>4 DEF VerdictIsOfTheRun, OwnRun
<1>9. SolutionIsVerified' /\ ReplyIsTheSolution'
      BY <1>1, <1>3 DEF EvidenceInv, SolutionIsVerified, ReplyIsTheSolution, Verified
<1> QED BY <1>5, <1>6, <1>7, <1>8, <1>9 DEF EvidenceInv

\* The label is that of the solution; a solver's own code is called unchecked.
LEMMA RevealKeeps ==
    ASSUME EvidenceInv, NEW solver \in SolverCodes, Reveal(solver)
    PROVE  EvidenceInv'
<1>1. /\ pc = "reveal" /\ pc' = "execute"
      /\ solution' = IF solution = None /\ solver # None
                     THEN Candidate(solver, {}, FALSE)
                     ELSE solution
      /\ reply' = IF solution' = None THEN None ELSE Label(solution')
      /\ UNCHANGED <<sandbox, curated, examples, cache, exercise, shown, msg, suite, source,
                     initial, final, event>>
      BY DEF Reveal, world, kept
<1>2. MessageInOrder
      BY <1>1 DEF EvidenceInv, WhereTheTurnIs
<1>3. Extracted' = Extracted /\ ReferenceExamples' = ReferenceExamples
      BY <1>1, ExamplesAreKept
<1>4. /\ solution' \in Solutions \cup {None}
      /\ solution' # None /\ solution'.verified => Verified(solution')
  <2>1. CASE solution = None /\ solver # None
    <3>1. solver \in Codes
          BY <2>1 DEF SolverCodes, Codes, Does
    <3>2. solution' = Candidate(solver, {}, FALSE)
          BY <1>1, <2>1
    <3>3. solution' \in Solutions /\ ~solution'.verified
          BY <3>1, <3>2 DEF Candidate, Solutions
    <3> QED BY <3>3
  <2>2. CASE ~(solution = None /\ solver # None)
        BY <1>1, <2>2 DEF EvidenceInv, EvidenceTypes, SolutionIsVerified
  <2> QED BY <2>1, <2>2
<1>5. /\ reply' \in [code : Codes, checked : BOOLEAN] \cup {None}
      /\ reply' # None /\ reply'.checked =>
           solution' # None /\ solution'.verified /\ reply'.code = solution'.code
  <2>1. CASE solution' = None
        BY <1>1, <2>1
  <2>2. CASE solution' # None
    <3>1. solution'.code \in Codes /\ solution'.verified \in BOOLEAN
          BY <1>4, <2>2 DEF Solutions
    <3>2. reply' = [code |-> solution'.code, checked |-> solution'.verified]
          BY <1>1, <2>2 DEF Label
    <3> QED BY <2>2, <3>1, <3>2
  <2> QED BY <2>1, <2>2
<1>6. EvidenceTypes'
      BY <1>1, <1>4, <1>5 DEF EvidenceInv, EvidenceTypes
<1>7. WhereTheTurnIs'
      BY <1>1, <1>2 DEF WhereTheTurnIs, MessageInOrder
<1>8. SuiteIsGrounded'
      BY <1>1, <1>3 DEF EvidenceInv, SuiteIsGrounded
<1>9. VerdictIsOfTheRun'
      BY <1>1 DEF EvidenceInv, VerdictIsOfTheRun, OwnRun
<1>10. SolutionIsVerified' /\ ReplyIsTheSolution'
      BY <1>1, <1>3, <1>4, <1>5 DEF SolutionIsVerified, ReplyIsTheSolution, Verified
<1> QED BY <1>6, <1>7, <1>8, <1>9, <1>10 DEF EvidenceInv

LEMMA ExecuteCodeKeeps == ASSUME EvidenceInv, ExecuteCode PROVE EvidenceInv'
<1>1. /\ pc = "execute" /\ pc' = "record"
      /\ final' \in IF OwnRun THEN Verdicts(msg.code, suite)
                    ELSE IF solution # None /\ solution.cases # None
                    THEN Verdicts(solution.code, solution.cases)
                    ELSE {None}
      /\ UNCHANGED <<sandbox, curated, examples, cache, exercise, shown, msg, suite, source,
                     solution, initial, reply, event>>
      BY DEF ExecuteCode, world, kept
<1>2. final' \in {"pass", "fail", "inconclusive", None}
      BY <1>1, VerdictsAreTyped
<1>3. Extracted' = Extracted /\ ReferenceExamples' = ReferenceExamples
      BY <1>1, ExamplesAreKept
<1>4. EvidenceTypes'
      BY <1>1, <1>2 DEF EvidenceInv, EvidenceTypes
<1>5. WhereTheTurnIs'
      BY <1>1 DEF EvidenceInv, WhereTheTurnIs, MessageInOrder
<1>6. SuiteIsGrounded'
      BY <1>1, <1>3 DEF EvidenceInv, SuiteIsGrounded
<1>7. VerdictIsOfTheRun'
      BY <1>1 DEF EvidenceInv, VerdictIsOfTheRun, OwnRun
<1>8. SolutionIsVerified' /\ ReplyIsTheSolution'
      BY <1>1, <1>3 DEF EvidenceInv, SolutionIsVerified, ReplyIsTheSolution, Verified
<1> QED BY <1>4, <1>5, <1>6, <1>7, <1>8 DEF EvidenceInv

\* The turn is over, and only what is stored is left of it.
LEMMA BuildLearningEventKeeps == ASSUME EvidenceInv, BuildLearningEvent PROVE EvidenceInv'
<1>1. /\ pc = "record" /\ pc' = "asked"
      /\ event' \in {"unknown", "solved", "failed"}
      /\ shown' = IF reply = None THEN shown ELSE shown \cup {reply.code}
      /\ msg' = None /\ suite' = {} /\ source' = "none" /\ solution' = None
      /\ initial' = None /\ final' = None /\ reply' = None
      /\ UNCHANGED <<sandbox, curated, examples, cache, exercise>>
      BY DEF BuildLearningEvent, world
<1>2. shown' \subseteq Codes
      BY <1>1 DEF EvidenceInv, EvidenceTypes
<1>3. EvidenceTypes'
      BY <1>1, <1>2 DEF EvidenceInv, EvidenceTypes
<1>4. WhereTheTurnIs'
      BY <1>1 DEF WhereTheTurnIs
<1>5. SuiteIsGrounded' /\ VerdictIsOfTheRun'
      BY <1>1, NoneIsNoOutcome DEF SuiteIsGrounded, VerdictIsOfTheRun
<1>6. SolutionIsVerified' /\ ReplyIsTheSolution'
      BY <1>1 DEF SolutionIsVerified, ReplyIsTheSolution
<1> QED BY <1>3, <1>4, <1>5, <1>6 DEF EvidenceInv

\* Nothing a turn goes on with when no step is taken changes.
LEMMA StutterKeeps == ASSUME EvidenceInv, UNCHANGED vars PROVE EvidenceInv'
<1>1. UNCHANGED <<sandbox, curated, examples, cache, exercise, shown, pc, msg, suite, source,
                  solution, initial, final, reply, event>>
      BY DEF vars
<1>2. Extracted' = Extracted /\ ReferenceExamples' = ReferenceExamples
      BY <1>1, ExamplesAreKept
<1>3. EvidenceTypes' /\ WhereTheTurnIs'
      BY <1>1 DEF EvidenceInv, EvidenceTypes, WhereTheTurnIs, MessageInOrder
<1>4. SuiteIsGrounded' /\ VerdictIsOfTheRun'
      BY <1>1, <1>2 DEF EvidenceInv, SuiteIsGrounded, VerdictIsOfTheRun, OwnRun
<1>5. SolutionIsVerified' /\ ReplyIsTheSolution'
      BY <1>1, <1>2 DEF EvidenceInv, SolutionIsVerified, ReplyIsTheSolution, Verified
<1> QED BY <1>3, <1>4, <1>5 DEF EvidenceInv

\* The invariant holds in every state, whatever the model proposes, the sandbox
\* reports and the learner sends.
THEOREM EvidenceInvariant == Spec => []EvidenceInv
<1>1. EvidenceInv /\ [Next]_vars => EvidenceInv'
  <2> SUFFICES ASSUME EvidenceInv, [Next]_vars PROVE EvidenceInv'
      OBVIOUS
  <2>1. ASSUME NEW m \in Messages, Receive(m) PROVE EvidenceInv'
        BY <2>1, ReceiveKeeps
  <2>2. CASE Suites
        BY <2>2, SuitesKeep
  <2>3. CASE References
        BY <2>3, ReferencesKeep
  <2>4. CASE Exercises
        BY <2>4, ExercisesKeep
  <2>5. CASE Reply
    <3>1. ASSUME NEW solver \in SolverCodes, Reveal(solver) PROVE EvidenceInv'
          BY <3>1, RevealKeeps
    <3> QED BY <2>5, <3>1, RunLearnerCodeKeeps, ExecuteCodeKeeps, BuildLearningEventKeeps DEF Reply
  <2>6. CASE UNCHANGED vars
        BY <2>6, StutterKeeps
  <2> QED BY <2>1, <2>2, <2>3, <2>4, <2>5, <2>6 DEF Next, Step
<1> QED BY <1>1, InitSetsUp, PTL DEF Spec

-----------------------------------------------------------------------------
(* What follows *)

\* Every variable stays within its type: only a candidate with cases is ever
\* verified, the suite and the kept cases are cases, and what was shown is code
\* (TestSuite, VerifiedSolution, CachedTestSuite).
THEOREM EvidenceTypesOK == Spec => []EvidenceTypes
<1>1. EvidenceInv => EvidenceTypes
      BY DEF EvidenceInv
<1> QED BY <1>1, EvidenceInvariant, PTL

\* Code is called checked only when there is a sandbox and it passed in it every
\* case the reply speaks of, with every worked example of the statement that it
\* can be called with among them: however often the model was asked, whichever
\* of the further runs was cut short, and whatever an exercise changes about the
\* examples (_check_reference, _with_proposed_cases, run_dsa).
THEOREM CheckedCodeHasPassed == Spec => []CheckedCodePassed
<1>1. EvidenceInv => CheckedCodePassed
      BY DEF EvidenceInv, ReplyIsTheSolution, SolutionIsVerified, Verified, CheckedCodePassed
<1> QED BY <1>1, EvidenceInvariant, PTL

\* Only the end of a turn gives it an outcome.
LEMMA RecordedAtTheEnd ==
    ASSUME [Next]_vars, event = None, event' # None
    PROVE  BuildLearningEvent
<1>1. ASSUME Suites PROVE event' = event
      BY <1>1 DEF Suites, ResolveTestSuite, SynthesiseNothing, SynthesiseUnusable, Synthesise, outcome
<1>2. ASSUME References PROVE event' = event
      BY <1>2 DEF References, ReferenceRefused, ReferenceUnusable, ReferenceUnchecked,
                  ReferenceFailed, ReferencePassed, EndReference, outcome
<1>3. ASSUME Exercises PROVE event' = event
      BY <1>3 DEF Exercises, PlantNothing, PlantAgain, PlantBug, outcome
<1>4. ASSUME Reply, ~BuildLearningEvent PROVE event' = event
      BY <1>4 DEF Reply, RunLearnerCode, Reveal, ExecuteCode
<1>5. ASSUME NEW m \in Messages, Receive(m) PROVE event' = None
      BY <1>5 DEF Receive
<1>6. ASSUME UNCHANGED vars PROVE event' = event
      BY <1>6 DEF vars
<1> QED BY <1>1, <1>2, <1>3, <1>4, <1>5, <1>6 DEF Next, Step

\* What an outcome about the learner rests on.
LEMMA OutcomeRests ==
    ASSUME EvidenceInv, BuildLearningEvent, event' \in {"solved", "failed"}
    PROVE  /\ Counts /\ initial \in {"pass", "fail"} /\ OwnRun
           /\ event' = "solved" <=> initial = "pass"
           /\ Extracted \subseteq suite
           /\ Stated \/ Extracted # {}
<1>1. /\ pc = "record" /\ Counts
      /\ event' = IF SolvedFromVerdict = "pass" THEN "solved" ELSE "failed"
      BY DEF BuildLearningEvent
<1>2. initial \in {"pass", "fail"} /\ OwnRun
      BY <1>1 DEF Counts, SolvedFromVerdict, EvidenceInv, VerdictIsOfTheRun
<1>3. source # "none" /\ Extracted \subseteq suite
      BY <1>1, <1>2 DEF OwnRun, EvidenceInv, SuiteIsGrounded
<1>4. Stated \/ Extracted # {}
      BY <1>1, <1>3 DEF Counts, EvidenceInv, EvidenceTypes, SuiteIsGrounded
<1> QED BY <1>1, <1>2, <1>3, <1>4 DEF SolvedFromVerdict

\* A program recorded as solved passed every worked example of its problem that
\* it can be called with, however many cases a model or an earlier turn added to
\* them (_resolve_test_suite, _with_extra_cases, _build_learning_event).
THEOREM SolvedHasPassedTheExamples == Spec => SolvedPassesExamples
<1>1. EvidenceInv /\ [Next]_vars =>
        [Records({"solved"}) => \A case \in Extracted : Passes(msg.code, case)]_vars
  <2> SUFFICES ASSUME EvidenceInv, [Next]_vars, event = None, event' = "solved",
                      NEW case \in Extracted
               PROVE  Passes(msg.code, case)
      BY DEF Records
  <2>1. BuildLearningEvent
        BY NoneIsNoOutcome, RecordedAtTheEnd
  <2>2. initial = "pass" /\ case \in suite
        BY <2>1, OutcomeRests
  <2>3. Report(msg.code, suite) = "passed"
        BY <2>2 DEF EvidenceInv, VerdictIsOfTheRun
  <2> QED BY <2>2, <2>3, PassedMeansAllPass DEF AllPass
<1> QED BY <1>1, EvidenceInvariant, PTL DEF Spec, SolvedPassesExamples

\* An outcome is recorded only of a run of the learner's code, against a suite
\* that the statement or its examples stand behind, and of code that is theirs;
\* and it says what that run said (_build_learning_event, solved_from_verdict).
THEOREM OutcomesAreTheirOwn == Spec => JudgedOnTheirOwn
<1>1. EvidenceInv /\ [Next]_vars =>
        [Records({"solved", "failed"}) =>
            /\ OwnRun
            /\ Stated \/ Extracted # {}
            /\ msg.pasted => msg.about = "exercise"
            /\ event' = "solved" <=> initial = "pass"]_vars
  <2> SUFFICES ASSUME EvidenceInv, [Next]_vars, event = None, event' \in {"solved", "failed"}
               PROVE  /\ OwnRun
                      /\ Stated \/ Extracted # {}
                      /\ msg.pasted => msg.about = "exercise"
                      /\ event' = "solved" <=> initial = "pass"
      BY DEF Records
  <2>1. BuildLearningEvent
        BY NoneIsNoOutcome, RecordedAtTheEnd
  <2>2. msg.pasted => msg.about = "exercise"
        BY <2>1, OutcomeRests DEF Counts, IsTheTutorsCode
  <2> QED BY <2>1, <2>2, OutcomeRests
<1> QED BY <1>1, EvidenceInvariant, PTL DEF Spec, JudgedOnTheirOwn

\* While an exercise is made, only its own steps are taken.
LEMMA PlantedByItsSteps ==
    ASSUME [Next]_vars, pc = "plant", ~UNCHANGED vars
    PROVE  Exercises
BY DEF Next, Step, Suites, References, Reply, Receive, ResolveTestSuite, SynthesiseNothing,
       SynthesiseUnusable, ReferenceRefused, ReferenceUnusable, RunLearnerCode, Reveal,
       ExecuteCode, BuildLearningEvent

\* An exercise that is set is code that runs and fails one of the cases that the
\* solution it was made from passes, and no other cases are kept to judge a fix
\* by (plant_bug, _bug_exercise_turn).
THEOREM ExercisesHaveABug == Spec => ExerciseHasABug
<1> DEFINE Sound ==
        /\ exercise'.does # "broken"
        /\ Report(exercise', solution.cases) # "passed"
        /\ Report(solution.code, solution.cases) = "passed"
        /\ cache'[<<"t", "exercise">>] \in {solution.cases, cache[<<"t", "exercise">>]}
<1>1. EvidenceInv /\ [Next]_vars => [pc = "plant" /\ reply' # None => Sound]_vars
  <2> SUFFICES ASSUME EvidenceInv, [Next]_vars, ~UNCHANGED vars, pc = "plant", reply' # None
               PROVE  Sound
      OBVIOUS
  <2>1. Exercises
        BY PlantedByItsSteps
  <2>2. ~PlantNothing /\ ~PlantAgain
        BY DEF PlantNothing, PlantAgain, outcome, EvidenceInv, WhereTheTurnIs
  <2>3. PICK code \in Codes, statement \in WrittenExamples, written \in BOOLEAN :
           PlantBug(code, statement, written)
        BY <2>1, <2>2 DEF Exercises
  <2>4. /\ exercise' = code /\ Report(code, solution.cases) = "failed"
        /\ cache' = IF written THEN [cache EXCEPT ![SubjectKey] = solution.cases] ELSE cache
        BY <2>3 DEF PlantBug, Caught
  <2>5. Loads(code)
        BY <2>4 DEF Report
  <2>6. Report(solution.code, solution.cases) = "passed" /\ SubjectKey = <<"t", "exercise">>
        BY DEF EvidenceInv, WhereTheTurnIs, SolutionIsVerified, Verified, SubjectKey
  <2>7. <<"t", "exercise">> \in Keys /\ cache \in [Keys -> SUBSET Cases]
        BY DEF EvidenceInv, EvidenceTypes, Keys, Problems
  <2>8. cache'[<<"t", "exercise">>] \in {solution.cases, cache[<<"t", "exercise">>]}
        BY <2>4, <2>6, <2>7
  <2> QED BY <2>4, <2>5, <2>6, <2>8 DEF Loads
<1> QED BY <1>1, EvidenceInvariant, PTL DEF Spec, ExerciseHasABug

=============================================================================
