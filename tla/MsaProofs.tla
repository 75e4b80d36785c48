----------------------------- MODULE MsaProofs ------------------------------
(***************************************************************************)
(* The furnished model: what the bootstrap accounts for and what its gaps  *)
(* name, what bounds the agent loop, what the critic's findings may gate,  *)
(* and what an assembly shows where an asset was placed, for all scenes,   *)
(* objects, libraries, limits, answers and numbers of steps.               *)
(***************************************************************************)
EXTENDS Studio, FiniteSetTheorems, WellFoundedInduction, TLAPS

-----------------------------------------------------------------------------
(* The agent loop *)

Tools == [yaw : Int, scale : Int, asset : BOOLEAN, material : BOOLEAN, flags : Int]
Cursor == [o : Edited \union {"none"}, yaw : Int, scale : Int, start : Int, loss : Int, step : Int]
Tally == [accepted : Nat, rejected : Nat, flagged : Nat, parse : Nat, api : Nat]

\* What the tools changed is within the limits of the tools.
StateBounded ==
  /\ agentState \in [Edited -> Tools]
  /\ \A o \in Edited : Agent!WithinTotal(o, agentState[o])

\* The object at hand is where it began or within them, and a proposal that was passed on is
\* within them.
LoopBounded ==
  /\ agentCur \in Cursor /\ agentTally \in Tally /\ agentTrial \in [yaw : Int, scale : Int]
  /\ agentPc \in {"generate", "verify", "report"} => agentCur.o \in Edited
  /\ agentCur.o \in Edited => Agent!Sound(agentCur, agentTally.accepted)
  /\ agentPc = "verify" => Agent!Judged(agentTrial)

ResultsBounded ==
  /\ agentResults \in Seq([final : Cursor, tally : Tally])
  /\ \A i \in DOMAIN agentResults : Agent!Sound(agentResults[i].final, agentResults[i].tally.accepted)

LoopInv == StateBounded /\ LoopBounded /\ ResultsBounded

-----------------------------------------------------------------------------
(* The arithmetic *)

LEMMA AbsTyped == ASSUME NEW n \in Int PROVE Agent!Abs(n) \in Nat
  BY DEF Agent!Abs

LEMMA ScaledTyped == ASSUME NEW s \in Int, NEW f \in Int PROVE Agent!Scaled(s, f) \in Int
  BY DEF Agent!Scaled

LEMMA LossTyped ==
  ASSUME NEW o \in Edited, NEW yaw \in Int, NEW s \in Int
  PROVE  Agent!Loss(o, yaw, s) \in Int
<1>1. BestFit[o] \in [yaw : Int, scale : Int]
  BY LoopAssumption
<1>2. Agent!Abs(yaw - BestFit[o].yaw) \in Nat /\ Agent!Abs(s - BestFit[o].scale) \in Nat
  BY <1>1, AbsTyped
<1>3. QED
  BY <1>2 DEF Agent!Loss

\* An object nobody edited is where it was.
LEMMA FreshIsBounded == ASSUME NEW o \in Edited PROVE Agent!WithinTotal(o, Agent!Fresh)
<1>1. Agent!Abs(0) = 0 /\ Agent!Abs(100 - 100) = 0
  BY DEF Agent!Abs
<1>2. Size[o] \in Nat
  BY LoopAssumption
<1>3. Agent!Shift(o, 100) = 0
  BY <1>1, <1>2 DEF Agent!Shift
<1>4. QED
  BY <1>1, <1>3, LoopAssumption DEF Agent!WithinTotal, Agent!Fresh

-----------------------------------------------------------------------------
LEMMA InitLoopInv == Agent!Init => LoopInv
<1> SUFFICES ASSUME Agent!Init PROVE LoopInv
  OBVIOUS
<1>1. StateBounded
  BY FreshIsBounded DEF Agent!Init, StateBounded, Agent!Fresh, Tools
<1>2. LoopBounded
  BY LoopAssumption DEF Agent!Init, LoopBounded, Cursor, Tally, Agent!Zero, Agent!Nothing
<1>3. ResultsBounded
  BY DEF Agent!Init, ResultsBounded
<1>4. QED
  BY <1>1, <1>2, <1>3 DEF LoopInv

\* All of an action or none of it.
LEMMA ApplyBounded ==
  ASSUME StateBounded, NEW a \in Agent!Edits, Agent!Apply(a)
  PROVE  StateBounded'
<1>1. CASE Agent!Rejected(a) \/ a.kind \in {"set_light", "set_exposure"}
  BY <1>1 DEF Agent!Apply, StateBounded
<1>2. CASE ~Agent!Rejected(a) /\ a.kind \notin {"set_light", "set_exposure"}
  <2>1. a.o \in Edited /\ Agent!StaticOK(a) /\ a.kind \in Agent!Kinds /\ a.amount \in Int
    BY <1>2, LoopAssumption DEF Agent!Rejected, Agent!Edits, Agent!Kinds
  <2>2. agentState' = [agentState EXCEPT ![a.o] = Agent!Changed(a)]
    BY <1>2 DEF Agent!Apply
  <2>3. agentState[a.o] \in Tools
    BY <2>1 DEF StateBounded
  <2>4. Agent!Changed(a) \in Tools /\ Agent!WithinTotal(a.o, Agent!Changed(a))
    <3>1. CASE a.kind = "rotate"
      <4>1. Agent!WithinBounds(a.o, Agent!Changed(a).yaw, Agent!Changed(a).scale)
        BY <1>2, <2>1, <3>1 DEF Agent!Rejected
      <4>2. Agent!Changed(a) = [agentState[a.o] EXCEPT !.yaw = @ + a.amount]
        BY <3>1 DEF Agent!Changed
      <4>3. QED
        BY <2>1, <2>3, <4>1, <4>2 DEF Agent!WithinTotal, Agent!WithinBounds, Tools
    <3>2. CASE a.kind = "scale"
      <4>1. Agent!WithinBounds(a.o, Agent!Changed(a).yaw, Agent!Changed(a).scale)
        BY <1>2, <2>1, <3>2 DEF Agent!Rejected
      <4>2. Agent!Changed(a) = [agentState[a.o] EXCEPT !.scale = Agent!Scaled(@, a.amount)]
        BY <3>2 DEF Agent!Changed
      <4>3. Agent!Scaled(agentState[a.o].scale, a.amount) \in Int
        BY <2>1, <2>3, ScaledTyped DEF Tools
      <4>4. QED
        BY <2>1, <2>3, <4>1, <4>2, <4>3 DEF Agent!WithinTotal, Agent!WithinBounds, Tools
    <3>3. CASE a.kind \notin {"rotate", "scale"}
      <4>1. Agent!Changed(a) \in Tools /\ Agent!Changed(a).yaw = agentState[a.o].yaw
              /\ Agent!Changed(a).scale = agentState[a.o].scale
        <5>1. CASE a.kind = "swap_asset"
          BY <2>3, <5>1 DEF Agent!Changed, Tools
        <5>2. CASE a.kind = "set_material"
          BY <2>3, <5>2 DEF Agent!Changed, Tools
        <5>3. CASE a.kind \notin {"swap_asset", "set_material"}
          <6>1. Agent!Changed(a) = [agentState[a.o] EXCEPT !.flags = @ + 1]
            BY <3>3, <5>3 DEF Agent!Changed
          <6>2. QED
            BY <2>3, <6>1 DEF Tools
        <5>4. QED
          BY <5>1, <5>2, <5>3
      <4>2. Agent!WithinTotal(a.o, agentState[a.o])
        BY <2>1 DEF StateBounded
      <4>3. QED
        BY <4>1, <4>2 DEF Agent!WithinTotal
    <3>4. QED
      BY <3>1, <3>2, <3>3
  <2>5. QED
    BY <2>1, <2>2, <2>4 DEF StateBounded
<1>3. QED
  BY <1>1, <1>2

\* The object at hand, whatever the generator proposes and the verifier says.
LEMMA StepLoop ==
  ASSUME LoopBounded, [Agent!Next]_agentVars
  PROVE  LoopBounded'
<1>1. ASSUME NEW o \in Edited, NEW v \in Verifiers, Agent!Begin(o, v) PROVE LoopBounded'
  <2>1. Agent!Loss(o, StartYaw, StartScale) \in Int
    BY LossTyped, LoopAssumption
  <2>2. QED
    BY <1>1, <2>1, LoopAssumption DEF LoopBounded, Agent!Begin, Cursor, Tally, Agent!Zero, Agent!Sound
<1>2. ASSUME NEW a \in Agent!Proposals, Agent!Propose(a) PROVE LoopBounded'
  <2>1. a.amount \in Int
    BY LoopAssumption DEF Agent!Proposals, Agent!Amounts, Agent!Factors
  <2>2. Agent!TrialOf(a) \in [yaw : Int, scale : Int]
    <3>1. agentCur.yaw \in Int /\ agentCur.scale \in Int
      BY DEF LoopBounded, Cursor
    <3>2. Agent!Scaled(agentCur.scale, a.amount) \in Int
      BY <2>1, <3>1, ScaledTyped
    <3>3. agentCur.yaw + a.amount \in Int /\ agentCur.yaw + 0 \in Int
      BY <2>1, <3>1
    <3>4. QED
      BY <3>1, <3>2, <3>3 DEF Agent!TrialOf
  <2>3. QED
    BY <1>2, <2>2 DEF Agent!Propose, LoopBounded, Agent!Count, Agent!NextStep, Cursor, Tally,
        Agent!Judged, Agent!Sound, Agent!WithinTotal
<1>3. ASSUME NEW says \in BOOLEAN, Agent!Verify(says) PROVE LoopBounded'
  <2>1. agentCur.o \in Edited /\ Agent!Judged(agentTrial)
    BY <1>3 DEF Agent!Verify, LoopBounded
  <2>2. Agent!Loss(agentCur.o, agentTrial.yaw, agentTrial.scale) \in Int
    BY <2>1, LossTyped DEF LoopBounded
  <2>3. CASE Agent!Accepted(says)
    <3> DEFINE l == Agent!Loss(agentCur.o, agentTrial.yaw, agentTrial.scale)
    <3>1. l < agentCur.loss /\ l \in Int
      BY <2>2, <2>3 DEF Agent!Accepted
    <3> HIDE DEF l
    <3>2. agentCur' = [agentCur EXCEPT !.yaw = agentTrial.yaw, !.scale = agentTrial.scale, !.loss = l, !.step = @ + 1]
      BY <1>3, <2>3 DEF Agent!Verify, l
    <3>3. /\ agentCur' \in Cursor /\ agentCur'.o = agentCur.o /\ agentCur'.yaw = agentTrial.yaw /\ agentCur'.scale = agentTrial.scale
          /\ agentCur'.loss = l /\ agentCur'.start = agentCur.start
      <4>1. agentCur \in Cursor /\ agentTrial.yaw \in Int /\ agentTrial.scale \in Int
        BY DEF LoopBounded
      <4>2. agentCur.step + 1 \in Int
        BY <4>1 DEF Cursor
      <4>3. agentCur' = [o |-> agentCur.o, yaw |-> agentTrial.yaw, scale |-> agentTrial.scale, start |-> agentCur.start,
                    loss |-> l, step |-> agentCur.step + 1]
        BY <3>2, <4>1 DEF Cursor
      <4>4. QED
        BY <3>1, <4>1, <4>2, <4>3 DEF Cursor
    <3>4. agentCur'.loss < agentCur'.start
      BY <2>1, <3>1, <3>3 DEF LoopBounded, Cursor, Agent!Sound
    <3>5. Agent!WithinTotal(agentCur.o, agentCur')
      BY <2>1, <3>3 DEF Agent!Judged, Agent!WithinTotal, Agent!WithinBounds
    <3>6. agentTally' \in Tally /\ agentTally'.accepted # 0 /\ agentTrial' = agentTrial /\ agentPc' = "generate"
      BY <1>3, <2>3 DEF Agent!Verify, Agent!Count, LoopBounded, Tally
    <3>7. QED
      BY <2>1, <3>3, <3>4, <3>5, <3>6 DEF LoopBounded, Agent!Sound
  <2>4. CASE ~Agent!Accepted(says)
    BY <1>3, <2>1, <2>4
    DEF Agent!Verify, LoopBounded, Agent!Count, Agent!NextStep, Cursor, Tally, Agent!Judged,
        Agent!Sound, Agent!WithinTotal
  <2>5. QED
    BY <2>3, <2>4
<1>4. ASSUME NEW a \in Agent!Proposals, Agent!Unusable(a) PROVE LoopBounded'
  BY <1>4 DEF Agent!Unusable, LoopBounded, Agent!Count, Agent!NextStep, Cursor, Tally, Agent!Judged,
      Agent!Sound, Agent!WithinTotal
<1>5. CASE Agent!GeneratorFails \/ Agent!GiveUp \/ Agent!VerifierFails
  BY <1>5 DEF Agent!GeneratorFails, Agent!GiveUp, Agent!VerifierFails, LoopBounded, Agent!Count,
      Cursor, Tally, Agent!Judged, Agent!Sound, Agent!WithinTotal
<1>6. CASE Agent!Malformed \/ Agent!StepsSpent \/ Agent!Report \/ Agent!WriteResults
  BY <1>6 DEF Agent!Malformed, Agent!StepsSpent, Agent!Report, Agent!WriteResults, LoopBounded,
      Agent!Judged
<1>7. CASE (\E a \in Agent!Edits : Agent!Apply(a)) \/ UNCHANGED agentVars
  BY <1>7 DEF Agent!Apply, agentVars, LoopBounded, Agent!Judged
<1>8. QED
  BY <1>1, <1>2, <1>3, <1>4, <1>5, <1>6, <1>7 DEF Agent!Next

LEMMA StepResults ==
  ASSUME LoopBounded, ResultsBounded, [Agent!Next]_agentVars
  PROVE  ResultsBounded'
<1>1. CASE Agent!Report
  <2> DEFINE r == [final |-> agentCur, tally |-> agentTally]
  <2>1. r \in [final : Cursor, tally : Tally] /\ Agent!Sound(r.final, r.tally.accepted)
    BY <1>1 DEF LoopBounded, Agent!Report
  <2>2. agentResults' = Append(agentResults, r)
    BY <1>1 DEF Agent!Report
  <2> HIDE DEF r
  <2>3. QED
    BY <2>1, <2>2 DEF ResultsBounded
<1>2. CASE agentResults' = agentResults
  BY <1>2 DEF ResultsBounded
<1>3. Agent!Report \/ agentResults' = agentResults
  BY DEF Agent!Next, agentVars, Agent!Apply, Agent!Begin, Agent!Unusable, Agent!Propose,
      Agent!GeneratorFails, Agent!Malformed, Agent!GiveUp,
         Agent!VerifierFails, Agent!Verify, Agent!StepsSpent, Agent!WriteResults, Agent!Kept
<1>4. QED
  BY <1>1, <1>2, <1>3

LEMMA StepLoopInv == ASSUME LoopInv, [Agent!Next]_agentVars PROVE LoopInv'
<1>1. (\E a \in Agent!Edits : Agent!Apply(a)) \/ agentState' = agentState
  BY DEF Agent!Next, agentVars, Agent!Begin, Agent!Unusable, Agent!Propose, Agent!GeneratorFails,
      Agent!Malformed, Agent!GiveUp,
         Agent!VerifierFails, Agent!Verify, Agent!StepsSpent, Agent!Report, Agent!WriteResults, Agent!Kept
<1>2. StateBounded'
  BY <1>1, ApplyBounded DEF LoopInv, StateBounded
<1>3. QED
  BY <1>2, StepLoop, StepResults DEF LoopInv

LEMMA StepOfAgent == [Next]_vars => [Agent!Next]_agentVars
  BY DEF Next, vars, agentVars

(* However many bounded steps are made on however many objects, wherever they start and whatever
   generator and verifier answer, an object that was edited is within its total turn and shift and
   fits better than at the start, and one that was not is where it started. *)
THEOREM RefinementStaysBounded == Spec => []RefinementIsBounded
<1>1. Init => LoopInv
  BY InitLoopInv DEF Init
<1>2. LoopInv /\ [Next]_vars => LoopInv'
  BY StepOfAgent, StepLoopInv
<1>3. LoopInv => RefinementIsBounded
  BY DEF LoopInv, StateBounded, LoopBounded, ResultsBounded, RefinementIsBounded,
         Agent!RefinementIsBounded
<1>4. QED
  BY <1>1, <1>2, <1>3, PTL DEF Spec

-----------------------------------------------------------------------------
(* The critic *)

Advisory(f) == f.source = "vlm" /\ f.unverified

RulesVerified == Review!Present(criticRules) => \A f \in criticRules : ~f.unverified
VlmAdvisory == Review!Present(criticVlm) => \A f \in criticVlm : Advisory(f)
AskingAdvisory ==
  Review!Present(criticAsking) =>
    /\ criticAsking = [v \in DOMAIN criticAsking |-> criticAsking[v]]
    /\ \A v \in DOMAIN criticAsking : criticAsking[v] # None => \A f \in criticAsking[v] : Advisory(f)

ReviewInv == RulesVerified /\ VlmAdvisory /\ AskingAdvisory /\ Review!AdvisoryNeverGates

-----------------------------------------------------------------------------
LEMMA InitReviewInv == Review!Init => ReviewInv
  BY DEF Review!Init, ReviewInv, RulesVerified, VlmAdvisory, AskingAdvisory,
      Review!AdvisoryNeverGates, Review!Present

\* Every check reports what it measured itself.
LEMMA ChecksVerified == \A f \in Review!AllChecks : ~f.unverified
  BY DEF Review!AllChecks, Review!YawVsWall, Review!BboxVsClassLimit, Review!CentroidOutsideRoom,
      Review!AssetCentroidVsHull,
         Review!MissingSupportReason, Review!Finding

LEMMA TaggedAdvisory ==
  ASSUME NEW a \in Answers, NEW f \in a
  PROVE  Advisory(Review!Tagged(f))
  BY AnswersAssumption DEF Review!Tagged, Advisory

LEMMA StepRules == ASSUME ReviewInv, [Review!Next]_criticVars PROVE RulesVerified'
<1>1. CASE Review!RunRules
  BY <1>1, ChecksVerified DEF Review!RunRules, ReviewInv, RulesVerified, Review!Present
<1>2. CASE criticRules' = criticRules
  BY <1>2 DEF ReviewInv, RulesVerified, Review!Present
<1>3. Review!RunRules \/ criticRules' = criticRules
  BY DEF Review!Next, criticVars, Review!Export, Review!Assemble, Review!StartVlm, Review!CallPair,
      Review!CallRaises, Review!WriteVlm, Review!MergeCritic
<1>4. QED
  BY <1>1, <1>2, <1>3

LEMMA StepAsking == ASSUME ReviewInv, [Review!Next]_criticVars PROVE AskingAdvisory'
<1>1. ASSUME NEW frames \in SUBSET Frames, Review!StartVlm(frames) PROVE AskingAdvisory'
  BY <1>1 DEF Review!StartVlm, AskingAdvisory, Review!Present
<1>2. ASSUME NEW v \in Frames, NEW a \in Answers \union {None}, Review!CallPair(v, a) PROVE AskingAdvisory'
  <2> DEFINE said == IF a = None THEN {} ELSE {Review!Tagged(f) : f \in a}
  <2>1. \A f \in said : Advisory(f)
    BY TaggedAdvisory
  <2>2. criticAsking' = [criticAsking EXCEPT ![v] = said] /\ Review!Present(criticAsking) /\ v \in DOMAIN criticAsking
    BY <1>2 DEF Review!CallPair
  <2> HIDE DEF said
  <2>3. QED
    BY <2>1, <2>2 DEF ReviewInv, AskingAdvisory
<1>3. CASE Review!CallRaises \/ Review!WriteVlm
  BY <1>3 DEF Review!CallRaises, Review!WriteVlm, AskingAdvisory, Review!Present
<1>4. CASE criticAsking' = criticAsking
  BY <1>4 DEF ReviewInv, AskingAdvisory, Review!Present
<1>5. \/ \E frames \in SUBSET Frames : Review!StartVlm(frames)
      \/ \E v \in Frames, a \in Answers \union {None} : Review!CallPair(v, a)
      \/ Review!CallRaises \/ Review!WriteVlm \/ criticAsking' = criticAsking
  BY DEF Review!Next, criticVars, Review!Export, Review!Assemble, Review!RunRules,
      Review!MergeCritic
<1>6. QED
  BY <1>1, <1>2, <1>3, <1>4, <1>5

LEMMA StepVlm == ASSUME ReviewInv, [Review!Next]_criticVars PROVE VlmAdvisory'
<1>1. CASE Review!WriteVlm
  <2>1. criticVlm' = UNION {criticAsking[v] : v \in DOMAIN criticAsking}
    BY <1>1 DEF Review!WriteVlm
  <2>2. \A v \in DOMAIN criticAsking : \A f \in criticAsking[v] : Advisory(f)
    BY <1>1 DEF Review!WriteVlm, ReviewInv, AskingAdvisory
  <2>3. QED
    BY <2>1, <2>2 DEF VlmAdvisory
<1>2. CASE criticVlm' = criticVlm
  BY <1>2 DEF ReviewInv, VlmAdvisory, Review!Present
<1>3. Review!WriteVlm \/ criticVlm' = criticVlm
  BY DEF Review!Next, criticVars, Review!Export, Review!Assemble, Review!RunRules, Review!StartVlm,
      Review!CallPair, Review!CallRaises, Review!MergeCritic
<1>4. QED
  BY <1>1, <1>2, <1>3

LEMMA StepCritic == ASSUME ReviewInv, [Review!Next]_criticVars PROVE Review!AdvisoryNeverGates'
<1>1. CASE Review!MergeCritic
  <2> DEFINE said == IF Review!Present(criticVlm) THEN criticVlm ELSE {}
  <2>1. (\A f \in criticRules : ~f.unverified) /\ (\A f \in said : Advisory(f))
    BY <1>1 DEF Review!MergeCritic, ReviewInv, RulesVerified, VlmAdvisory
  <2>2. criticCritic' = [findings |-> criticRules \union said, rules |-> criticRules,
                   overlap |-> Review!Overlaps(criticRules, said), diagonal |-> Review!DiagonalBed(criticRules, said)]
    BY <1>1 DEF Review!MergeCritic
  <2> HIDE DEF said
  <2>3. \A p \in Review!Overlaps(criticRules, said) : p[1] \in criticRules /\ p[2] \in said
    BY DEF Review!Overlaps
  <2>4. {f \in criticRules \union said : ~f.unverified} = criticRules
    BY <2>1 DEF Advisory
  <2>5. QED
    BY <2>1, <2>2, <2>3, <2>4 DEF Review!AdvisoryNeverGates, Advisory
<1>2. CASE criticCritic' = criticCritic
  BY <1>2 DEF ReviewInv, Review!AdvisoryNeverGates, Review!Present
<1>3. Review!MergeCritic \/ criticCritic' = criticCritic
  BY DEF Review!Next, criticVars, Review!Export, Review!Assemble, Review!RunRules, Review!StartVlm,
      Review!CallPair, Review!CallRaises, Review!WriteVlm
<1>4. QED
  BY <1>1, <1>2, <1>3

LEMMA StepReviewInv == ASSUME ReviewInv, [Review!Next]_criticVars PROVE ReviewInv'
  BY StepRules, StepAsking, StepVlm, StepCritic DEF ReviewInv

LEMMA StepOfReview == [Next]_vars => [Review!Next]_criticVars
  BY DEF Next, vars, criticVars

(* Whatever the model answers, whichever calls fail, and however old the files are that a
   merge finds, the verified findings of critic.json are those the rules measured, and what
   corroborates one of them is a finding the model made. *)
THEOREM ModelNeverGates == Spec => []AdvisoryNeverGates
<1>1. Init => ReviewInv
  BY InitReviewInv DEF Init
<1>2. ReviewInv /\ [Next]_vars => ReviewInv'
  BY StepOfReview, StepReviewInv
<1>3. ReviewInv => AdvisoryNeverGates
  BY DEF ReviewInv, AdvisoryNeverGates
<1>4. QED
  BY <1>1, <1>2, <1>3, PTL DEF Spec

-----------------------------------------------------------------------------
(* Finite sets: images, and a best element *)

LEMMA FiniteImage ==
  ASSUME NEW S, IsFiniteSet(S), NEW f PROVE IsFiniteSet({f[x] : x \in S})
<1> DEFINE T == {f[x] : x \in S}
<1>1. PICK seq \in Seq(S) : \A s \in S : \E n \in 1 .. Len(seq) : seq[n] = s
  BY DEF IsFiniteSet
<1> DEFINE image == [n \in 1 .. Len(seq) |-> f[seq[n]]]
<1>2. Len(seq) \in Nat /\ \A n \in 1 .. Len(seq) : seq[n] \in S
  OBVIOUS
<1>3. image \in Seq(T) /\ Len(image) = Len(seq)
  BY <1>2
<1>4. ASSUME NEW t \in T PROVE \E n \in 1 .. Len(image) : image[n] = t
  <2>1. PICK x \in S : t = f[x]
    OBVIOUS
  <2>2. PICK n \in 1 .. Len(seq) : seq[n] = x
    BY <1>1
  <2>3. QED
    BY <1>3, <2>1, <2>2
<1> HIDE DEF T, image
<1>5. IsFiniteSet(T)
  BY <1>3, <1>4 DEF IsFiniteSet
<1>6. QED
  BY <1>5 DEF T

\* R, a set of pairs, compares any two and is transitive: one element is as good as any.
LEMMA FiniteBest ==
  ASSUME NEW S, IsFiniteSet(S), S # {}, NEW R,
         \A a, b \in S : <<a, b>> \in R \/ <<b, a>> \in R,
         \A a, b, c \in S : <<a, b>> \in R /\ <<b, c>> \in R => <<a, c>> \in R
  PROVE  \E w \in S : \A o \in S : <<w, o>> \in R
<1>1. PICK seq \in Seq(S) : \A s \in S : \E n \in 1 .. Len(seq) : seq[n] = s
  BY DEF IsFiniteSet
<1>2. Len(seq) \in Nat /\ Len(seq) >= 1 /\ \A n \in 1 .. Len(seq) : seq[n] \in S
  <2>1. PICK s \in S : TRUE
    OBVIOUS
  <2>2. QED
    BY <1>1, <2>1
<1> DEFINE bad == {i \in 1 .. Len(seq) : ~\E w \in S : \A j \in 1 .. i : <<w, seq[j]>> \in R}
<1>3. bad = {}
  <2>1. SUFFICES ASSUME bad # {} PROVE FALSE
    OBVIOUS
  <2>2. bad \subseteq Nat
    OBVIOUS
  <2> HIDE DEF bad
  <2>3. \E i \in bad : \A n \in bad : ~(<<n, i>> \in OpToRel(<, Nat))
    BY <2>1, <2>2, NatLessThanWellFounded, WFMin
  <2>4. PICK i \in bad : \A n \in bad : ~(<<n, i>> \in OpToRel(<, Nat))
    BY <2>3
  <2> USE DEF bad
  <2>5. i \in 1 .. Len(seq) /\ seq[i] \in S
    BY <1>2
  <2>6. \E w \in S : \A j \in 1 .. i : <<w, seq[j]>> \in R
    <3>1. CASE i = 1
      BY <2>5, <3>1
    <3>2. CASE i # 1
      <4>1. i - 1 \in 1 .. Len(seq) /\ i - 1 \in Nat /\ i \in Nat /\ i - 1 < i
        BY <1>2, <2>5, <3>2
      <4>2. i - 1 \notin bad
        BY <2>4, <4>1 DEF OpToRel
      <4>3. PICK w \in S : \A j \in 1 .. i - 1 : <<w, seq[j]>> \in R
        BY <4>1, <4>2
      <4>4. \A j \in 1 .. i : j = i \/ j \in 1 .. i - 1
        BY <4>1
      <4>5. CASE <<w, seq[i]>> \in R
        BY <4>3, <4>4, <4>5
      <4>6. CASE <<seq[i], w>> \in R
        <5>1. \A j \in 1 .. i - 1 : seq[j] \in S
          BY <1>2, <2>5
        <5>2. \A j \in 1 .. i - 1 : <<seq[i], seq[j]>> \in R
          BY <2>5, <4>3, <4>6, <5>1
        <5>3. <<seq[i], seq[i]>> \in R
          BY <2>5
        <5>4. QED
          BY <2>5, <4>4, <5>2, <5>3
      <4>7. QED
        BY <2>5, <4>5, <4>6
    <3>3. QED
      BY <3>1, <3>2
  <2>7. QED
    BY <2>6
<1>4. PICK w \in S : \A j \in 1 .. Len(seq) : <<w, seq[j]>> \in R
  <2>1. Len(seq) \in 1 .. Len(seq)
    BY <1>2
  <2> HIDE DEF bad
  <2>2. Len(seq) \notin bad
    BY <1>3
  <2> USE DEF bad
  <2>3. QED
    BY <2>1, <2>2
<1>5. QED
  BY <1>1, <1>4

-----------------------------------------------------------------------------
(* The clusters of the duplicates *)

LEMMA LinkedMutual == ASSUME NEW a, NEW b, Boot!Linked(a, b) PROVE Boot!Linked(b, a)
  BY DEF Boot!Linked

Closed(S) == {C \in SUBSET S : \A a \in C, b \in S \ C : ~Boot!Linked(a, b)}
ClusterOf(o, S) == {m \in S : \A C \in Closed(S) : o \in C => m \in C}

LEMMA ClustersAre == ASSUME NEW S PROVE Boot!Clusters(S) = {ClusterOf(o, S) : o \in S}
  BY DEF Boot!Clusters, ClusterOf, Closed

LEMMA ClusterIsClosed == ASSUME NEW S, NEW o \in S PROVE ClusterOf(o, S) \in Closed(S)
<1>1. ASSUME NEW a \in ClusterOf(o, S), NEW b \in S \ ClusterOf(o, S), Boot!Linked(a, b) PROVE FALSE
  <2>1. PICK C \in Closed(S) : o \in C /\ b \notin C
    BY DEF ClusterOf
  <2>2. a \in C /\ b \in S \ C
    BY <2>1 DEF ClusterOf
  <2>3. QED
    BY <1>1, <2>1, <2>2 DEF Closed
<1>2. QED
  BY <1>1 DEF Closed, ClusterOf

LEMMA RestIsClosed == ASSUME NEW S, NEW C \in Closed(S) PROVE S \ C \in Closed(S)
<1>1. ASSUME NEW a \in S \ C, NEW b \in S \ (S \ C), Boot!Linked(a, b) PROVE FALSE
  <2>1. b \in C /\ Boot!Linked(b, a)
    BY <1>1, LinkedMutual DEF Closed
  <2>2. QED
    BY <1>1, <2>1 DEF Closed
<1>2. QED
  BY <1>1 DEF Closed

\* Every object is in one cluster.
LEMMA ClustersPartition ==
  ASSUME NEW S, NEW o \in S, NEW m \in ClusterOf(o, S)
  PROVE  /\ o \in ClusterOf(o, S) /\ ClusterOf(o, S) \subseteq S
         /\ ClusterOf(m, S) = ClusterOf(o, S)
<1>1. m \in S
  BY DEF ClusterOf
<1>2. ASSUME NEW a \in S, NEW b \in ClusterOf(a, S) PROVE ClusterOf(b, S) \subseteq ClusterOf(a, S)
  <2>1. ClusterOf(a, S) \in Closed(S)
    BY ClusterIsClosed
  <2>2. QED
    BY <1>2, <2>1 DEF ClusterOf
<1>3. o \in ClusterOf(m, S)
  <2>1. SUFFICES ASSUME o \notin ClusterOf(m, S) PROVE FALSE
    OBVIOUS
  <2>2. S \ ClusterOf(m, S) \in Closed(S)
    BY <1>1, ClusterIsClosed, RestIsClosed
  <2>3. m \in S \ ClusterOf(m, S)
    BY <2>1, <2>2 DEF ClusterOf
  <2>4. m \in ClusterOf(m, S)
    BY <1>1 DEF ClusterOf
  <2>5. QED
    BY <2>3, <2>4
<1>4. QED
  BY <1>1, <1>2, <1>3 DEF ClusterOf

LEMMA BootCardinality == \A S : Boot!Cardinality(S) = Cardinality(S)
  BY DEF Boot!Cardinality, Cardinality

\* The objects before they are merged: numbers to compare them by, and no id twice.
Comparable(S) ==
  /\ IsFiniteSet(S) /\ \A a, b \in S : a.id = b.id => a = b
  /\ \A o \in S : {"id", "points"} \subseteq DOMAIN o /\ o.id \in Nat /\ o.points \in Nat

LEMMA WinnerWins == ASSUME NEW k, Comparable(k), k # {} PROVE Boot!Winner(k) \in k
<1> DEFINE R == {p \in k \X k : p[1].points > p[2].points \/ (p[1].points = p[2].points /\ p[1].id <= p[2].id)}
<1>1. \A a, b \in k : <<a, b>> \in R \/ <<b, a>> \in R
  BY DEF Comparable
<1>2. \A a, b, c \in k : <<a, b>> \in R /\ <<b, c>> \in R => <<a, c>> \in R
  BY DEF Comparable
<1> HIDE DEF R
<1>3. IsFiniteSet(k)
  BY DEF Comparable
<1>4. \E w \in k : \A o \in k : <<w, o>> \in R
  BY <1>1, <1>2, <1>3, FiniteBest
<1>5. \E w \in k : \A o \in k : w.points > o.points \/ (w.points = o.points /\ w.id <= o.id)
  BY <1>4 DEF R
<1>6. QED
  BY <1>5 DEF Boot!Winner

\* What a cluster becomes carries the id of its winner.
Becomes(k) == IF Boot!Cardinality(k) = 1 THEN CHOOSE o \in k : TRUE ELSE Boot!MergeCluster(k)

LEMMA BecomesWinner ==
  ASSUME NEW k, Comparable(k), k # {}
  PROVE  "id" \in DOMAIN Becomes(k) /\ Becomes(k).id = Boot!Winner(k).id
<1>1. Boot!Winner(k) \in k
  BY WinnerWins
<1>2. "id" \in DOMAIN Boot!Winner(k)
  BY <1>1 DEF Comparable
<1>3. CASE Boot!Cardinality(k) = 1
  <2>1. PICK x : k = {x}
    BY <1>3, BootCardinality, FS_Singleton DEF Comparable
  <2>2. (CHOOSE o \in k : TRUE) = x /\ Boot!Winner(k) = x
    BY <1>1, <2>1
  <2>3. QED
    BY <1>2, <1>3, <2>2 DEF Becomes
<1>4. CASE Boot!Cardinality(k) # 1
  <2>1. Becomes(k) = Boot!MergeCluster(k)
    BY <1>4 DEF Becomes
  <2> DEFINE w == Boot!Winner(k)
  <2> HIDE DEF w
  <2>2. \A c, h, b, t, p :
          LET e == [w EXCEPT !.cells = c, !.hull = h, !.bottom = b, !.top = t, !.points = p]
          IN DOMAIN e = DOMAIN w /\ ("id" \in DOMAIN w => e.id = w.id)
    OBVIOUS
  <2>3. DOMAIN Boot!MergeCluster(k) = DOMAIN w /\ ("id" \in DOMAIN w => Boot!MergeCluster(k).id = w.id)
    BY <2>2 DEF Boot!MergeCluster, w
  <2>4. QED
    BY <1>2, <2>1, <2>3 DEF w
<1>5. QED
  BY <1>3, <1>4

\* The ids before are those after and those merged away; none is twice.
LEMMA MergeAccounts ==
  ASSUME NEW S, Comparable(S)
  PROVE  LET after == Boot!MergeDuplicates(S)
         IN /\ \A o \in after : "id" \in DOMAIN o
            /\ \A a, b \in after : a.id = b.id => a = b
            /\ Boot!Ids(after) \cup Boot!MergedAway(S) = Boot!Ids(S)
            /\ Boot!Ids(after) \cap Boot!MergedAway(S) = {}
<1> DEFINE after == Boot!MergeDuplicates(S)
           clusters == Boot!Clusters(S)
<1>1. after = {Becomes(k) : k \in clusters}
  BY DEF Boot!MergeDuplicates, Becomes
<1>2. ASSUME NEW k \in clusters
      PROVE  /\ k # {} /\ k \subseteq S /\ Comparable(k) /\ Boot!Winner(k) \in k
             /\ \A m \in k : k = ClusterOf(m, S)
             /\ "id" \in DOMAIN Becomes(k) /\ Becomes(k).id = Boot!Winner(k).id
  <2>1. PICK o \in S : k = ClusterOf(o, S)
    BY ClustersAre
  <2>2. o \in k /\ k \subseteq S /\ \A m \in k : k = ClusterOf(m, S)
    BY <2>1, ClustersPartition DEF ClusterOf
  <2>3. Comparable(k)
    BY <2>2, FS_Subset DEF Comparable
  <2>4. QED
    BY <2>2, <2>3, WinnerWins, BecomesWinner
<1>3. \A o \in S : ClusterOf(o, S) \in clusters /\ o \in ClusterOf(o, S)
  BY ClustersAre DEF ClusterOf
<1>4. Boot!MergedAway(S) = UNION {{o.id : o \in k \ {Boot!Winner(k)}} : k \in clusters}
  BY DEF Boot!MergedAway
<1> HIDE DEF clusters, after
<1>5. \A o \in after : "id" \in DOMAIN o
  BY <1>1, <1>2
<1>6. ASSUME NEW a \in after, NEW b \in after, a.id = b.id PROVE a = b
  <2>1. PICK k \in clusters : a = Becomes(k)
    BY <1>1
  <2>2. PICK l \in clusters : b = Becomes(l)
    BY <1>1
  <2>3. Boot!Winner(k) = Boot!Winner(l) /\ Boot!Winner(k) \in k /\ Boot!Winner(l) \in l
    BY <1>2, <1>6, <2>1, <2>2 DEF Comparable
  <2>4. k = l
    BY <1>2, <2>3
  <2>5. QED
    BY <2>1, <2>2, <2>4
<1>7. ASSUME NEW id \in Boot!Ids(S) PROVE id \in Boot!Ids(after) \cup Boot!MergedAway(S)
  <2>1. PICK o \in S : id = o.id
    BY DEF Boot!Ids
  <2>2. PICK k \in clusters : o \in k
    BY <1>3
  <2>3. CASE o = Boot!Winner(k)
    <3>1. Becomes(k) \in after /\ Becomes(k).id = id
      BY <1>1, <1>2, <2>1, <2>2, <2>3
    <3>2. QED
      BY <3>1 DEF Boot!Ids
  <2>4. CASE o # Boot!Winner(k)
    BY <1>4, <2>1, <2>2, <2>4
  <2>5. QED
    BY <2>3, <2>4
<1>8. ASSUME NEW id \in Boot!Ids(after) PROVE id \in Boot!Ids(S) /\ id \notin Boot!MergedAway(S)
  <2>1. PICK k \in clusters : id = Becomes(k).id
    BY <1>1 DEF Boot!Ids
  <2>2. id = Boot!Winner(k).id /\ Boot!Winner(k) \in S /\ Boot!Winner(k) \in k
    BY <1>2, <2>1
  <2>3. id \in Boot!Ids(S)
    BY <2>2 DEF Boot!Ids
  <2>4. ASSUME NEW l \in clusters, NEW o \in l \ {Boot!Winner(l)}, id = o.id PROVE FALSE
    <3>1. o \in S
      BY <1>2, <2>4
    <3>2. o = Boot!Winner(k)
      BY <2>2, <2>4, <3>1 DEF Comparable
    <3>3. k = l
      BY <1>2, <2>2, <2>4, <3>2
    <3>4. QED
      BY <2>4, <3>2, <3>3
  <2>5. QED
    BY <1>4, <2>3, <2>4
<1>9. ASSUME NEW id \in Boot!MergedAway(S) PROVE id \in Boot!Ids(S)
  <2>1. PICK k \in clusters : \E o \in k : id = o.id
    BY <1>4
  <2>2. QED
    BY <1>2, <2>1 DEF Boot!Ids
<1>10. QED
  BY <1>5, <1>6, <1>7, <1>8, <1>9 DEF after

-----------------------------------------------------------------------------
(* The bootstrap's account of its objects *)

\* The stages of run_bootstrap that have not taken anything out yet.
Ahead(pc) ==
  CASE pc = "footprints" -> Boot!Stages
    [] pc = "merge" -> Boot!Stages \ {"overhead"}
    [] pc = "small" -> {"small", "outside", "floating", "capped"}
    [] pc = "room" -> {"outside", "floating", "capped"}
    [] pc = "support" -> {"floating", "capped"}
    [] pc = "caps" -> {"capped"}
    [] OTHER -> {}

Account ==
  /\ \A o \in bootObjs : "id" \in DOMAIN o
  /\ \A a, b \in bootObjs : a.id = b.id => a = b
  /\ Boot!Ids(bootObjs) \subseteq Boot!Ids(bootScan.objects)
  /\ \A id \in Boot!Ids(bootObjs) : \A s \in Boot!Stages : id \notin bootOut[s]
  /\ \A id \in Boot!Ids(bootScan.objects) \ Boot!Ids(bootObjs) :
       \E s \in Boot!Stages : id \in bootOut[s] /\ \A t \in Boot!Stages : id \in bootOut[t] => t = s

BootInv ==
  /\ bootScan \in Scans /\ bootOut = [s \in Boot!Stages |-> bootOut[s]]
  /\ bootPc # "idle" => \A s \in Ahead(bootPc) : bootOut[s] = {}
  /\ bootPc = "merge" => Comparable(bootObjs)
  /\ bootPc \notin {"idle", "footprints"} => Account

\* A stage that has not run yet takes some of the objects out and says which.
LEMMA TakenOnce ==
  ASSUME Account, bootOut = [s \in Boot!Stages |-> bootOut[s]], bootScan' = bootScan,
         NEW stage \in Boot!Stages, bootOut[stage] = {}, NEW ids, Boot!Took(stage, ids),
         \A o \in bootObjs' : "id" \in DOMAIN o,
         \A a, b \in bootObjs' : a.id = b.id => a = b,
         Boot!Ids(bootObjs') \cup ids = Boot!Ids(bootObjs), Boot!Ids(bootObjs') \cap ids = {}
  PROVE  Account'
<1>1. /\ DOMAIN bootOut = Boot!Stages /\ bootOut'[stage] = ids
      /\ \A s \in Boot!Stages \ {stage} : bootOut'[s] = bootOut[s]
  BY DEF Boot!Took
<1>2. ASSUME NEW id \in Boot!Ids(bootObjs'), NEW s \in Boot!Stages PROVE id \notin bootOut'[s]
  <2>1. id \in Boot!Ids(bootObjs) /\ id \notin ids
    OBVIOUS
  <2>2. QED
    BY <1>1, <2>1 DEF Account
<1>3. ASSUME NEW id \in Boot!Ids(bootScan'.objects) \ Boot!Ids(bootObjs')
      PROVE  \E s \in Boot!Stages : id \in bootOut'[s] /\ \A t \in Boot!Stages : id \in bootOut'[t] => t = s
  <2>1. CASE id \in Boot!Ids(bootObjs)
    <3>1. id \in ids /\ \A t \in Boot!Stages : id \notin bootOut[t]
      BY <2>1 DEF Account
    <3>2. QED
      BY <1>1, <3>1
  <2>2. CASE id \notin Boot!Ids(bootObjs)
    <3>1. PICK s \in Boot!Stages : id \in bootOut[s] /\ \A t \in Boot!Stages : id \in bootOut[t] => t = s
      BY <2>2 DEF Account
    <3>2. s # stage /\ id \notin ids
      BY <2>2, <3>1
    <3>3. QED
      BY <1>1, <3>1, <3>2
  <2>3. QED
    BY <2>1, <2>2
<1>4. Boot!Ids(bootObjs') \subseteq Boot!Ids(bootScan'.objects)
  BY DEF Account
<1>5. Boot!Ids(bootObjs') = Boot!Ids(bootObjs)' /\ Boot!Ids(bootScan'.objects) = Boot!Ids(bootScan.objects)'
  BY DEF Boot!Ids
<1>6. QED
  BY <1>2, <1>3, <1>4, <1>5 DEF Account

\* A stage that keeps some of the objects as they are.
LEMMA FilterAccounts ==
  ASSUME Account, bootOut = [s \in Boot!Stages |-> bootOut[s]], bootScan' = bootScan,
         NEW stage \in Boot!Stages, bootOut[stage] = {},
         bootObjs' \subseteq bootObjs, Boot!Took(stage, Boot!Ids(bootObjs \ bootObjs'))
  PROVE  Account'
<1>1. \A o \in bootObjs' : "id" \in DOMAIN o
  BY DEF Account
<1>2. \A a, b \in bootObjs' : a.id = b.id => a = b
  BY DEF Account
<1>3. Boot!Ids(bootObjs') \cup Boot!Ids(bootObjs \ bootObjs') = Boot!Ids(bootObjs)
  BY DEF Boot!Ids
<1>4. Boot!Ids(bootObjs') \cap Boot!Ids(bootObjs \ bootObjs') = {}
  BY DEF Boot!Ids, Account
<1>5. QED
  BY <1>1, <1>2, <1>3, <1>4, TakenOnce

\* The objects of a scene that are not overhead.
LEMMA FootprintsAccount ==
  ASSUME NEW scan \in Scans
  PROVE  LET all == scan.objects
             low == Boot!Footprints(all)
             high == Boot!Ids({o \in all : o.bottom >= Overhead})
         IN /\ Comparable(low) /\ Boot!Ids(low) \cup high = Boot!Ids(all) /\ Boot!Ids(low) \cap high = {}
<1> DEFINE all == scan.objects
           under == {o \in all : o.bottom < Overhead}
           lowered == [o \in under |-> [o EXCEPT !.cells = Boot!BackfillToWalls(@)]]
           low == Boot!Footprints(all)
<1>1. /\ IsFiniteSet(all) /\ Overhead \in Int
      /\ \A o \in all : {"id", "points"} \subseteq DOMAIN o /\ o.id \in Nat /\ o.points \in Nat /\ o.bottom \in Int
      /\ \A a, b \in all : a.id = b.id => a = b
  BY ScansAssumption
<1>2. low = {lowered[o] : o \in under}
  BY DEF Boot!Footprints
<1>3. \A o \in under : /\ {"id", "points"} \subseteq DOMAIN lowered[o]
                       /\ lowered[o].id = o.id /\ lowered[o].points = o.points
  BY <1>1
<1>4. IsFiniteSet(under) /\ under \subseteq all
  BY <1>1, FS_Subset
<1> HIDE DEF lowered, low
<1>5. IsFiniteSet(low)
  BY <1>2, <1>4, FiniteImage
<1>6. Comparable(low)
  BY <1>1, <1>2, <1>3, <1>4, <1>5 DEF Comparable
<1>7. Boot!Ids(low) = {o.id : o \in under}
  BY <1>2, <1>3 DEF Boot!Ids
<1>8. \A o \in all : o.bottom < Overhead \/ o.bottom >= Overhead
  BY <1>1
<1>9. \A o \in under : ~(o.bottom >= Overhead)
  BY <1>1
<1>10. QED
  BY <1>1, <1>6, <1>7, <1>8, <1>9 DEF Boot!Ids, low

LEMMA InitBootInv == Boot!Init => BootInv
  BY DEF Boot!Init, BootInv

LEMMA StagesAhead ==
  /\ Boot!Stages = {"overhead", "merged", "small", "outside", "floating", "capped"}
  /\ \A pc : pc \notin {"footprints", "merge", "small", "room", "support", "caps"} => Ahead(pc) = {}
  BY DEF Boot!Stages, Ahead

\* What the other stages have taken out stays as it is.
LEMMA TookTyped ==
  ASSUME bootOut = [s \in Boot!Stages |-> bootOut[s]], NEW stage \in Boot!Stages, NEW ids, Boot!Took(stage, ids)
  PROVE  /\ bootOut' = [s \in Boot!Stages |-> bootOut'[s]]
         /\ \A s \in Boot!Stages \ {stage} : bootOut'[s] = bootOut[s]
  BY DEF Boot!Took

\* The writing stages follow each other to the end of the run.
LEMMA AfterWrites ==
  \A a \in Boot!Range(Boot!Order) :
    /\ a \in {"cameras", "gaps", "meta", "glb", "plan", "usd", "render", "report", "objects"}
    /\ Boot!After(a) \in {"idle", "cameras", "gaps", "meta", "glb", "plan", "usd", "render", "report", "objects"}
<1> SUFFICES ASSUME NEW a \in Boot!Range(Boot!Order)
             PROVE  /\ a \in {"cameras", "gaps", "meta", "glb", "plan", "usd", "render", "report", "objects"}
                    /\ Boot!After(a) \in {"idle", "cameras", "gaps", "meta", "glb", "plan", "usd", "render",
                                          "report", "objects"}
  OBVIOUS
<1>1. a \in {"cameras", "gaps", "meta", "glb", "plan", "usd", "render", "report", "objects"}
  BY DEF Boot!Range, Boot!Order
<1>2. PICK i \in 1 .. 9 : Boot!Order[i] = a
  BY <1>1 DEF Boot!Order
<1>3. DOMAIN Boot!Order = 1 .. 9 /\ Len(Boot!Order) = 9
  BY DEF Boot!Order
<1> DEFINE j == CHOOSE j \in 1 .. 9 : Boot!Order[j] = a
<1>4. j \in 1 .. 9
  BY <1>2
<1> HIDE DEF j
<1>5. Boot!After(a) = IF j = 9 THEN "idle" ELSE Boot!Order[j + 1]
  BY <1>3 DEF Boot!After, j
<1>6. Boot!After(a) \in {"idle", "cameras", "gaps", "meta", "glb", "plan", "usd", "render", "report", "objects"}
  BY <1>4, <1>5 DEF Boot!Order
<1>7. QED
  BY <1>1, <1>6

LEMMA StepBootInv == ASSUME BootInv, [Boot!Next]_bootVars PROVE BootInv'
<1> DEFINE Typed == bootScan \in Scans /\ bootOut = [s \in Boot!Stages |-> bootOut[s]]
<1>0. Typed
  BY DEF BootInv
<1>1. CASE Boot!Start
  <2>1. /\ bootScan' \in Scans /\ bootOut' = [s \in Boot!Stages |-> {}]
        /\ bootPc' \in {"idle", "footprints"}
    BY <1>1 DEF Boot!Start
  <2>2. QED
    BY <2>1 DEF BootInv, Ahead
<1>2. CASE Boot!ComputeFootprints
  <2> DEFINE low == Boot!Footprints(bootScan.objects)
             high == Boot!Ids({o \in bootScan.objects : o.bottom >= Overhead})
  <2>1. /\ bootPc = "footprints" /\ bootPc' = "merge" /\ bootScan' = bootScan
        /\ bootObjs' = low /\ Boot!Took("overhead", high)
    BY <1>2 DEF Boot!ComputeFootprints, Boot!Ids
  <2>2. /\ Comparable(low) /\ Boot!Ids(low) \cup high = Boot!Ids(bootScan.objects)
        /\ Boot!Ids(low) \cap high = {}
    BY <1>0, FootprintsAccount
  <2> HIDE DEF low, high
  <2>3. \A s \in Boot!Stages : bootOut[s] = {}
    BY <2>1 DEF BootInv, Ahead
  <2>4. bootOut' = [s \in Boot!Stages |-> IF s = "overhead" THEN high ELSE {}]
    BY <1>0, <2>1, <2>3, StagesAhead DEF Boot!Took
  <2>5. /\ \A id \in Boot!Ids(low) : \A s \in Boot!Stages : id \notin bootOut'[s]
        /\ \A id \in high : id \in bootOut'["overhead"] /\ \A t \in Boot!Stages : id \in bootOut'[t] => t = "overhead"
    BY <2>2, <2>4, StagesAhead
  <2>6. \A id \in Boot!Ids(bootScan.objects) \ Boot!Ids(low) : id \in high
    BY <2>2
  <2>7. Boot!Ids(bootObjs)' = Boot!Ids(low) /\ Boot!Ids(bootScan.objects)' = Boot!Ids(bootScan.objects)
    BY <2>1 DEF Boot!Ids
  <2>8. \A o \in low : "id" \in DOMAIN o
    BY <2>2 DEF Comparable
  <2>9. \A a, b \in low : a.id = b.id => a = b
    BY <2>2 DEF Comparable
  <2>10. Boot!Ids(low) \subseteq Boot!Ids(bootScan.objects)
    BY <2>2
  <2>11. "overhead" \in Boot!Stages
    BY StagesAhead
  <2>12. Account'
    BY <2>1, <2>5, <2>6, <2>7, <2>8, <2>9, <2>10, <2>11 DEF Account
  <2>13. \A s \in Ahead(bootPc') : bootOut'[s] = {}
    BY <2>1, <2>4 DEF Ahead
  <2>14. Comparable(bootObjs')
    BY <2>1, <2>2
  <2>15. QED
    BY <1>0, <2>1, <2>4, <2>12, <2>13, <2>14 DEF BootInv, Comparable
<1>3. CASE Boot!Merge
  <2>1. /\ bootPc = "merge" /\ bootPc' = "small" /\ bootScan' = bootScan
        /\ bootObjs' = Boot!MergeDuplicates(bootObjs) /\ Boot!Took("merged", Boot!MergedAway(bootObjs))
    BY <1>3 DEF Boot!Merge
  <2>2. Account /\ Comparable(bootObjs) /\ \A s \in Ahead("merge") : bootOut[s] = {}
    BY <2>1 DEF BootInv
  <2>3. /\ \A o \in bootObjs' : "id" \in DOMAIN o
        /\ \A a, b \in bootObjs' : a.id = b.id => a = b
        /\ Boot!Ids(bootObjs') \cup Boot!MergedAway(bootObjs) = Boot!Ids(bootObjs)
        /\ Boot!Ids(bootObjs') \cap Boot!MergedAway(bootObjs) = {}
    BY <2>1, <2>2, MergeAccounts
  <2>4. "merged" \in Boot!Stages /\ bootOut["merged"] = {}
    BY <2>2, StagesAhead DEF Ahead
  <2>5. Account'
    BY <1>0, <2>1, <2>2, <2>3, <2>4, TakenOnce
  <2>6. \A s \in Ahead("small") : s \in Boot!Stages \ {"merged"} /\ bootOut[s] = {}
    BY <2>2, StagesAhead DEF Ahead
  <2>7. QED
    BY <1>0, <2>1, <2>4, <2>5, <2>6, TookTyped DEF BootInv
<1>4. CASE Boot!DropSmall
  <2>1. /\ bootPc = "small" /\ bootPc' = "room" /\ bootScan' = bootScan
        /\ bootObjs' \subseteq bootObjs /\ Boot!Took("small", Boot!Ids(bootObjs \ bootObjs'))
    BY <1>4 DEF Boot!DropSmall, Boot!SmallKept
  <2>2. Account /\ "small" \in Boot!Stages /\ \A s \in Ahead("small") : bootOut[s] = {}
    BY <2>1, StagesAhead DEF BootInv
  <2>3. bootOut["small"] = {} /\ \A s \in Ahead("room") : s \in Boot!Stages \ {"small"} /\ bootOut[s] = {}
    BY <2>2, StagesAhead DEF Ahead
  <2>4. Account'
    BY <1>0, <2>1, <2>2, <2>3, FilterAccounts
  <2>5. QED
    BY <1>0, <2>1, <2>2, <2>3, <2>4, TookTyped DEF BootInv
<1>5. CASE Boot!DropOutside
  <2> DEFINE kept == {o \in bootObjs : ~Boot!Outside(o, bootRoom')}
             gone == {o \in bootObjs : Boot!Outside(o, bootRoom')}
  <2>1. /\ bootPc = "room" /\ bootPc' = "support" /\ bootScan' = bootScan
        /\ bootObjs' = {Boot!ClipObject(o, bootRoom') : o \in kept} /\ Boot!Took("outside", Boot!Ids(gone))
    BY <1>5 DEF Boot!DropOutside
  <2>2. Account /\ "outside" \in Boot!Stages /\ \A s \in Ahead("room") : bootOut[s] = {}
    BY <2>1, StagesAhead DEF BootInv
  <2>3. bootOut["outside"] = {} /\ \A s \in Ahead("support") : s \in Boot!Stages \ {"outside"} /\ bootOut[s] = {}
    BY <2>2, StagesAhead DEF Ahead
  <2>4. ASSUME NEW o \in bootObjs
        PROVE  "id" \in DOMAIN Boot!ClipObject(o, bootRoom') /\ Boot!ClipObject(o, bootRoom').id = o.id
    <3>1. "id" \in DOMAIN o
      BY <2>2 DEF Account
    <3>2. QED
      BY <3>1 DEF Boot!ClipObject
  <2>5. \A o \in bootObjs' : "id" \in DOMAIN o
    BY <2>1, <2>4
  <2>6. \A a, b \in bootObjs' : a.id = b.id => a = b
    BY <2>1, <2>2, <2>4 DEF Account
  <2>7. Boot!Ids(bootObjs') = {o.id : o \in kept}
    BY <2>1, <2>4 DEF Boot!Ids
  <2>8. Boot!Ids(bootObjs') \cup Boot!Ids(gone) = Boot!Ids(bootObjs)
    BY <2>7 DEF Boot!Ids
  <2>9. Boot!Ids(bootObjs') \cap Boot!Ids(gone) = {}
    BY <2>2, <2>7 DEF Boot!Ids, Account
  <2> HIDE DEF kept, gone
  <2>10. Account'
    BY <1>0, <2>1, <2>2, <2>3, <2>5, <2>6, <2>8, <2>9, TakenOnce
  <2>11. QED
    BY <1>0, <2>1, <2>2, <2>3, <2>10, TookTyped DEF BootInv
<1>6. CASE Boot!DropFloating
  <2>1. /\ bootPc = "support" /\ bootPc' = "caps" /\ bootScan' = bootScan
        /\ bootObjs' \subseteq bootObjs /\ Boot!Took("floating", Boot!Ids(bootObjs \ bootObjs'))
    BY <1>6 DEF Boot!DropFloating, Boot!SupportRule
  <2>2. Account /\ "floating" \in Boot!Stages /\ \A s \in Ahead("support") : bootOut[s] = {}
    BY <2>1, StagesAhead DEF BootInv
  <2>3. bootOut["floating"] = {} /\ \A s \in Ahead("caps") : s \in Boot!Stages \ {"floating"} /\ bootOut[s] = {}
    BY <2>2, StagesAhead DEF Ahead
  <2>4. Account'
    BY <1>0, <2>1, <2>2, <2>3, FilterAccounts
  <2>5. QED
    BY <1>0, <2>1, <2>2, <2>3, <2>4, TookTyped DEF BootInv
<1>7. CASE Boot!CapClasses
  <2>1. /\ bootPc = "caps" /\ bootPc' = "measure" /\ bootScan' = bootScan
        /\ bootObjs' \subseteq bootObjs /\ Boot!Took("capped", Boot!Ids(bootObjs \ bootObjs'))
    BY <1>7 DEF Boot!CapClasses, Boot!ClassCaps
  <2>2. Account /\ "capped" \in Boot!Stages /\ bootOut["capped"] = {}
    BY <2>1, StagesAhead DEF BootInv, Ahead
  <2>3. Account'
    BY <1>0, <2>1, <2>2, FilterAccounts
  <2>4. Ahead("measure") = {}
    BY StagesAhead
  <2>5. QED
    BY <1>0, <2>1, <2>2, <2>3, <2>4, TookTyped DEF BootInv
<1>8. ASSUME UNCHANGED <<bootScan, bootObjs, bootOut>>, bootPc' # "footprints", bootPc' # "merge",
             Ahead(bootPc') = {}, bootPc' # "idle" => bootPc \notin {"idle", "footprints"}
      PROVE  BootInv'
  <2>1. Account => Account'
    BY <1>8 DEF Account, Boot!Ids
  <2>2. QED
    BY <1>8, <2>1 DEF BootInv
<1>9. CASE Boot!MeasureGaps
  <2>1. bootPc = "measure" /\ bootPc' = "rotate" /\ UNCHANGED <<bootScan, bootObjs, bootOut>>
    BY <1>9 DEF Boot!MeasureGaps
  <2>2. QED
    BY <1>8, <2>1, StagesAhead
<1>10. CASE Boot!Rotate
  <2>1. bootPc = "rotate" /\ bootPc' = "cameras" /\ UNCHANGED <<bootScan, bootObjs, bootOut>>
    BY <1>10 DEF Boot!Rotate
  <2>2. QED
    BY <1>8, <2>1, StagesAhead
<1>11. ASSUME NEW a \in Boot!Range(Boot!Order), Boot!Write(a) PROVE BootInv'
  <2>1. bootPc = a /\ bootPc' \in {"idle", Boot!After(a)} /\ UNCHANGED <<bootScan, bootObjs, bootOut>>
    BY <1>11 DEF Boot!Write
  <2>2. QED
    BY <1>8, <2>1, AfterWrites, StagesAhead
<1>12. CASE UNCHANGED bootVars
  BY <1>12 DEF bootVars, BootInv, Account, Comparable, Boot!Ids
<1>13. QED
  BY <1>1, <1>2, <1>3, <1>4, <1>5, <1>6, <1>7, <1>9, <1>10, <1>11, <1>12 DEF Boot!Next

LEMMA StepOfBoot == [Next]_vars => [Boot!Next]_bootVars
  BY DEF Next, vars, bootVars

LEMMA AccountCounts == ASSUME BootInv PROVE EveryObjectAccounted
<1> SUFFICES ASSUME bootPc \notin {"idle", "footprints"}, NEW id \in Boot!Ids(bootScan.objects)
             PROVE  Boot!Cardinality({s \in Boot!Stages : id \in bootOut[s]})
                      = IF id \in Boot!Ids(bootObjs) THEN 0 ELSE 1
  BY DEF EveryObjectAccounted, Boot!EveryObjectAccounted
<1>1. Account
  BY DEF BootInv
<1>2. CASE id \in Boot!Ids(bootObjs)
  <2>1. {s \in Boot!Stages : id \in bootOut[s]} = {}
    BY <1>1, <1>2 DEF Account
  <2>2. QED
    BY <1>2, <2>1, FS_EmptySet, BootCardinality
<1>3. CASE id \notin Boot!Ids(bootObjs)
  <2>1. PICK s \in Boot!Stages : id \in bootOut[s] /\ \A t \in Boot!Stages : id \in bootOut[t] => t = s
    BY <1>1, <1>3 DEF Account
  <2>2. {t \in Boot!Stages : id \in bootOut[t]} = {s}
    BY <2>1
  <2>3. QED
    BY <1>3, <2>2, FS_Singleton, BootCardinality
<1>4. QED
  BY <1>2, <1>3

(* Whatever the scene, the room and the thresholds, and however often the bootstrap runs over its
   directory, each object of the scene is in the list or was recorded by exactly one stage. *)
THEOREM ObjectsAccounted == Spec => []EveryObjectAccounted
<1>1. Init => BootInv
  BY InitBootInv DEF Init
<1>2. BootInv /\ [Next]_vars => BootInv'
  BY StepOfBoot, StepBootInv
<1>3. QED
  BY <1>1, <1>2, AccountCounts, PTL DEF Spec

-----------------------------------------------------------------------------
(* Numbering: cells, components and walls *)

\* What is asked of ndimage.label.
LabelsParts == \A S \in SUBSET (Int \X Int) : IsFiniteSet(S) => PiecesAreParts(S)

LEMMA BootMin == ASSUME NEW S \in SUBSET Nat, S # {} PROVE Boot!Min(S) \in S /\ \A n \in S : Boot!Min(S) <= n
<1>1. \E m \in S : \A n \in S : ~(<<n, m>> \in OpToRel(<, Nat))
  BY NatLessThanWellFounded, WFMin
<1>2. \E m \in S : \A n \in S : m <= n
  <2>1. PICK m \in S : \A n \in S : ~(<<n, m>> \in OpToRel(<, Nat))
    BY <1>1
  <2>2. ASSUME NEW n \in S PROVE m <= n
    <3>1. m \in Nat /\ n \in Nat
      OBVIOUS
    <3>2. ~(n < m)
      BY <2>1, <3>1 DEF OpToRel
    <3>3. QED
      BY <3>1, <3>2
  <2>3. QED
    BY <2>2
<1>3. QED
  BY <1>2 DEF Boot!Min

LEMMA FewerElements ==
  ASSUME NEW S, IsFiniteSet(S), NEW A \in SUBSET S, NEW x \in S, x \notin A
  PROVE  Boot!Cardinality(A) \in Nat /\ Boot!Cardinality(S) \in Nat /\ Boot!Cardinality(A) < Boot!Cardinality(S)
<1>1. /\ IsFiniteSet(A) /\ Cardinality(A) <= Cardinality(S)
      /\ Cardinality(S) = Cardinality(A) => S = A
  BY FS_Subset
<1>2. Cardinality(A) \in Nat /\ Cardinality(S) \in Nat
  BY <1>1, FS_CardinalityType
<1>3. S # A
  OBVIOUS
<1>4. QED
  BY <1>1, <1>2, <1>3, BootCardinality

\* Two indices of the kept walls are exported under two numbers, below the number of the kept.
LEMMA RanksDiffer ==
  ASSUME NEW kept \in SUBSET Nat, IsFiniteSet(kept), NEW i \in kept
  PROVE  /\ Boot!RankIn(kept, i) \in 0 .. Boot!Cardinality(kept) - 1
         /\ Boot!WallAt(kept, Boot!RankIn(kept, i)) = i
<1>1. ASSUME NEW a \in kept, NEW b \in kept, a < b PROVE Boot!RankIn(kept, a) < Boot!RankIn(kept, b)
  <2> DEFINE A == {j \in kept : j < a}
             B == {j \in kept : j < b}
  <2>1. A \in SUBSET B /\ a \in B /\ a \notin A
    <3>1. a \in Nat /\ b \in Nat /\ \A j \in kept : j \in Nat
      OBVIOUS
    <3>2. ~(a < a) /\ \A j \in kept : j < a => j < b
      BY <1>1, <3>1
    <3>3. QED
      BY <1>1, <3>2
  <2>2. IsFiniteSet(B)
    BY FS_Subset
  <2> HIDE DEF A, B
  <2>3. Boot!Cardinality(A) < Boot!Cardinality(B)
    BY <2>1, <2>2, FewerElements
  <2>4. QED
    BY <2>3 DEF A, B, Boot!RankIn
<1>2. \A a \in kept : /\ Boot!RankIn(kept, a) \in Nat /\ Boot!Cardinality(kept) \in Nat
                      /\ Boot!RankIn(kept, a) < Boot!Cardinality(kept)
  <2> TAKE a \in kept
  <2> DEFINE A == {j \in kept : j < a}
  <2>1. A \in SUBSET kept /\ a \notin A
    OBVIOUS
  <2> HIDE DEF A
  <2>2. Boot!Cardinality(A) \in Nat /\ Boot!Cardinality(kept) \in Nat /\ Boot!Cardinality(A) < Boot!Cardinality(kept)
    BY <2>1, FewerElements
  <2>3. QED
    BY <2>2 DEF A, Boot!RankIn
<1>3. \A a \in kept : Boot!RankIn(kept, a) = Boot!RankIn(kept, i) => a = i
  BY <1>1, <1>2
<1>4. QED
  BY <1>2, <1>3 DEF Boot!WallAt

LEMMA CellsFinite ==
  /\ IsFiniteSet(Boot!Cells) /\ Boot!Cells \subseteq Int \X Int
  /\ \A S \in SUBSET Boot!Cells : IsFiniteSet(S)
<1>1. RoomW \in Nat /\ RoomH \in Nat
  BY ScansAssumption
<1>2. IsFiniteSet(0 .. RoomW - 1) /\ IsFiniteSet(0 .. RoomH - 1)
  BY <1>1, FS_Interval
<1>3. IsFiniteSet(Boot!Cells)
  BY <1>2, FS_Product DEF Boot!Cells
<1>4. QED
  BY <1>1, <1>3, FS_Subset DEF Boot!Cells

\* The number under which a cell is met is its own.
LEMMA CodesDiffer ==
  ASSUME NEW c \in Boot!Cells, NEW d \in Boot!Cells
  PROVE  /\ c[1] * (RoomH + 100) + c[2] \in Nat
         /\ c[1] * (RoomH + 100) + c[2] = d[1] * (RoomH + 100) + d[2] => c = d
<1> DEFINE m == RoomH + 100
<1>1. RoomW \in Nat /\ RoomH \in Nat
  BY ScansAssumption
<1>2. /\ c[1] \in Nat /\ c[2] \in Nat /\ d[1] \in Nat /\ d[2] \in Nat /\ m \in Nat
      /\ c[2] < m /\ d[2] < m /\ c = <<c[1], c[2]>> /\ d = <<d[1], d[2]>>
  BY <1>1 DEF Boot!Cells
<1>3. \A a, b, n \in Nat : a < b => a * n + n <= b * n
  <2> TAKE a, b, n \in Nat
  <2> HAVE a < b
  <2> DEFINE k == b - a - 1
  <2>1. k \in Nat /\ b = a + 1 + k
    OBVIOUS
  <2> HIDE DEF k
  <2>2. b * n = a * n + n + k * n /\ k * n \in Nat /\ a * n \in Nat
    BY <2>1
  <2>3. QED
    BY <2>2
<1> HIDE DEF m
<1>4. c[1] * m \in Nat /\ d[1] * m \in Nat
  BY <1>2
<1>5. ASSUME c[1] * m + c[2] = d[1] * m + d[2] PROVE c = d
  <2>1. ~(c[1] < d[1])
    BY <1>2, <1>3, <1>4, <1>5
  <2>2. ~(d[1] < c[1])
    BY <1>2, <1>3, <1>4, <1>5
  <2>3. c[1] = d[1]
    BY <1>2, <2>1, <2>2
  <2>4. c[2] = d[2]
    BY <1>2, <1>4, <1>5, <2>3
  <2>5. QED
    BY <1>2, <2>3, <2>4
<1>6. c[1] * m + c[2] \in Nat
  BY <1>2, <1>4
<1>7. QED
  BY <1>5, <1>6 DEF m

LEMMA FirstCellIsIn ==
  ASSUME NEW S \in SUBSET Boot!Cells, S # {}
  PROVE  /\ Boot!FirstCell(S) \in Nat
         /\ \E c \in S : Boot!FirstCell(S) = c[1] * (RoomH + 100) + c[2]
<1> DEFINE codes == {c[1] * (RoomH + 100) + c[2] : c \in S}
<1>1. codes \in SUBSET Nat /\ codes # {}
  BY CodesDiffer
<1>2. Boot!FirstCell(S) = Boot!Min(codes)
  BY DEF Boot!FirstCell
<1> HIDE DEF codes
<1>3. Boot!FirstCell(S) \in codes
  BY <1>1, <1>2, BootMin
<1>4. QED
  BY <1>1, <1>3 DEF codes

\* The components of a set of cells, as ndimage.label gives them.
LEMMA Labelled ==
  ASSUME LabelsParts, NEW S \in SUBSET Boot!Cells
  PROVE  /\ IsFiniteSet(PartsOf(S)) /\ UNION PartsOf(S) = S
         /\ \A C \in PartsOf(S) : /\ C # {} /\ C \subseteq S /\ IsFiniteSet(C)
                                     /\ Boot!FirstCell(C) \in Nat
         /\ \A C, D \in PartsOf(S) : Boot!FirstCell(C) = Boot!FirstCell(D) => C = D
<1>1. PiecesAreParts(S)
  BY CellsFinite DEF LabelsParts
<1>2. \A C \in PartsOf(S) : C # {} /\ C \subseteq S
  BY <1>1 DEF PiecesAreParts
<1>3. UNION PartsOf(S) = S
  BY <1>1 DEF PiecesAreParts
<1>4. IsFiniteSet(SUBSET S)
  BY CellsFinite, FS_SUBSET
<1>5. IsFiniteSet(PartsOf(S))
  BY <1>2, <1>4, FS_Subset
<1>6. \A C \in PartsOf(S) : IsFiniteSet(C) /\ Boot!FirstCell(C) \in Nat
  BY <1>2, CellsFinite, FirstCellIsIn
<1>7. ASSUME NEW C \in PartsOf(S), NEW D \in PartsOf(S), Boot!FirstCell(C) = Boot!FirstCell(D)
      PROVE  C = D
  <2>1. PICK c \in C : Boot!FirstCell(C) = c[1] * (RoomH + 100) + c[2]
    BY <1>2, FirstCellIsIn
  <2>2. PICK d \in D : Boot!FirstCell(D) = d[1] * (RoomH + 100) + d[2]
    BY <1>2, FirstCellIsIn
  <2>3. c \in Boot!Cells /\ d \in Boot!Cells
    BY <1>2
  <2>4. c = d
    BY <1>7, <2>1, <2>2, <2>3, CodesDiffer
  <2>5. QED
    BY <1>1, <2>4 DEF PiecesAreParts
<1>8. QED
  BY <1>2, <1>3, <1>5, <1>6, <1>7

LEMMA LargestIsIn ==
  ASSUME NEW comps, IsFiniteSet(comps), comps # {},
         \A C \in comps : IsFiniteSet(C) /\ Boot!FirstCell(C) \in Nat
  PROVE  Boot!LargestOf(comps) \in comps
<1> DEFINE R == {p \in comps \X comps : \/ Boot!Cardinality(p[1]) > Boot!Cardinality(p[2])
                                        \/ /\ Boot!Cardinality(p[1]) = Boot!Cardinality(p[2])
                                           /\ Boot!FirstCell(p[1]) <= Boot!FirstCell(p[2])}
<1>1. \A C \in comps : Boot!Cardinality(C) \in Nat /\ Boot!FirstCell(C) \in Nat
  BY FS_CardinalityType, BootCardinality
<1>2. \A a, b \in comps : <<a, b>> \in R \/ <<b, a>> \in R
  BY <1>1
<1>3. \A a, b, c \in comps : <<a, b>> \in R /\ <<b, c>> \in R => <<a, c>> \in R
  BY <1>1
<1> HIDE DEF R
<1>4. \E w \in comps : \A o \in comps : <<w, o>> \in R
  BY <1>2, <1>3, FiniteBest
<1>5. \E w \in comps : \A o \in comps :
        \/ Boot!Cardinality(w) > Boot!Cardinality(o)
        \/ Boot!Cardinality(w) = Boot!Cardinality(o) /\ Boot!FirstCell(w) <= Boot!FirstCell(o)
  BY <1>4 DEF R
<1>6. QED
  BY <1>5 DEF Boot!LargestOf

-----------------------------------------------------------------------------
(* The walls that are exported *)

LEMMA WallComponentsTyped ==
  ASSUME LabelsParts, bootScan \in Scans
  PROVE  /\ IsFiniteSet(Boot!WallComponents)
         /\ \A C \in Boot!WallComponents : /\ C # {} /\ C \subseteq Boot!Cells /\ IsFiniteSet(C)
                                           /\ Boot!FirstCell(C) \in Nat
         /\ \A C, D \in Boot!WallComponents : Boot!FirstCell(C) = Boot!FirstCell(D) => C = D
<1>1. bootScan.obstacle \in SUBSET Boot!Cells
  BY ScansAssumption
<1>2. Boot!WallComponents \subseteq PartsOf(bootScan.obstacle)
  BY DEF Boot!WallComponents
<1>3. QED
  BY <1>1, <1>2, Labelled, FS_Subset

\* Labelled a second time, a component is counted as it was.
LEMMA WallOfIndex ==
  ASSUME LabelsParts, bootScan \in Scans, NEW comp \in Boot!WallComponents
  PROVE  /\ Boot!ComponentIndex(comp) \in DOMAIN Boot!ExtractWalls
         /\ Boot!ExtractWalls[Boot!ComponentIndex(comp)] = comp
<1> DEFINE all == Boot!WallComponents
           First(C) == {x \in all : Boot!FirstCell(x) < Boot!FirstCell(C)}
<1>1. /\ IsFiniteSet(all) /\ \A C \in all : Boot!FirstCell(C) \in Nat
      /\ \A C, D \in all : Boot!FirstCell(C) = Boot!FirstCell(D) => C = D
  BY WallComponentsTyped
<1>2. ASSUME NEW C \in all, NEW D \in all, Boot!FirstCell(C) < Boot!FirstCell(D)
      PROVE  Boot!ComponentIndex(C) < Boot!ComponentIndex(D)
  <2>1. First(C) \in SUBSET First(D) /\ C \in First(D) /\ C \notin First(C)
    BY <1>1, <1>2
  <2>2. IsFiniteSet(First(D))
    BY <1>1, FS_Subset
  <2>3. Boot!Cardinality(First(C)) < Boot!Cardinality(First(D))
    BY <2>1, <2>2, FewerElements
  <2>4. QED
    BY <2>3 DEF Boot!ComponentIndex
<1>3. ASSUME NEW C \in all
      PROVE  /\ Boot!ComponentIndex(C) \in Nat /\ Boot!Cardinality(all) \in Nat
             /\ Boot!ComponentIndex(C) < Boot!Cardinality(all)
  <2>1. First(C) \in SUBSET all /\ C \notin First(C)
    BY <1>1
  <2>2. QED
    BY <1>1, <2>1, FewerElements DEF Boot!ComponentIndex
<1>4. \A C \in all : Boot!ComponentIndex(C) = Boot!ComponentIndex(comp) => C = comp
  BY <1>1, <1>2, <1>3
<1>5. Boot!ExtractWalls = [i \in 0 .. Boot!Cardinality(all) - 1 |-> CHOOSE x \in all : Boot!ComponentIndex(x) = i]
  BY DEF Boot!ExtractWalls, Boot!Number, Boot!ComponentIndex
<1>6. Boot!ComponentIndex(comp) \in 0 .. Boot!Cardinality(all) - 1
  BY <1>3
<1> HIDE DEF all
<1>7. (CHOOSE x \in all : Boot!ComponentIndex(x) = Boot!ComponentIndex(comp)) = comp
  BY <1>4 DEF all
<1>8. QED
  BY <1>5, <1>6, <1>7

\* A kept wall is clipped to a part of itself.
LEMMA ClippedWall ==
  ASSUME LabelsParts, bootScan \in Scans, NEW comp \in Boot!WallComponents, NEW area,
         area = {} \/ ~Boot!Half(comp \ Boot!Dilate(area, ClipMargin), comp)
  PROVE  Boot!ClipWall(comp, area) \subseteq comp
<1> DEFINE D == Boot!Dilate(area, ClipMargin)
           rest == comp \cap D
<1>1. CASE area = {}
  BY <1>1 DEF Boot!ClipWall
<1>2. CASE area # {}
  <2>1. comp # {} /\ comp \subseteq Boot!Cells /\ IsFiniteSet(comp)
    BY WallComponentsTyped
  <2>2. rest # {}
    <3>1. SUFFICES ASSUME rest = {} PROVE FALSE
      OBVIOUS
    <3>2. comp \ D = comp
      BY <3>1
    <3>3. ~(2 * Boot!Cardinality(comp) > Boot!Cardinality(comp))
      BY <1>2, <3>2 DEF Boot!Half
    <3>4. Cardinality(comp) \in Nat /\ Cardinality(comp) # 0
      BY <2>1, FS_CardinalityType, FS_EmptySet
    <3>5. QED
      BY <3>3, <3>4, BootCardinality
  <2>3. rest \in SUBSET Boot!Cells
    BY <2>1
  <2> HIDE DEF rest
  <2>4. /\ IsFiniteSet(PartsOf(rest)) /\ PartsOf(rest) # {}
        /\ \A C \in PartsOf(rest) : C \subseteq rest /\ IsFiniteSet(C) /\ Boot!FirstCell(C) \in Nat
    <3>1. UNION PartsOf(rest) = rest
      BY <2>3, Labelled
    <3>2. QED
      BY <2>2, <2>3, <3>1, Labelled
  <2>5. Boot!LargestOf(PartsOf(rest)) \in PartsOf(rest)
    BY <2>4, LargestIsIn
  <2>6. QED
    BY <1>2, <2>4, <2>5 DEF Boot!ClipWall, rest
<1>3. QED
  BY <1>1, <1>2

\* A source that is a wall carries the number under which a part of it is exported.
LEMMA WallSourceExported ==
  ASSUME LabelsParts, bootScan \in Scans, NEW area, NEW s \in Boot!WallSources(Boot!KeptWallIndices(area))
  PROVE  /\ s.id[2] \in DOMAIN Boot!ExportedWalls(area)
         /\ Boot!ExportedWalls(area)[s.id[2]] \subseteq s.mask
<1> DEFINE kept == Boot!KeptWallIndices(area)
<1>1. PICK comp \in Boot!WallComponents : /\ Boot!ComponentIndex(comp) \in kept
                                          /\ s.id[2] = Boot!RankIn(kept, Boot!ComponentIndex(comp))
                                          /\ s.mask = comp
  BY DEF Boot!WallSources
<1>2. kept \in SUBSET Nat /\ IsFiniteSet(kept)
  <2>1. IsFiniteSet(Boot!WallComponents)
    BY WallComponentsTyped
  <2> DEFINE n == Boot!Cardinality(Boot!WallComponents)
  <2>2. n \in Nat
    BY <2>1, FS_CardinalityType, BootCardinality
  <2>3. kept \subseteq 0 .. n - 1
    BY DEF Boot!KeptWallIndices, Boot!ExtractWalls, Boot!Number
  <2> HIDE DEF kept, n
  <2>4. IsFiniteSet(0 .. n - 1) /\ 0 .. n - 1 \subseteq Nat
    BY <2>2, FS_Interval
  <2>5. IsFiniteSet(kept)
    BY <2>3, <2>4, FS_Subset
  <2>6. QED
    BY <2>3, <2>4, <2>5
<1>3. area = {} \/ ~Boot!Half(comp \ Boot!Dilate(area, ClipMargin), comp)
  BY <1>1, WallOfIndex DEF Boot!KeptWallIndices
<1> DEFINE i == Boot!ComponentIndex(comp)
           k == Boot!RankIn(kept, i)
<1> HIDE DEF kept
<1>4. k \in 0 .. Boot!Cardinality(kept) - 1 /\ Boot!WallAt(kept, k) = i
  BY <1>1, <1>2, RanksDiffer
<1> HIDE DEF k
<1>5. k \in DOMAIN Boot!ExportedWalls(area)
      /\ Boot!ExportedWalls(area)[k] = Boot!ClipWall(Boot!ExtractWalls[Boot!WallAt(kept, k)], area)
  BY <1>4 DEF Boot!ExportedWalls, kept
<1>6. Boot!ExtractWalls[i] = comp
  BY WallOfIndex
<1>7. Boot!ClipWall(comp, area) \subseteq comp
  BY <1>3, ClippedWall
<1>8. QED
  BY <1>1, <1>4, <1>5, <1>6, <1>7 DEF k

-----------------------------------------------------------------------------
(* The gaps between them *)

\* The sources a gap is measured between are sets of cells, none of them empty.
SourcesShaped(S) == \A s \in S : s.mask # {} /\ s.mask \subseteq Int \X Int

LEMMA DistanceTyped ==
  ASSUME NEW c \in Int \X Int, NEW mask \in SUBSET (Int \X Int), mask # {}
  PROVE  Boot!Distance(c, mask) \in Nat
<1> DEFINE squares == {(c[1] - d[1]) * (c[1] - d[1]) + (c[2] - d[2]) * (c[2] - d[2]) : d \in mask}
<1>1. \A x \in Int : x * x \in Nat
  <2> TAKE x \in Int
  <2>1. CASE x >= 0
    BY <2>1
  <2>2. CASE x < 0
    BY <2>2
  <2>3. QED
    BY <2>1, <2>2
<1>2. ASSUME NEW d \in mask
      PROVE  (c[1] - d[1]) * (c[1] - d[1]) + (c[2] - d[2]) * (c[2] - d[2]) \in Nat
  <2>1. c[1] - d[1] \in Int /\ c[2] - d[2] \in Int
    OBVIOUS
  <2>2. QED
    BY <1>1, <2>1
<1>3. squares \in SUBSET Nat /\ squares # {}
  BY <1>2
<1>4. Boot!Distance(c, mask) = Boot!Min(squares)
  BY DEF Boot!Distance
<1> HIDE DEF squares
<1>5. QED
  BY <1>3, <1>4, BootMin

LEMMA NearestIsSource ==
  ASSUME NEW c \in Int \X Int, NEW S, S # {}, SourcesShaped(S) PROVE Boot!NearestSource(c, S) \in S
<1> DEFINE distances == {Boot!Distance(c, s.mask) : s \in S}
<1>1. \A s \in S : Boot!Distance(c, s.mask) \in Nat
  BY DistanceTyped DEF SourcesShaped
<1>2. distances \in SUBSET Nat /\ distances # {}
  BY <1>1
<1> HIDE DEF distances
<1>3. Boot!Min(distances) \in distances /\ \A n \in distances : Boot!Min(distances) <= n
  BY <1>2, BootMin
<1>4. \E s \in S : \A t \in S : Boot!Distance(c, s.mask) <= Boot!Distance(c, t.mask)
  BY <1>3 DEF distances
<1>5. QED
  BY <1>4 DEF Boot!NearestSource

LEMMA GapsAreSources ==
  ASSUME LabelsParts, bootScan \in Scans, \A o \in bootObjs : o.cells \subseteq Int \X Int, NEW kept,
         NEW g \in Boot!ComputeGaps(kept), NEW s \in g
  PROVE  s \in Boot!Sources(kept)
<1> DEFINE S == {s0 \in Boot!Sources(kept) : s0.mask # {}}
           open == (Boot!Cells \ bootScan.obstacle) \ UNION {s0.mask : s0 \in S}
           near == [c \in open |-> Boot!NearestSource(c, S)]
           pairs == {p \in open \X open : p[2] \in {<<p[1][1] + 1, p[1][2]>>, <<p[1][1], p[1][2] + 1>>}}
<1>1. SourcesShaped(S)
  <2>1. ASSUME NEW s0 \in S PROVE s0.mask \subseteq Int \X Int
    <3>1. CASE s0 \in Boot!WallSources(kept)
      <4>1. PICK comp \in Boot!WallComponents : s0.mask = comp
        BY <3>1 DEF Boot!WallSources
      <4>2. QED
        BY <4>1, WallComponentsTyped, CellsFinite
    <3>2. CASE s0 \notin Boot!WallSources(kept)
      BY <3>2 DEF Boot!Sources
    <3>3. QED
      BY <3>1, <3>2
  <2>2. QED
    BY <2>1 DEF SourcesShaped
<1>2. S # {} /\ g \in {{near[p[1]], near[p[2]]} : p \in {p \in pairs : near[p[1]].id # near[p[2]].id}}
  BY DEF Boot!ComputeGaps
<1>3. S \subseteq Boot!Sources(kept) /\ open \subseteq Int \X Int
  BY CellsFinite
<1> HIDE DEF S, open
<1>4. PICK c \in open : s = near[c]
  BY <1>2
<1>5. s = Boot!NearestSource(c, S)
  BY <1>4
<1>6. QED
  BY <1>1, <1>2, <1>3, <1>5, NearestIsSource

LEMMA GapsNamed ==
  ASSUME LabelsParts, bootScan \in Scans, \A o \in bootObjs : o.cells \subseteq Int \X Int,
         bootWalls = Boot!ExportedWalls(bootRoom),
         NEW g \in Boot!ComputeGaps(Boot!KeptWallIndices(bootRoom)), NEW s \in g, s.id[1] = "wall"
  PROVE  s.id[2] \in DOMAIN bootWalls /\ bootWalls[s.id[2]] \subseteq s.mask
<1> DEFINE kept == Boot!KeptWallIndices(bootRoom)
<1>1. s \in Boot!Sources(kept)
  BY GapsAreSources
<1>2. s \in Boot!WallSources(kept)
  <2>1. \A o : [id |-> <<"object", o.id>>, mask |-> o.cells].id[1] = "object"
    OBVIOUS
  <2>2. QED
    BY <1>1, <2>1 DEF Boot!Sources
<1>3. QED
  BY <1>2, WallSourceExported

-----------------------------------------------------------------------------
(* The cells of the objects, and the walls until the gaps are measured *)

Shaped(S) == \A o \in S : "cells" \in DOMAIN o /\ o.cells \subseteq Int \X Int

LEMMA Intervals == \A a, b, c, d : (a .. b) \X (c .. d) \subseteq Int \X Int
<1>1. \A a, b : a .. b \subseteq Int
  OBVIOUS
<1>2. QED
  BY <1>1

LEMMA FootprintsShaped == ASSUME bootScan \in Scans PROVE Shaped(Boot!Footprints(bootScan.objects))
<1>1. \A o \in bootScan.objects : "cells" \in DOMAIN o /\ o.cells \subseteq Int \X Int
  BY ScansAssumption
<1>2. \A S \in SUBSET (Int \X Int) : Boot!BackfillToWalls(S) \subseteq Int \X Int
  BY Intervals DEF Boot!BackfillToWalls
<1>3. ASSUME NEW o \in bootScan.objects
      PROVE  LET e == [o EXCEPT !.cells = Boot!BackfillToWalls(@)]
             IN "cells" \in DOMAIN e /\ e.cells \subseteq Int \X Int
  BY <1>1, <1>2
<1>4. QED
  BY <1>3 DEF Shaped, Boot!Footprints

LEMMA MergeShaped ==
  ASSUME NEW S, Comparable(S), Shaped(S) PROVE Shaped(Boot!MergeDuplicates(S))
<1>1. ASSUME NEW k \in Boot!Clusters(S) PROVE "cells" \in DOMAIN Becomes(k) /\ Becomes(k).cells \subseteq Int \X Int
  <2>1. k # {} /\ k \subseteq S /\ Comparable(k)
    <3>1. PICK o \in S : k = ClusterOf(o, S)
      BY ClustersAre
    <3>2. o \in k /\ k \subseteq S
      BY <3>1 DEF ClusterOf
    <3>3. QED
      BY <3>2, FS_Subset DEF Comparable
  <2>2. Boot!Winner(k) \in k
    BY <2>1, WinnerWins
  <2>3. CASE Boot!Cardinality(k) = 1
    <3>1. Becomes(k) \in k
      BY <2>1, <2>3 DEF Becomes
    <3>2. QED
      BY <2>1, <3>1 DEF Shaped
  <2>4. CASE Boot!Cardinality(k) # 1
    <3> DEFINE w == Boot!Winner(k)
    <3>1. "cells" \in DOMAIN w
      BY <2>1, <2>2 DEF Shaped
    <3> HIDE DEF w
    <3>2. \A c, h, b, t, p :
            LET e == [w EXCEPT !.cells = c, !.hull = h, !.bottom = b, !.top = t, !.points = p]
            IN "cells" \in DOMAIN w => "cells" \in DOMAIN e /\ e.cells = c
      OBVIOUS
    <3>3. "cells" \in DOMAIN Boot!MergeCluster(k)
          /\ Boot!MergeCluster(k).cells = Boot!Bounding(UNION {o.hull : o \in k})
      BY <3>1, <3>2 DEF Boot!MergeCluster, w
    <3>4. QED
      BY <2>4, <3>3, Intervals DEF Becomes, Boot!Bounding
  <2>5. QED
    BY <2>3, <2>4
<1>2. Boot!MergeDuplicates(S) = {Becomes(k) : k \in Boot!Clusters(S)}
  BY DEF Boot!MergeDuplicates, Becomes
<1>3. QED
  BY <1>1, <1>2 DEF Shaped

GapsInv ==
  /\ Shaped(bootObjs)
  /\ bootPc \in {"footprints", "merge", "small", "room", "support", "caps", "measure"} => bootGaps = {}
  /\ bootPc \in {"support", "caps", "measure"} => bootWalls = Boot!ExportedWalls(bootRoom)
  /\ Boot!GapsNameWalls

LEMMA InitGapsInv == Boot!Init => GapsInv
  BY DEF Boot!Init, GapsInv, Shaped, Boot!GapsNameWalls

LEMMA ExportedStays ==
  ASSUME UNCHANGED <<bootScan, bootRoom>>
  PROVE  Boot!ExportedWalls(bootRoom)' = Boot!ExportedWalls(bootRoom)
  BY DEF Boot!ExportedWalls, Boot!KeptWallIndices, Boot!ClipWall, Boot!ExtractWalls, Boot!Number,
         Boot!WallComponents

LEMMA StepGapsInv == ASSUME LabelsParts, BootInv, GapsInv, [Boot!Next]_bootVars PROVE GapsInv'
<1>1. ASSUME bootGaps' = {}, Shaped(bootObjs'),
             bootPc' \in {"support", "caps", "measure"} => (bootWalls = Boot!ExportedWalls(bootRoom))'
      PROVE  GapsInv'
  BY <1>1 DEF GapsInv, Shaped, Boot!GapsNameWalls
<1>2. CASE Boot!Start
  BY <1>1, <1>2 DEF Boot!Start, Shaped
<1>3. CASE Boot!ComputeFootprints
  BY <1>1, <1>3, FootprintsShaped DEF Boot!ComputeFootprints, BootInv, GapsInv
<1>4. CASE Boot!Merge
  BY <1>1, <1>4, MergeShaped DEF Boot!Merge, BootInv, GapsInv
<1>5. CASE Boot!DropSmall
  BY <1>1, <1>5 DEF Boot!DropSmall, Boot!SmallKept, GapsInv, Shaped
<1>6. CASE Boot!DropOutside
  <2>1. /\ bootPc = "room" /\ bootScan' = bootScan /\ bootGaps' = bootGaps
        /\ bootWalls' = Boot!ExportedWalls(bootRoom')
        /\ bootObjs' = {Boot!ClipObject(o, bootRoom') : o \in {o \in bootObjs : ~Boot!Outside(o, bootRoom')}}
    BY <1>6 DEF Boot!DropOutside
  <2>2. ASSUME NEW o \in bootObjs
        PROVE  LET e == Boot!ClipObject(o, bootRoom') IN "cells" \in DOMAIN e /\ e.cells \subseteq Int \X Int
    <3>1. "cells" \in DOMAIN o /\ o.cells \subseteq Int \X Int
      BY DEF GapsInv, Shaped
    <3>2. \A S : Boot!Bounding(S) \subseteq Int \X Int
      BY Intervals DEF Boot!Bounding
    <3>3. QED
      BY <3>1, <3>2 DEF Boot!ClipObject
  <2>3. Shaped(bootObjs')
    BY <2>1, <2>2 DEF Shaped
  <2>4. (bootWalls = Boot!ExportedWalls(bootRoom))'
    BY <2>1 DEF Boot!ExportedWalls, Boot!KeptWallIndices, Boot!ClipWall, Boot!ExtractWalls, Boot!Number,
                Boot!WallComponents
  <2>5. QED
    BY <1>1, <2>1, <2>3, <2>4 DEF GapsInv
<1>7. CASE Boot!DropFloating
  <2>1. /\ bootPc = "support" /\ UNCHANGED <<bootScan, bootRoom, bootGaps, bootWalls>> /\ bootObjs' \subseteq bootObjs
    BY <1>7 DEF Boot!DropFloating, Boot!SupportRule
  <2>2. QED
    BY <1>1, <2>1, ExportedStays DEF GapsInv, Shaped
<1>8. CASE Boot!CapClasses
  <2>1. /\ bootPc = "caps" /\ UNCHANGED <<bootScan, bootRoom, bootGaps, bootWalls>> /\ bootObjs' \subseteq bootObjs
    BY <1>8 DEF Boot!CapClasses, Boot!ClassCaps
  <2>2. QED
    BY <1>1, <2>1, ExportedStays DEF GapsInv, Shaped
<1>9. CASE Boot!MeasureGaps
  <2>1. /\ bootPc = "measure" /\ bootPc' = "rotate" /\ UNCHANGED <<bootObjs, bootWalls>>
        /\ bootGaps' = Boot!ComputeGaps(Boot!KeptWallIndices(bootRoom))
    BY <1>9 DEF Boot!MeasureGaps
  <2>2. bootScan \in Scans /\ bootWalls = Boot!ExportedWalls(bootRoom)
        /\ \A o \in bootObjs : o.cells \subseteq Int \X Int
    BY <2>1 DEF BootInv, GapsInv, Shaped
  <2>3. \A g \in bootGaps' : \A s \in g : s.id[1] = "wall" =>
          s.id[2] \in DOMAIN bootWalls /\ bootWalls[s.id[2]] \subseteq s.mask
    BY <2>1, <2>2, GapsNamed
  <2>4. Shaped(bootObjs')
    BY <2>1 DEF GapsInv
  <2>5. QED
    BY <2>1, <2>3, <2>4 DEF GapsInv, Shaped, Boot!GapsNameWalls
<1>10. ASSUME UNCHANGED <<bootScan, bootRoom, bootObjs, bootGaps, bootWalls>>,
              bootPc' \in {"footprints", "merge", "small", "room", "support", "caps", "measure"} => bootPc' = bootPc
       PROVE  GapsInv'
  BY <1>10, ExportedStays DEF GapsInv, Shaped, Boot!GapsNameWalls
<1>11. CASE Boot!Rotate
  BY <1>10, <1>11 DEF Boot!Rotate
<1>12. ASSUME NEW a \in Boot!Range(Boot!Order), Boot!Write(a) PROVE GapsInv'
  <2>1. bootPc' \in {"idle", Boot!After(a)} /\ UNCHANGED <<bootScan, bootRoom, bootObjs, bootGaps, bootWalls>>
    BY <1>12 DEF Boot!Write
  <2>2. QED
    BY <1>10, <2>1, AfterWrites
<1>13. CASE UNCHANGED bootVars
  BY <1>10, <1>13 DEF bootVars
<1>14. QED
  BY <1>2, <1>3, <1>4, <1>5, <1>6, <1>7, <1>8, <1>9, <1>11, <1>12, <1>13 DEF Boot!Next

(* If ndimage.label cuts a set of cells into parts, a gap names, for every scene and room, a wall
   that is exported and lies within the obstacle it was measured to, in spite of the second
   labelling and of walls that were dropped and clipped in between. *)
THEOREM GapsNameTheirWalls == LabelsParts => (Spec => []GapsNameWalls)
<1> SUFFICES ASSUME LabelsParts PROVE Spec => []GapsNameWalls
  OBVIOUS
<1>1. Init => BootInv /\ GapsInv
  BY InitBootInv, InitGapsInv DEF Init
<1>2. BootInv /\ GapsInv /\ [Next]_vars => (BootInv /\ GapsInv)'
  BY StepOfBoot, StepBootInv, StepGapsInv
<1>3. BootInv /\ GapsInv => GapsNameWalls
  BY DEF GapsInv, GapsNameWalls
<1>4. QED
  BY <1>1, <1>2, <1>3, PTL DEF Spec


-----------------------------------------------------------------------------
(* Asset placement: what is chosen is a file of the library *)

Triple == [1 .. 3 -> Nat]

LEMMA PlacementCardinality == \A S : Placement!Cardinality(S) = Cardinality(S)
  BY DEF Placement!Cardinality, Cardinality

\* The rank of a side is 0, 1 or 2, and each of them is some side's.
LEMMA RanksAreAll ==
  ASSUME NEW e \in Triple
  PROVE  /\ \A i \in 1 .. 3 : Placement!Rank(e, i) \in 0 .. 2
         /\ \A n \in 0 .. 2 : \E i \in 1 .. 3 : Placement!Rank(e, i) = n
<1> DEFINE before(i) == {j \in 1 .. 3 : e[j] < e[i] \/ (e[j] = e[i] /\ j < i)}
<1>1. \A i : Placement!Rank(e, i) = Cardinality(before(i))
  BY PlacementCardinality DEF Placement!Rank
<1>2. e[1] \in Nat /\ e[2] \in Nat /\ e[3] \in Nat
  BY DEF Triple
<1>3. 1 .. 3 = {1, 2, 3}
  OBVIOUS
<1>4. Cardinality({}) = 0 /\ \A x : IsFiniteSet({x}) /\ Cardinality({x}) = 1
  BY FS_EmptySet, FS_Singleton
<1>5. \A x, y : x # y => Cardinality({x, y}) = 2
  <2>1. ASSUME NEW x, NEW y, x # y PROVE Cardinality({x, y}) = 2
    <3>1. Cardinality({x} \union {y}) = IF y \in {x} THEN Cardinality({x}) ELSE Cardinality({x}) + 1
      BY <1>4, FS_AddElement
    <3>2. {x} \union {y} = {x, y} /\ y \notin {x}
      BY <2>1
    <3>3. QED
      BY <1>4, <3>1, <3>2
  <2>2. QED
    BY <2>1
\* One permutation of the sides is their order.
<1>6. \E p \in [1 .. 3 -> 1 .. 3] : /\ before(p[1]) = {} /\ before(p[2]) = {p[1]} /\ before(p[3]) = {p[1], p[2]}
                                    /\ p[1] # p[2] /\ {p[1], p[2], p[3]} = 1 .. 3
  <2> DEFINE Order(a, b, c) == before(a) = {} /\ before(b) = {a} /\ before(c) = {a, b}
  <2>1. \/ Order(1, 2, 3) \/ Order(1, 3, 2) \/ Order(2, 1, 3)
        \/ Order(2, 3, 1) \/ Order(3, 1, 2) \/ Order(3, 2, 1)
    <3> DEFINE b12 == e[1] <= e[2]
               b13 == e[1] <= e[3]
               b23 == e[2] <= e[3]
    <3>1. before(1) = {j \in {2, 3} : (j = 2 /\ ~b12) \/ (j = 3 /\ ~b13)}
      BY <1>2, <1>3
    <3>2. before(2) = {j \in {1, 3} : (j = 1 /\ b12) \/ (j = 3 /\ ~b23)}
      BY <1>2, <1>3
    <3>3. before(3) = {j \in {1, 2} : (j = 1 /\ b13) \/ (j = 2 /\ b23)}
      BY <1>2, <1>3
    <3>4. (b12 /\ b23 => b13) /\ (~b12 /\ ~b23 => ~b13)
      BY <1>2
    <3> HIDE DEF before, b12, b13, b23
    <3>5. CASE b12 /\ b23 /\ b13
      <4>1. Order(1, 2, 3)
        BY <3>1, <3>2, <3>3, <3>5
      <4>2. QED
        BY <4>1
    <3>6. CASE b12 /\ ~b23 /\ b13
      <4>1. Order(1, 3, 2)
        BY <3>1, <3>2, <3>3, <3>6
      <4>2. QED
        BY <4>1
    <3>7. CASE b12 /\ ~b23 /\ ~b13
      <4>1. Order(3, 1, 2)
        BY <3>1, <3>2, <3>3, <3>7
      <4>2. QED
        BY <4>1
    <3>8. CASE ~b12 /\ b23 /\ b13
      <4>1. Order(2, 1, 3)
        BY <3>1, <3>2, <3>3, <3>8
      <4>2. QED
        BY <4>1
    <3>9. CASE ~b12 /\ b23 /\ ~b13
      <4>1. Order(2, 3, 1)
        BY <3>1, <3>2, <3>3, <3>9
      <4>2. QED
        BY <4>1
    <3>10. CASE ~b12 /\ ~b23 /\ ~b13
      <4>1. Order(3, 2, 1)
        BY <3>1, <3>2, <3>3, <3>10
      <4>2. QED
        BY <4>1
    <3>11. QED
      BY <3>4, <3>5, <3>6, <3>7, <3>8, <3>9, <3>10
  <2> HIDE DEF before
  <2>2. ASSUME NEW a \in {1, 2, 3}, NEW b \in {1, 2, 3}, NEW c \in {1, 2, 3}, a # b, b # c, a # c, Order(a, b, c)
        PROVE  \E p \in [1 .. 3 -> 1 .. 3] :
                 /\ before(p[1]) = {} /\ before(p[2]) = {p[1]} /\ before(p[3]) = {p[1], p[2]}
                 /\ p[1] # p[2] /\ {p[1], p[2], p[3]} = 1 .. 3
    <3> DEFINE p == [n \in 1 .. 3 |-> IF n = 1 THEN a ELSE IF n = 2 THEN b ELSE c]
    <3>1. p \in [1 .. 3 -> 1 .. 3] /\ p[1] = a /\ p[2] = b /\ p[3] = c
      BY <1>3
    <3>2. {a, b, c} = 1 .. 3
      BY <1>3, <2>2
    <3> HIDE DEF p
    <3>3. QED
      BY <2>2, <3>1, <3>2
  <2>3. QED
    BY <2>1, <2>2
<1> HIDE DEF before
<1>7. PICK p \in [1 .. 3 -> 1 .. 3] : /\ before(p[1]) = {} /\ before(p[2]) = {p[1]} /\ before(p[3]) = {p[1], p[2]}
                                      /\ p[1] # p[2] /\ {p[1], p[2], p[3]} = 1 .. 3
  BY <1>6
<1>8. /\ Placement!Rank(e, p[1]) = 0 /\ Placement!Rank(e, p[2]) = 1 /\ Placement!Rank(e, p[3]) = 2
      /\ p[1] \in 1 .. 3 /\ p[2] \in 1 .. 3 /\ p[3] \in 1 .. 3
  <2>1. p[1] \in 1 .. 3 /\ p[2] \in 1 .. 3 /\ p[3] \in 1 .. 3
    BY <1>7
  <2>2. Cardinality({p[1]}) = 1 /\ Cardinality({p[1], p[2]}) = 2
    BY <1>4, <1>5, <1>7
  <2>3. Placement!Rank(e, p[1]) = Cardinality({})
    BY <1>1, <1>7
  <2>4. Placement!Rank(e, p[2]) = Cardinality({p[1]}) /\ Placement!Rank(e, p[3]) = Cardinality({p[1], p[2]})
    BY <1>1, <1>7
  <2>5. QED
    BY <1>4, <2>1, <2>2, <2>3, <2>4
<1>9. \A i \in 1 .. 3 : i = p[1] \/ i = p[2] \/ i = p[3]
  BY <1>7
<1>10. \A n \in 0 .. 2 : n = 0 \/ n = 1 \/ n = 2
  OBVIOUS
<1>11. QED
  BY <1>8, <1>9, <1>10

LEMMA CanonicalTyped ==
  ASSUME NEW a \in Assets, Aabb[a][assetsGlb[a]] \in Triple
  PROVE  Placement!Canonical(a) \in Triple
<1> DEFINE box == Aabb[a][assetsGlb[a]]
<1>1. CASE ApiDims[a] = None
  BY <1>1 DEF Placement!Canonical
<1>2. CASE ApiDims[a] # None
  <2> DEFINE pick(i) == CHOOSE j \in 1 .. 3 : Placement!Rank(ApiDims[a], j) = Placement!Rank(box, i)
  <2>1. ApiDims[a] \in Triple
    BY <1>2, LibraryAssumption DEF Triple
  <2>2. ASSUME NEW i \in 1 .. 3 PROVE pick(i) \in 1 .. 3
    <3>1. \E j \in 1 .. 3 : Placement!Rank(ApiDims[a], j) = Placement!Rank(box, i)
      BY <2>1, RanksAreAll
    <3>2. QED
      BY <3>1
  <2>3. Placement!Canonical(a) = [i \in 1 .. 3 |-> ApiDims[a][pick(i)]]
    BY <1>2 DEF Placement!Canonical
  <2> HIDE DEF pick
  <2>4. \A i \in 1 .. 3 : ApiDims[a][pick(i)] \in Nat
    BY <2>1, <2>2 DEF Triple
  <2>5. QED
    BY <2>3, <2>4 DEF Triple
<1>3. QED
  BY <1>1, <1>2

\* What an index holds: finitely many files of the library, each with an extent.
Candidates(cands) ==
  /\ IsFiniteSet(cands)
  /\ \A c \in cands : c.asset \in Assets /\ c.size \in Triple

Stock == assetsListed \subseteq Assets /\ assetsGlb \in [Assets -> 0 .. MaxVersion]

LEMMA ScanIsCandidates ==
  ASSUME Stock, NEW small PROVE Candidates(Placement!ScanLibrary(small))
<1> DEFINE there == {a \in assetsListed : assetsGlb[a] # 0 /\ (Info[a].tier = "small" => small)}
           f == [a \in there |-> Placement!Candidate(a)]
<1>1. IsFiniteSet(there) /\ there \subseteq Assets
  <2>1. IsFiniteSet(Assets) /\ there \subseteq Assets
    BY LibraryAssumption DEF Stock
  <2> HIDE DEF there
  <2>2. QED
    BY <2>1, FS_Subset
<1>2. Placement!ScanLibrary(small) = {f[a] : a \in there}
  BY DEF Placement!ScanLibrary
<1>3. ASSUME NEW a \in there PROVE f[a].asset \in Assets /\ f[a].size \in Triple
  <2>1. a \in Assets /\ assetsGlb[a] \in 1 .. MaxVersion
    BY LibraryAssumption DEF Stock
  <2>2. Aabb[a][assetsGlb[a]] \in Triple
    BY <2>1, LibraryAssumption DEF Triple
  <2>3. f[a].asset = a /\ f[a].size = Placement!Canonical(a)
    BY DEF Placement!Candidate
  <2>4. QED
    BY <2>1, <2>2, <2>3, CanonicalTyped
<1> HIDE DEF there, f
<1>4. IsFiniteSet({f[a] : a \in there})
  BY <1>1, FiniteImage
<1>5. QED
  BY <1>2, <1>3, <1>4 DEF Candidates

\* The terms by which candidates are compared are numbers.
LEMMA TermsTyped ==
  ASSUME NEW c, c.size \in Triple, NEW o, o.size \in Triple
  PROVE  Placement!AspectTerm(c, o) \in Int /\ Placement!HeightTerm(c, o) \in Int
<1>1. \A a, b \in Nat : Placement!Larger(a, b) \in Nat /\ Placement!Larger(1, a) \in Nat \ {0}
  BY DEF Placement!Larger
<1>2. \A n, d \in Nat : Placement!Apart(n, d) \in Int
  <2> TAKE n, d \in Nat
  <2> DEFINE low == IF n < d THEN n ELSE d
             over == Placement!Larger(n, d)
             under == Placement!Larger(1, low)
  <2>1. low \in Nat
    OBVIOUS
  <2>2. over \in Nat /\ under \in Nat \ {0}
    BY <1>1, <2>1
  <2>3. Placement!Apart(n, d) = (100 * over) \div under
    BY DEF Placement!Apart
  <2> HIDE DEF over, under
  <2>4. QED
    BY <2>2, <2>3
<1>3. \A e \in Triple : Placement!Aspect(e)[1] \in Nat /\ Placement!Aspect(e)[2] \in Nat /\ e[2] \in Nat
  BY DEF Triple, Placement!Aspect, Placement!Larger
<1>4. \A m, n \in Nat : m * n \in Nat
  OBVIOUS
<1>5. Placement!AspectTerm(c, o) \in Int
  BY <1>2, <1>3, <1>4 DEF Placement!AspectTerm
<1>6. Placement!HeightTerm(c, o) \in Int
  BY <1>2, <1>3 DEF Placement!HeightTerm
<1>7. QED
  BY <1>5, <1>6

LEMMA SelectedIsCandidate ==
  ASSUME NEW cands, Candidates(cands), NEW o \in Placeable
  PROVE  Placement!SelectCandidate(o, cands) = None \/ Placement!SelectCandidate(o, cands) \in cands
<1> DEFINE open == {c \in Placement!CandidatesForLabel(o, cands) :
                      Info[c.asset].tier = "small" => Placement!SmallFits(o)}
           R == {p \in open \X open : Placement!Better(p[1], p[2], o)}
<1>1. Placement!CandidatesForLabel(o, cands) \subseteq cands
  <2>1. \A cls : Placement!ClassCandidates(cls, cands) \subseteq cands
    BY DEF Placement!ClassCandidates
  <2>2. QED
    BY <2>1 DEF Placement!CandidatesForLabel
<1>2. open \subseteq cands /\ IsFiniteSet(open)
  <2>1. open \subseteq cands
    BY <1>1
  <2> HIDE DEF open
  <2>2. QED
    BY <2>1, FS_Subset DEF Candidates
<1>3. SUFFICES ASSUME open # {} PROVE Placement!SelectCandidate(o, cands) \in cands
  BY DEF Placement!SelectCandidate
<1>4. Placement!SelectCandidate(o, cands) = CHOOSE c \in open : \A d \in open : Placement!Better(c, d, o)
  BY <1>3 DEF Placement!SelectCandidate
<1> HIDE DEF open
<1>5. \A c \in open : Placement!AspectTerm(c, o) \in Int /\ Placement!HeightTerm(c, o) \in Int
  BY <1>2, TermsTyped, LibraryAssumption DEF Candidates, Triple
<1>6. \A a, b \in open : Placement!Better(a, b, o) \/ Placement!Better(b, a, o)
  BY <1>5 DEF Placement!Better
<1>7. \A a, b, c \in open : Placement!Better(a, b, o) /\ Placement!Better(b, c, o) => Placement!Better(a, c, o)
  BY <1>5 DEF Placement!Better
<1>8. /\ \A a, b \in open : <<a, b>> \in R \/ <<b, a>> \in R
      /\ \A a, b, c \in open : <<a, b>> \in R /\ <<b, c>> \in R => <<a, c>> \in R
  BY <1>6, <1>7
<1> HIDE DEF R
<1>9. \E w \in open : \A d \in open : <<w, d>> \in R
  BY <1>2, <1>3, <1>8, FiniteBest
<1>10. \E w \in open : \A d \in open : Placement!Better(w, d, o)
  BY <1>9 DEF R
<1>11. QED
  BY <1>2, <1>4, <1>10

-----------------------------------------------------------------------------
(* Asset placement: the converted files and their copies *)

Version(x) == IF x \in Assets THEN assetsGlb[x] ELSE assetsMade[x]

LibraryInv ==
  /\ Stock
  /\ assetsMade = [id \in Placement!Ids |-> assetsMade[id]]
  /\ assetsIndex # None =>
       /\ assetsIndex = [cands |-> assetsIndex.cands, small |-> assetsIndex.small, fresh |-> assetsIndex.fresh]
       /\ Candidates(assetsIndex.cands)

\* A place holds the conversion of a file of its own; one that is newer than its file shows the
\* file as it is, unless an older one has replaced it; a copy that is in step is of the conversion.
CacheInv ==
  /\ assetsUsd = [l \in Placement!Locs |-> assetsUsd[l]]
  /\ assetsSide = [l \in Placement!Locs |-> assetsSide[l]]
  /\ assetsLocal = [l \in Placement!Locs |-> assetsLocal[l]]
  /\ \A l \in Placement!Locs :
       /\ assetsUsd[l] # None =>
            /\ assetsUsd[l] = [of |-> assetsUsd[l].of, v |-> assetsUsd[l].v, newer |-> assetsUsd[l].newer, state |-> assetsUsd[l].state]
            /\ assetsUsd[l].of \in Placement!Originals /\ Placement!LocOf(assetsUsd[l].of) = l
            /\ assetsUsd[l].of \in assetsUsd[l].newer \ assetsAged => assetsUsd[l].v = Version(assetsUsd[l].of)
       /\ assetsLocal[l] # None =>
            /\ assetsLocal[l] = [of |-> assetsLocal[l].of, v |-> assetsLocal[l].v, synced |-> assetsLocal[l].synced, state |-> assetsLocal[l].state]
            /\ assetsLocal[l].synced => assetsLocal[l].of = assetsUsd[l].of /\ assetsLocal[l].v = assetsUsd[l].v

\* While an assembly runs, what it has placed is as it was loaded.
IsPlaced(r) ==
  /\ r.of \in Placement!Originals /\ r.loc = Placement!LocOf(r.of) /\ r.v = Version(r.of)
  /\ r.status = "generated" <=> r.of \notin Assets

PlacedInv ==
  assetsPc # "idle" =>
    /\ DOMAIN assetsPlaced = Placement!Ids
    /\ \A id \in Placement!PlacementsById : IsPlaced(assetsPlaced[id])

\* A file that is referenced and has a place of its own is converted, and its copy is of the
\* conversion; no such file lies where a conversion is under way.
AuthoredInv ==
  assetsPc \notin {"idle", "export"} =>
    /\ assetsLeft \in Seq(Placement!PlacementsById)
    /\ assetsPc # "usd" =>
         /\ assetsPc \in Placement!PlacementsById
         /\ \A i \in DOMAIN assetsRefs :
              Placement!Alone(assetsPlaced[i].of) => assetsPlaced[i].loc # assetsPlaced[assetsPc].loc
    /\ \A i \in DOMAIN assetsRefs :
         /\ i \in Placement!PlacementsById
         /\ assetsRefs[i].loc = assetsPlaced[i].loc
         /\ Placement!Alone(assetsPlaced[i].of) =>
              /\ Placement!Converted(assetsPlaced[i])
              /\ assetsLocal[assetsRefs[i].loc].of = assetsUsd[assetsRefs[i].loc].of
              /\ assetsLocal[assetsRefs[i].loc].v = assetsUsd[assetsRefs[i].loc].v

PlacementInv == LibraryInv /\ CacheInv /\ PlacedInv /\ AuthoredInv /\ Placement!VisualsAreCurrent

-----------------------------------------------------------------------------
LEMMA PlacesAreNamed ==
  ASSUME NEW x \in Placement!Originals PROVE Placement!LocOf(x) \in Placement!Locs
  BY DEF Placement!Locs

LEMMA AloneInItsPlace ==
  ASSUME NEW x \in Placement!Originals, NEW y \in Placement!Originals, Placement!Alone(x),
         Placement!LocOf(x) = Placement!LocOf(y)
  PROVE  x = y
  BY DEF Placement!Alone

LEMMA InitPlacementInv == Placement!Init => PlacementInv
<1> SUFFICES ASSUME Placement!Init PROVE PlacementInv
  OBVIOUS
<1>1. LibraryInv
  BY LibraryAssumption DEF Placement!Init, LibraryInv, Stock
<1>2. CacheInv
  BY DEF Placement!Init, CacheInv
<1>3. PlacedInv /\ AuthoredInv /\ Placement!VisualsAreCurrent
  BY DEF Placement!Init, PlacedInv, AuthoredInv, Placement!VisualsAreCurrent
<1>4. QED
  BY <1>1, <1>2, <1>3 DEF PlacementInv

\* The actions that leave the library, the generated meshes and the index.
Assembling ==
  \/ Placement!BuildCrops \/ Placement!StartGeneration \/ Placement!GenerationEnds
  \/ Placement!ExportGlb \/ Placement!CompareGlbUsdObjects \/ Placement!AssembleDies
  \/ \E id \in Placement!Ids :
       Placement!ConvertGlbToUsd(id) \/ Placement!SaveUsd(id) \/ Placement!WriteSidecar(id)
       \/ Placement!AddAssetVisual(id) \/ Placement!SyncDies(id)
  \/ UNCHANGED assetsVars

LEMMA AssemblingKeeps ==
  ASSUME Assembling
  PROVE  UNCHANGED <<assetsGlb, assetsListed, assetsMade, assetsIndex>>
  BY DEF Assembling, Placement!BuildCrops, Placement!StartGeneration, Placement!GenerationEnds,
         Placement!ExportGlb, Placement!CompareGlbUsdObjects, Placement!AssembleDies,
         Placement!ConvertGlbToUsd, Placement!SaveUsd, Placement!WriteSidecar,
         Placement!AddAssetVisual, Placement!SyncDies, Placement!Dies, assetsVars,
         Placement!library, Placement!stageB1, Placement!cache, Placement!scene

LEMMA StepLibrary == ASSUME PlacementInv, [Placement!Next]_assetsVars PROVE LibraryInv'
<1>1. LibraryInv
  BY DEF PlacementInv
<1>2. CASE Assembling
  BY <1>1, <1>2, AssemblingKeeps DEF LibraryInv, Stock
<1>3. CASE Placement!GenerateOne
  <2>1. UNCHANGED <<assetsGlb, assetsListed, assetsIndex>>
    BY <1>3 DEF Placement!GenerateOne, Placement!library
  <2>2. assetsMade' = [id \in Placement!Ids |-> assetsMade'[id]]
    BY <1>1, <1>3 DEF LibraryInv, Placement!GenerateOne
  <2>3. QED
    BY <1>1, <2>1, <2>2 DEF LibraryInv, Stock
<1>4. ASSUME NEW small, Candidates(Placement!ScanLibrary(small)),
             UNCHANGED <<assetsGlb, assetsListed, assetsMade>>,
             \/ assetsIndex' = assetsIndex /\ assetsIndex # None
             \/ \E fresh, s : assetsIndex' = [cands |-> Placement!ScanLibrary(small), small |-> s, fresh |-> fresh]
      PROVE  LibraryInv'
  BY <1>1, <1>4 DEF LibraryInv, Stock
<1>5. \A small : Candidates(Placement!ScanLibrary(small))
  BY <1>1, ScanIsCandidates DEF LibraryInv
<1>6. ASSUME NEW small \in BOOLEAN, Placement!Place(small) PROVE LibraryInv'
  BY <1>4, <1>5, <1>6 DEF Placement!Place, Placement!library, Placement!stageB1, Placement!BuildIndex,
     Placement!CachedIndex
<1>7. CASE Placement!RebuildIndex
  BY <1>4, <1>5, <1>7 DEF Placement!RebuildIndex, Placement!library, Placement!stageB1
<1>8. ASSUME NEW a \in Assets, NEW v \in 0 .. MaxVersion, NEW older \in BOOLEAN,
             Placement!ReplaceAsset(a, v, older) PROVE LibraryInv'
  BY <1>1, <1>8 DEF LibraryInv, Stock, Placement!ReplaceAsset, Placement!stageB1
<1>9. ASSUME NEW S \in SUBSET Assets, Placement!ListAssets(S) PROVE LibraryInv'
  BY <1>1, <1>9 DEF LibraryInv, Stock, Placement!ListAssets, Placement!stageB1
<1>10. \A S \in {Assets, {a \in Assets : Info[a].source # "polyhaven"}} : S \in SUBSET Assets
  OBVIOUS
<1>11. QED
  BY <1>2, <1>3, <1>6, <1>7, <1>8, <1>9, <1>10 DEF Assembling, Placement!Next

\* What a step of a conversion or a copy does to a place keeps the cache in order.
LEMMA StepCache == ASSUME PlacementInv, [Placement!Next]_assetsVars PROVE CacheInv'
<1> DEFINE Locs == Placement!Locs
           Ids == Placement!Ids
           NewVersion(x) == IF x \in Assets THEN assetsGlb'[x] ELSE assetsMade'[x]
           UsdOk(u, l) ==
             /\ u = [of |-> u.of, v |-> u.v, newer |-> u.newer, state |-> u.state]
             /\ u.of \in Placement!Originals /\ Placement!LocOf(u.of) = l
           CopyOk(c, u) ==
             /\ c = [of |-> c.of, v |-> c.v, synced |-> c.synced, state |-> c.state]
             /\ c.synced => c.of = u.of /\ c.v = u.v
<1>1. /\ assetsUsd = [l \in Locs |-> assetsUsd[l]]
      /\ assetsSide = [l \in Locs |-> assetsSide[l]]
      /\ assetsLocal = [l \in Locs |-> assetsLocal[l]]
      /\ \A l \in Locs :
           /\ assetsUsd[l] # None =>
                UsdOk(assetsUsd[l], l) /\ (assetsUsd[l].of \in assetsUsd[l].newer \ assetsAged => assetsUsd[l].v = Version(assetsUsd[l].of))
           /\ assetsLocal[l] # None => CopyOk(assetsLocal[l], assetsUsd[l])
  BY DEF PlacementInv, CacheInv
<1>2. LibraryInv /\ PlacedInv /\ AuthoredInv
  BY DEF PlacementInv
<1>3. CacheInv' <=>
      /\ assetsUsd' = [l \in Locs |-> assetsUsd'[l]]
      /\ assetsSide' = [l \in Locs |-> assetsSide'[l]]
      /\ assetsLocal' = [l \in Locs |-> assetsLocal'[l]]
      /\ \A l \in Locs :
           /\ assetsUsd'[l] # None =>
                UsdOk(assetsUsd'[l], l) /\ (assetsUsd'[l].of \in assetsUsd'[l].newer \ assetsAged' => assetsUsd'[l].v = NewVersion(assetsUsd'[l].of))
           /\ assetsLocal'[l] # None => CopyOk(assetsLocal'[l], assetsUsd'[l])
  BY DEF CacheInv, Version, Placement!LocOf, Placement!Originals, Placement!Locs, Placement!Ids
\* Nothing but the files may have changed.
<1>4. ASSUME UNCHANGED <<assetsUsd, assetsLocal, assetsAged, assetsGlb, assetsMade>>,
             assetsSide' = [l \in Locs |-> assetsSide'[l]]
      PROVE  CacheInv'
  BY <1>1, <1>3, <1>4 DEF Version
\* A file changes: what was converted from it is no longer newer, or the file is aged.
<1>5. ASSUME NEW x, UNCHANGED <<assetsSide, assetsLocal>>,
             \A y \in Placement!Originals : y # x => NewVersion(y) = Version(y) /\ (y \in assetsAged => y \in assetsAged'),
             assetsUsd' = [l \in Locs |-> assetsUsd'[l]],
             \A l \in Locs :
               IF assetsUsd[l] = None THEN assetsUsd'[l] = None
               ELSE \E n : /\ assetsUsd'[l] = [assetsUsd[l] EXCEPT !.newer = n]
                           /\ \A y : y # x /\ y \in n => y \in assetsUsd[l].newer
                           /\ x \in n => x \in assetsAged'
      PROVE  CacheInv'
  <2>1. ASSUME NEW l \in Locs, assetsUsd'[l] # None
        PROVE  /\ assetsUsd[l] # None /\ UsdOk(assetsUsd'[l], l)
               /\ assetsUsd'[l].of = assetsUsd[l].of /\ assetsUsd'[l].v = assetsUsd[l].v
               /\ \A y : y # x /\ y \in assetsUsd'[l].newer => y \in assetsUsd[l].newer
               /\ x \in assetsUsd'[l].newer => x \in assetsAged'
    <3> DEFINE u == assetsUsd[l]
    <3>1. u # None
      BY <1>5, <2>1
    <3>2. PICK n : /\ assetsUsd'[l] = [u EXCEPT !.newer = n]
                   /\ \A y : y # x /\ y \in n => y \in u.newer
                   /\ x \in n => x \in assetsAged'
      BY <1>5, <3>1
    <3>3. UsdOk(u, l)
      BY <1>1, <3>1
    <3>4. \A of, v, newer, state, m : [[of |-> of, v |-> v, newer |-> newer, state |-> state] EXCEPT !.newer = m]
                                      = [of |-> of, v |-> v, newer |-> m, state |-> state]
      OBVIOUS
    <3> HIDE DEF u
    <3>5. assetsUsd'[l] = [of |-> u.of, v |-> u.v, newer |-> n, state |-> u.state]
      BY <3>2, <3>3, <3>4
    <3>6. QED
      BY <3>1, <3>2, <3>3, <3>5 DEF u
  <2>2. ASSUME NEW l \in Locs, assetsUsd'[l] # None, assetsUsd'[l].of \in assetsUsd'[l].newer \ assetsAged'
        PROVE  assetsUsd'[l].v = NewVersion(assetsUsd'[l].of)
    <3> DEFINE y == assetsUsd'[l].of
    <3>1. y = assetsUsd[l].of /\ y \in Placement!Originals /\ assetsUsd[l] # None
      BY <2>1, <2>2
    <3>2. y # x
      BY <2>1, <2>2
    <3>3. y \in assetsUsd[l].newer \ assetsAged
      BY <1>5, <2>1, <2>2, <3>1, <3>2
    <3> HIDE DEF y
    <3>4. assetsUsd[l].v = Version(y)
      BY <1>1, <3>1, <3>3
    <3>5. NewVersion(y) = Version(y)
      BY <1>5, <3>1, <3>2
    <3>6. assetsUsd'[l].v = assetsUsd[l].v
      BY <2>1, <2>2
    <3> HIDE DEF NewVersion
    <3>7. assetsUsd'[l].v = NewVersion(y)
      BY <3>4, <3>5, <3>6
    <3>8. QED
      BY <3>7 DEF y
  <2>3. ASSUME NEW l \in Locs, assetsLocal'[l] # None PROVE CopyOk(assetsLocal'[l], assetsUsd'[l])
    <3>1. CopyOk(assetsLocal[l], assetsUsd[l]) /\ assetsLocal'[l] = assetsLocal[l]
      BY <1>1, <1>5, <2>3
    <3>2. CASE assetsUsd[l] = None
      BY <1>5, <3>1, <3>2
    <3>3. CASE assetsUsd'[l] # None
      BY <2>1, <3>1, <3>3
    <3>4. CASE assetsUsd[l] # None /\ assetsUsd'[l] = None
      <4>1. PICK n : assetsUsd'[l] = [assetsUsd[l] EXCEPT !.newer = n]
        BY <1>5, <3>4
      <4>2. UsdOk(assetsUsd[l], l)
        BY <1>1, <3>4
      <4>3. \A u, m : u = [of |-> u.of, v |-> u.v, newer |-> u.newer, state |-> u.state] =>
                        [u EXCEPT !.newer = m].of = u.of /\ [u EXCEPT !.newer = m].v = u.v
        OBVIOUS
      <4>4. assetsUsd'[l].of = assetsUsd[l].of /\ assetsUsd'[l].v = assetsUsd[l].v
        BY <4>1, <4>2, <4>3
      <4>5. QED
        BY <3>1, <4>4
    <3>5. QED
      BY <3>2, <3>3, <3>4
  <2> HIDE DEF UsdOk, CopyOk
  <2>4. QED
    BY <1>1, <1>3, <1>5, <2>1, <2>2, <2>3
<1>6. CASE Placement!GenerateOne
  <2> DEFINE id == Head(assetsTodo)
  <2>1. UNCHANGED <<assetsSide, assetsLocal, assetsAged, assetsGlb>>
    BY <1>6 DEF Placement!GenerateOne, Placement!library
  <2>2. CASE UNCHANGED <<assetsMade, assetsUsd>>
    BY <1>1, <1>4, <2>1, <2>2
  <2>3. CASE /\ \E n : assetsMade' = [assetsMade EXCEPT ![id] = n]
             /\ assetsUsd' = [l \in Locs |-> IF assetsUsd[l] = None THEN None
                                          ELSE [assetsUsd[l] EXCEPT !.newer = @ \ {id}]]
    <3>1. \A y : y # id => assetsMade'[y] = assetsMade[y]
      BY <1>2, <2>3 DEF LibraryInv
    <3>2. \A y \in Placement!Originals : y # id => NewVersion(y) = Version(y) /\ (y \in assetsAged => y \in assetsAged')
      BY <2>1, <3>1 DEF Version
    <3>3. ASSUME NEW l \in Locs, assetsUsd[l] # None
          PROVE  \E n : /\ assetsUsd'[l] = [assetsUsd[l] EXCEPT !.newer = n]
                        /\ \A y : y # id /\ y \in n => y \in assetsUsd[l].newer
                        /\ id \in n => id \in assetsAged'
      <4>1. assetsUsd'[l] = [assetsUsd[l] EXCEPT !.newer = assetsUsd[l].newer \ {id}]
        BY <2>3, <3>3
      <4>2. WITNESS assetsUsd[l].newer \ {id}
      <4>3. QED
        BY <4>1
    <3>4. QED
      BY <1>5, <2>1, <2>3, <3>2, <3>3
  <2>4. QED
    BY <1>6, <2>2, <2>3 DEF Placement!GenerateOne
<1>7. ASSUME NEW a \in Assets, NEW v \in 0 .. MaxVersion, NEW older \in BOOLEAN,
             Placement!ReplaceAsset(a, v, older)
      PROVE  CacheInv'
  <2>1. UNCHANGED <<assetsSide, assetsLocal, assetsMade>>
    BY <1>7 DEF Placement!ReplaceAsset, Placement!stageB1
  <2>2. /\ assetsGlb' = [assetsGlb EXCEPT ![a] = v]
        /\ assetsUsd' = [l \in Locs |-> IF assetsUsd[l] = None THEN None
                           ELSE [assetsUsd[l] EXCEPT !.newer = IF older THEN @ \union {a} ELSE @ \ {a}]]
        /\ assetsAged' = IF older THEN assetsAged \union {a} ELSE assetsAged \ {a}
    BY <1>7 DEF Placement!ReplaceAsset
  <2>3. \A y \in Assets : y # a => assetsGlb'[y] = assetsGlb[y]
    BY <1>2, <2>2 DEF LibraryInv, Stock
  <2>4. \A y \in Placement!Originals : y # a => NewVersion(y) = Version(y) /\ (y \in assetsAged => y \in assetsAged')
    BY <2>1, <2>2, <2>3 DEF Version, Placement!Originals
  <2>5. ASSUME NEW l \in Locs, assetsUsd[l] # None
        PROVE  \E n : /\ assetsUsd'[l] = [assetsUsd[l] EXCEPT !.newer = n]
                      /\ \A y : y # a /\ y \in n => y \in assetsUsd[l].newer
                      /\ a \in n => a \in assetsAged'
    <3> DEFINE n == IF older THEN assetsUsd[l].newer \union {a} ELSE assetsUsd[l].newer \ {a}
    <3>1. assetsUsd'[l] = [assetsUsd[l] EXCEPT !.newer = n]
      BY <2>2, <2>5
    <3>2. (\A y : y # a /\ y \in n => y \in assetsUsd[l].newer) /\ (a \in n => a \in assetsAged')
      BY <2>2
    <3> HIDE DEF n
    <3>3. QED
      BY <3>1, <3>2
  <2>6. QED
    BY <1>5, <2>1, <2>2, <2>4, <2>5
\* A file is authored, empty or whole, in the place of what is placed.
<1>8. ASSUME NEW r, IsPlaced(r), NEW new, Placement!Author(r, new),
             UNCHANGED <<assetsGlb, assetsMade, assetsSide>>,
             \A y : y # r.of /\ y \in assetsAged => y \in assetsAged'
      PROVE  CacheInv'
  <2> DEFINE l0 == r.loc
             n == Placement!VersionOf(r)
             c == assetsLocal[l0]
  <2>1. n = Version(r.of)
    BY <1>8 DEF Placement!VersionOf, IsPlaced, Version
  <2>2. l0 \in Locs /\ Placement!LocOf(r.of) = l0 /\ r.of \in Placement!Originals
    BY <1>8, PlacesAreNamed DEF IsPlaced
  <2>3. /\ assetsUsd' = [assetsUsd EXCEPT ![l0] = [of |-> r.of, v |-> n, newer |-> Placement!Originals, state |-> new]]
        /\ assetsLocal' = [assetsLocal EXCEPT ![l0] = Placement!Beside(r, new)]
    BY <1>8 DEF Placement!Author
  <2>4. \/ Placement!Beside(r, new) = [of |-> r.of, v |-> n, synced |-> TRUE, state |-> new]
        \/ Placement!Beside(r, new) = None
        \/ c # None /\ Placement!Beside(r, new) = [c EXCEPT !.synced = FALSE]
    BY DEF Placement!Beside
  <2> HIDE DEF l0, n, c
  <2>5. /\ assetsUsd'[l0] = [of |-> r.of, v |-> n, newer |-> Placement!Originals, state |-> new]
        /\ assetsLocal'[l0] = Placement!Beside(r, new)
        /\ \A l \in Locs : l # l0 => assetsUsd'[l] = assetsUsd[l] /\ assetsLocal'[l] = assetsLocal[l]
        /\ assetsUsd' = [l \in Locs |-> assetsUsd'[l]]
        /\ assetsLocal' = [l \in Locs |-> assetsLocal'[l]]
    <3> HIDE DEF Locs, Ids, UsdOk, CopyOk
    <3>1. QED
      BY <1>1, <2>2, <2>3
  <2>6. UsdOk(assetsUsd'[l0], l0) /\ assetsUsd'[l0].v = Version(r.of) /\ assetsUsd'[l0].of = r.of
    BY <2>1, <2>2, <2>5
  <2>7. assetsLocal'[l0] # None => CopyOk(assetsLocal'[l0], assetsUsd'[l0])
    <3>1. CASE Placement!Beside(r, new) = [of |-> r.of, v |-> n, synced |-> TRUE, state |-> new]
      BY <2>5, <3>1
    <3>2. CASE c # None /\ Placement!Beside(r, new) = [c EXCEPT !.synced = FALSE]
      <4>1. c = [of |-> c.of, v |-> c.v, synced |-> c.synced, state |-> c.state]
        BY <1>1, <2>2, <3>2 DEF c
      <4>2. \A of, v, st, old, now : [[of |-> of, v |-> v, synced |-> old, state |-> st] EXCEPT !.synced = now]
                                       = [of |-> of, v |-> v, synced |-> now, state |-> st]
        OBVIOUS
      <4>3. assetsLocal'[l0] = [of |-> c.of, v |-> c.v, synced |-> FALSE, state |-> c.state]
        <5>1. assetsLocal'[l0] = [c EXCEPT !.synced = FALSE]
          BY <2>5, <3>2
        <5>2. QED
          BY <4>1, <4>2, <5>1
      <4>4. QED
        BY <4>3
    <3>3. QED
      BY <2>4, <2>5, <3>1, <3>2
  <2>8. \A x \in Placement!Originals : NewVersion(x) = Version(x)
    BY <1>8 DEF Version
  <2>9. ASSUME NEW l \in Locs
        PROVE  /\ assetsUsd'[l] # None =>
                    UsdOk(assetsUsd'[l], l) /\ (assetsUsd'[l].of \in assetsUsd'[l].newer \ assetsAged' => assetsUsd'[l].v = NewVersion(assetsUsd'[l].of))
               /\ assetsLocal'[l] # None => CopyOk(assetsLocal'[l], assetsUsd'[l])
    <3>1. CASE l = l0
      <4>1. NewVersion(assetsUsd'[l].of) = Version(r.of)
        BY <1>8, <2>6, <3>1 DEF Version
      <4> HIDE DEF UsdOk, CopyOk
      <4>2. QED
        BY <2>6, <2>7, <3>1, <4>1
    <3>2. CASE l # l0
      <4>1. assetsUsd'[l] = assetsUsd[l] /\ assetsLocal'[l] = assetsLocal[l]
        BY <2>5, <3>2
      <4>2. NewVersion(assetsUsd'[l].of) = Version(assetsUsd[l].of)
        BY <1>8, <4>1 DEF Version
      <4>3. assetsUsd[l] # None => assetsUsd[l].of # r.of
        BY <1>1, <2>2, <3>2
      <4>4. assetsUsd[l] # None /\ assetsUsd[l].of \in assetsUsd[l].newer \ assetsAged' =>
              assetsUsd[l].of \in assetsUsd[l].newer \ assetsAged
        BY <1>8, <4>3
      <4> HIDE DEF UsdOk, CopyOk
      <4>5. QED
        BY <1>1, <4>1, <4>2, <4>4
    <3>3. QED
      BY <3>1, <3>2
  <2> HIDE DEF UsdOk, CopyOk
  <2>10. QED
    BY <1>1, <1>3, <1>8, <2>5, <2>9
<1>9. ASSUME NEW id \in Ids, Placement!ConvertGlbToUsd(id) PROVE CacheInv'
  <2>1. UNCHANGED <<assetsGlb, assetsMade, assetsSide>>
    BY <1>9 DEF Placement!ConvertGlbToUsd, Placement!library, Placement!stageB1
  <2>2. IsPlaced(assetsPlaced[id])
    <3>1. assetsPc = "usd" /\ assetsLeft # <<>> /\ Head(assetsLeft) = id
      BY <1>9 DEF Placement!ConvertGlbToUsd, Placement!Wants
    <3>2. assetsLeft \in Seq(Placement!PlacementsById)
      BY <1>2, <3>1 DEF AuthoredInv
    <3>3. id \in Placement!PlacementsById
      BY <3>1, <3>2
    <3>4. QED
      BY <1>2, <3>1, <3>3 DEF PlacedInv
  <2>3. /\ Placement!Author(assetsPlaced[id], "empty")
        /\ assetsAged' = assetsAged \ {assetsPlaced[id].of}
    BY <1>9 DEF Placement!ConvertGlbToUsd
  <2>4. QED
    BY <1>8, <2>1, <2>2, <2>3
<1>10. ASSUME NEW id \in Ids, Placement!SaveUsd(id) PROVE CacheInv'
  <2>1. UNCHANGED <<assetsGlb, assetsMade, assetsSide, assetsAged>>
    BY <1>10 DEF Placement!SaveUsd, Placement!library, Placement!stageB1
  <2>2. assetsPc = id /\ Placement!Author(assetsPlaced[id], "whole")
    BY <1>10 DEF Placement!SaveUsd
  <2>3. assetsPc \notin {"idle", "export", "usd"}
    BY <2>2, LibraryAssumption
  <2>4. IsPlaced(assetsPlaced[id])
    BY <1>2, <2>2, <2>3 DEF AuthoredInv, PlacedInv
  <2>5. QED
    BY <1>8, <2>1, <2>2, <2>4
<1>11. ASSUME NEW id \in Ids, Placement!WriteSidecar(id) PROVE CacheInv'
  <2>1. UNCHANGED <<assetsGlb, assetsMade, assetsUsd, assetsLocal, assetsAged>>
    BY <1>11 DEF Placement!WriteSidecar, Placement!library, Placement!stageB1
  <2>2. assetsSide' = [l \in Locs |-> assetsSide'[l]]
    BY <1>1, <1>11 DEF Placement!WriteSidecar
  <2>3. QED
    BY <1>4, <2>1, <2>2
\* A place is copied, whole or in part.
<1>12. ASSUME NEW l0, NEW c, assetsLocal' = [assetsLocal EXCEPT ![l0] = c],
              c = assetsLocal[l0] \/ \E st : c = Placement!Copied(l0, st),
              UNCHANGED <<assetsGlb, assetsMade, assetsUsd, assetsSide, assetsAged>>
       PROVE  CacheInv'
  <2>1. assetsLocal' = [l \in Locs |-> assetsLocal'[l]]
    BY <1>1, <1>12
  <2>2. ASSUME NEW l \in Locs, assetsLocal'[l] # None PROVE CopyOk(assetsLocal'[l], assetsUsd'[l])
    <3>1. CASE assetsLocal'[l] = assetsLocal[l]
      BY <1>1, <1>12, <2>2, <3>1
    <3>2. CASE assetsLocal'[l] # assetsLocal[l]
      <4>1. l = l0 /\ assetsLocal'[l] = c
        BY <1>1, <1>12, <3>2
      <4>2. PICK st, b : c = [of |-> assetsUsd'[l].of, v |-> assetsUsd'[l].v, synced |-> b, state |-> st]
        BY <1>12, <3>2, <4>1 DEF Placement!Copied
      <4>3. CopyOk(c, assetsUsd'[l])
        BY <4>2
      <4>4. QED
        BY <4>1, <4>3
    <3>3. QED
      BY <3>1, <3>2
  <2> HIDE DEF UsdOk, CopyOk
  <2>3. QED
    BY <1>1, <1>3, <1>12, <2>1, <2>2 DEF Version
<1>13. ASSUME NEW id \in Ids, Placement!AddAssetVisual(id) \/ Placement!SyncDies(id) PROVE CacheInv'
  <2> DEFINE l0 == assetsPlaced[id].loc
  <2>1. UNCHANGED <<assetsGlb, assetsMade, assetsUsd, assetsSide, assetsAged>>
    BY <1>13 DEF Placement!AddAssetVisual, Placement!SyncDies, Placement!library, Placement!stageB1
  <2>2. \E c : /\ assetsLocal' = [assetsLocal EXCEPT ![l0] = c]
               /\ c = assetsLocal[l0] \/ \E st : c = Placement!Copied(l0, st)
    <3>1. \/ assetsLocal' = [assetsLocal EXCEPT ![l0] = Placement!SyncDir(l0)]
          \/ assetsLocal' = [assetsLocal EXCEPT ![l0] = Placement!Copied(l0, "torn")]
      BY <1>13 DEF Placement!AddAssetVisual, Placement!SyncDies
    <3>2. Placement!SyncDir(l0) = assetsLocal[l0] \/ \E st : Placement!SyncDir(l0) = Placement!Copied(l0, st)
      BY DEF Placement!SyncDir
    <3> HIDE DEF l0
    <3>3. QED
      BY <3>1, <3>2
  <2> HIDE DEF l0
  <2>3. QED
    BY <1>12, <2>1, <2>2
<1>14. CASE Placement!AssembleDies
  <2>1. UNCHANGED <<assetsUsd, assetsLocal, assetsAged, assetsGlb, assetsMade>>
    BY <1>14 DEF Placement!AssembleDies, Placement!library, Placement!stageB1
  <2>2. assetsSide' = assetsSide \/ \E l : assetsSide' = [assetsSide EXCEPT ![l] = None]
    BY <1>14 DEF Placement!AssembleDies
  <2>3. assetsSide' = [l \in Locs |-> assetsSide'[l]]
    BY <1>1, <2>2
  <2>4. QED
    BY <1>4, <2>1, <2>3
<1>15. ASSUME \/ Placement!BuildCrops \/ Placement!StartGeneration \/ Placement!GenerationEnds
              \/ Placement!ExportGlb \/ Placement!CompareGlbUsdObjects
              \/ (\E small \in BOOLEAN : Placement!Place(small)) \/ Placement!RebuildIndex
              \/ (\E S \in {Assets, {a \in Assets : Info[a].source # "polyhaven"}} : Placement!ListAssets(S))
              \/ UNCHANGED assetsVars
       PROVE  CacheInv'
  <2>1. UNCHANGED <<assetsUsd, assetsSide, assetsLocal, assetsAged, assetsGlb, assetsMade>>
    BY <1>15 DEF Placement!BuildCrops, Placement!StartGeneration, Placement!GenerationEnds,
       Placement!ExportGlb, Placement!CompareGlbUsdObjects, Placement!Place, Placement!RebuildIndex,
       Placement!ListAssets, assetsVars,
       Placement!library, Placement!stageB1, Placement!cache, Placement!scene
  <2>2. QED
    BY <1>1, <1>4, <2>1
<1>16. QED
  BY <1>6, <1>7, <1>11, <1>15, <1>9, <1>10, <1>13, <1>14 DEF Placement!Next

-----------------------------------------------------------------------------
(* Asset placement: what is placed, what is authored, what is shown *)

LEMMA ObjectHasId ==
  ASSUME NEW id \in Placement!Ids
  PROVE  Placement!ObjectOf(id) \in Placeable /\ Placement!ObjectOf(id).id = id
  BY DEF Placement!Ids, Placement!ObjectOf

LEMMA PlacedAreLoaded ==
  ASSUME PlacementInv, NEW small \in BOOLEAN, Placement!Place(small), assetsPc' # "idle"
  PROVE  PlacedInv'
<1> DEFINE ix == Placement!BuildIndex(small)
           one(id) == IF id \in Placement!LoadGenerated THEN Placement!FitGenerated(Placement!ObjectOf(id))
                      ELSE Placement!PlaceAsset(Placement!ObjectOf(id), ix.cands)
<1>1. /\ assetsPlaced' = [id \in Placement!Ids |-> one(id)]
      /\ UNCHANGED <<assetsGlb, assetsMade>>
  BY DEF Placement!Place, Placement!library, Placement!stageB1
<1>2. Candidates(ix.cands)
  <2>1. LibraryInv
    BY DEF PlacementInv
  <2>2. Candidates(Placement!ScanLibrary(small))
    BY <2>1, ScanIsCandidates DEF LibraryInv
  <2>3. (ix = assetsIndex /\ assetsIndex # None) \/ ix.cands = Placement!ScanLibrary(small)
    BY DEF Placement!BuildIndex, Placement!CachedIndex
  <2> HIDE DEF ix
  <2>4. QED
    BY <2>1, <2>2, <2>3 DEF LibraryInv
<1> HIDE DEF ix
<1>3. ASSUME NEW id \in Placement!Ids, one(id).status \in {"placed", "generated"} PROVE IsPlaced(one(id))
  <2> DEFINE o == Placement!ObjectOf(id)
  <2>1. o \in Placeable /\ o.id = id
    BY ObjectHasId
  <2> HIDE DEF o
  <2>2. CASE id \in Placement!LoadGenerated
    <3>1. one(id) = Placement!FitGenerated(o)
      BY <2>2 DEF o
    <3>2. /\ one(id).of = id /\ one(id).v = assetsMade[id] /\ one(id).loc = o.loc
          /\ one(id).status = "generated"
      BY <2>1, <3>1 DEF Placement!FitGenerated
    <3>3. id \notin Assets
      BY LibraryAssumption
    <3> HIDE DEF one
    <3>4. Placement!LocOf(id) = o.loc
      BY <3>3 DEF Placement!LocOf, o
    <3>5. QED
      BY <3>2, <3>3, <3>4 DEF IsPlaced, Placement!Originals, Version
  <2>3. CASE id \notin Placement!LoadGenerated
    <3> DEFINE c == Placement!SelectCandidate(o, ix.cands)
    <3>1. one(id) = Placement!PlaceAsset(o, ix.cands)
      BY <2>3 DEF o
    <3>2. c # None
      BY <1>3, <3>1 DEF Placement!PlaceAsset, Placement!NotPlaced
    <3>3. c.asset \in Assets
      BY <1>2, <2>1, <3>2, SelectedIsCandidate DEF Candidates
    <3>4. /\ one(id).of = c.asset /\ one(id).v = assetsGlb[c.asset] /\ one(id).loc = Info[c.asset].loc
          /\ one(id).status = "placed"
      BY <3>1, <3>2 DEF Placement!PlaceAsset
    <3> HIDE DEF one, c
    <3>5. QED
      BY <3>3, <3>4 DEF IsPlaced, Placement!Originals, Placement!LocOf, Version
  <2>4. QED
    BY <2>2, <2>3
<1> HIDE DEF one
<1>4. DOMAIN assetsPlaced' = Placement!Ids /\ \A id \in Placement!Ids : assetsPlaced'[id] = one(id)
  BY <1>1
<1>5. ASSUME NEW r, IsPlaced(r) PROVE IsPlaced(r)'
  BY <1>1, <1>5 DEF IsPlaced, Placement!Originals, Placement!LocOf, Version
<1>6. ASSUME NEW id \in Placement!PlacementsById' PROVE IsPlaced(assetsPlaced[id])'
  <2>1. id \in Placement!Ids /\ assetsPlaced'[id] = one(id) /\ one(id).status \in {"placed", "generated"}
    BY <1>4, <1>6 DEF Placement!PlacementsById
  <2>2. IsPlaced(one(id))
    BY <1>3, <2>1
  <2>3. QED
    BY <1>1, <2>1, <2>2 DEF IsPlaced, Placement!Originals, Placement!LocOf, Version
<1>7. QED
  BY <1>4, <1>6 DEF PlacedInv, Placement!Ids

\* The steps of an assembly that has placed its objects.
Showing ==
  \/ Placement!ExportGlb \/ Placement!CompareGlbUsdObjects \/ Placement!AssembleDies
  \/ \E id \in Placement!Ids :
       Placement!ConvertGlbToUsd(id) \/ Placement!SaveUsd(id) \/ Placement!WriteSidecar(id)
       \/ Placement!AddAssetVisual(id) \/ Placement!SyncDies(id)

\* A step outside an assembly, or one that only prepares the generation.
Preparing ==
  \/ Placement!BuildCrops \/ Placement!StartGeneration \/ Placement!GenerationEnds
  \/ Placement!GenerateOne \/ Placement!RebuildIndex
  \/ (\E small \in BOOLEAN : Placement!Place(small) /\ assetsPc' = "idle")
  \/ (\E a \in Assets, v \in 0 .. MaxVersion, older \in BOOLEAN : Placement!ReplaceAsset(a, v, older))
  \/ (\E S \in {Assets, {a \in Assets : Info[a].source # "polyhaven"}} : Placement!ListAssets(S))
  \/ UNCHANGED assetsVars

LEMMA PreparingKeeps ==
  ASSUME Preparing
  PROVE  /\ UNCHANGED <<assetsPc, assetsPlaced, assetsRefs, assetsLeft, assetsLocal, assetsSide>>
         /\ assetsCheck' = "none" \/ UNCHANGED <<assetsCheck, assetsAged>>
         /\ assetsPc # "idle" => UNCHANGED <<assetsUsd, assetsGlb, assetsMade>>
<1>1. CASE Placement!BuildCrops \/ Placement!StartGeneration \/ Placement!GenerationEnds \/ Placement!RebuildIndex
  BY <1>1 DEF Placement!BuildCrops, Placement!StartGeneration, Placement!GenerationEnds,
     Placement!RebuildIndex, Placement!library, Placement!stageB1, Placement!cache, Placement!scene
<1>2. CASE Placement!GenerateOne
  BY <1>2 DEF Placement!GenerateOne, Placement!scene
<1>3. ASSUME NEW small \in BOOLEAN, Placement!Place(small), assetsPc' = "idle"
      PROVE  UNCHANGED <<assetsPc, assetsPlaced, assetsRefs, assetsLeft, assetsLocal, assetsSide, assetsCheck, assetsAged>>
             /\ assetsPc = "idle"
  BY <1>3 DEF Placement!Place, Placement!cache
<1>4. ASSUME NEW a \in Assets, NEW v \in 0 .. MaxVersion, NEW older \in BOOLEAN,
             Placement!ReplaceAsset(a, v, older)
      PROVE  /\ UNCHANGED <<assetsPc, assetsPlaced, assetsRefs, assetsLeft, assetsLocal, assetsSide>>
             /\ assetsCheck' = "none" /\ assetsPc = "idle"
  BY <1>4 DEF Placement!ReplaceAsset
<1>5. ASSUME NEW S, Placement!ListAssets(S)
      PROVE  /\ UNCHANGED <<assetsPc, assetsPlaced, assetsRefs, assetsLeft, assetsLocal, assetsSide>>
             /\ assetsCheck' = "none" /\ assetsPc = "idle"
  BY <1>5 DEF Placement!ListAssets, Placement!cache
<1>6. CASE UNCHANGED assetsVars
  BY <1>6 DEF assetsVars
<1>7. QED
  BY <1>1, <1>2, <1>3, <1>4, <1>5, <1>6 DEF Preparing

LEMMA ShowingKeeps ==
  ASSUME Showing
  PROVE  UNCHANGED <<assetsGlb, assetsMade, assetsPlaced>>
  BY DEF Showing, Placement!ExportGlb, Placement!CompareGlbUsdObjects, Placement!AssembleDies,
         Placement!ConvertGlbToUsd, Placement!SaveUsd, Placement!WriteSidecar,
         Placement!AddAssetVisual, Placement!SyncDies, Placement!Dies,
         Placement!library, Placement!stageB1, Placement!cache, Placement!scene

LEMMA StepsOfPlacement ==
  ASSUME [Placement!Next]_assetsVars
  PROVE  Preparing \/ Showing \/ \E small \in BOOLEAN : Placement!Place(small) /\ assetsPc' # "idle"
  BY DEF Placement!Next, Preparing, Showing

LEMMA StepPlaced == ASSUME PlacementInv, [Placement!Next]_assetsVars PROVE PlacedInv'
<1>1. PlacedInv
  BY DEF PlacementInv
<1>2. ASSUME UNCHANGED <<assetsGlb, assetsMade, assetsPlaced>>, assetsPc # "idle"
      PROVE  PlacedInv'
  BY <1>1, <1>2 DEF PlacedInv, IsPlaced, Version, Placement!LocOf, Placement!Originals, Placement!PlacementsById, Placement!Ids
<1>3. CASE Preparing
  <2>1. CASE assetsPc = "idle"
    BY <1>3, <2>1, PreparingKeeps DEF PlacedInv
  <2>2. CASE assetsPc # "idle"
    BY <1>2, <1>3, <2>2, PreparingKeeps
  <2>3. QED
    BY <2>1, <2>2
<1>4. CASE Showing
  <2>1. UNCHANGED <<assetsGlb, assetsMade, assetsPlaced>>
    BY <1>4, ShowingKeeps
  <2>2. assetsPc # "idle"
    BY <1>4, LibraryAssumption DEF Showing, Placement!ExportGlb, Placement!CompareGlbUsdObjects,
       Placement!AssembleDies, Placement!ConvertGlbToUsd, Placement!SaveUsd, Placement!WriteSidecar,
         Placement!AddAssetVisual, Placement!SyncDies, Placement!Dies
  <2>3. QED
    BY <1>2, <2>1, <2>2
<1>5. QED
  BY <1>3, <1>4, StepsOfPlacement, PlacedAreLoaded

\* Every finite set can be put in order.
LEMMA SetInOrder ==
  ASSUME NEW S, IsFiniteSet(S) PROVE Placement!SetToSeq(S) \in Seq(S)
<1> DEFINE n == Cardinality(S)
<1>1. n \in Nat /\ \E f \in [1 .. n -> S] : Placement!IsInjective(f)
  <2>1. n \in Nat /\ ExistsBijection(1 .. n, S)
    BY FS_CardinalityType
  <2> HIDE DEF n
  <2>2. PICK f \in Bijection(1 .. n, S) : TRUE
    BY <2>1 DEF ExistsBijection
  <2>3. f \in [1 .. n -> S] /\ Placement!IsInjective(f)
    BY <2>2 DEF Bijection, Injection, IsInjective, Placement!IsInjective
  <2>4. QED
    BY <2>1, <2>3
<1>2. Placement!SetToSeq(S) = CHOOSE f \in [1 .. n -> S] : Placement!IsInjective(f)
  BY PlacementCardinality DEF Placement!SetToSeq
<1> HIDE DEF n
<1>3. Placement!SetToSeq(S) \in [1 .. n -> S]
  BY <1>1, <1>2
<1>4. QED
  BY <1>1, <1>3

LEMMA PlacementsAreFinite ==
  ASSUME DOMAIN assetsPlaced = Placement!Ids
  PROVE  IsFiniteSet(Placement!PlacementsById) /\ Placement!PlacementsById \subseteq Placement!Ids
<1> DEFINE f == [o \in Placeable |-> o.id]
<1>1. Placement!Ids = {f[o] : o \in Placeable}
  BY DEF Placement!Ids
<1> HIDE DEF f
<1>2. IsFiniteSet(Placement!Ids)
  BY <1>1, LibraryAssumption, FiniteImage
<1>3. Placement!PlacementsById \subseteq Placement!Ids
  BY DEF Placement!PlacementsById
<1>4. QED
  BY <1>2, <1>3, FS_Subset

LEMMA StepAuthored == ASSUME PlacementInv, [Placement!Next]_assetsVars PROVE AuthoredInv'
<1> DEFINE P == Placement!PlacementsById
           Shows(i) ==
             /\ i \in P /\ assetsRefs[i].loc = assetsPlaced[i].loc
             /\ Placement!Alone(assetsPlaced[i].of) =>
                  /\ Placement!Converted(assetsPlaced[i])
                  /\ assetsLocal[assetsRefs[i].loc].of = assetsUsd[assetsRefs[i].loc].of
                  /\ assetsLocal[assetsRefs[i].loc].v = assetsUsd[assetsRefs[i].loc].v
           Clear(l) == \A i \in DOMAIN assetsRefs : Placement!Alone(assetsPlaced[i].of) => assetsPlaced[i].loc # l
<1>1. PlacedInv /\ AuthoredInv /\ CacheInv
  BY DEF PlacementInv
<1>2. CASE Preparing
  <2>1. CASE assetsPc = "idle"
    BY <1>2, <2>1, PreparingKeeps DEF AuthoredInv
  <2>2. CASE assetsPc # "idle"
    <3>1. UNCHANGED <<assetsPc, assetsPlaced, assetsRefs, assetsLeft, assetsLocal, assetsSide, assetsUsd>>
      BY <1>2, <2>2, PreparingKeeps
    <3>2. QED
      BY <1>1, <3>1 DEF AuthoredInv, Placement!Converted, Placement!PlacementsById, Placement!Alone
  <2>3. QED
    BY <2>1, <2>2
<1>3. ASSUME NEW small \in BOOLEAN, Placement!Place(small), assetsPc' # "idle" PROVE AuthoredInv'
  BY <1>3 DEF Placement!Place, AuthoredInv
<1>4. CASE Placement!ExportGlb
  <2>1. /\ assetsPc = "export" /\ assetsPc' = "usd" /\ assetsLeft' = Placement!SetToSeq(P)
        /\ assetsRefs' = Placement!Empty /\ assetsPlaced' = assetsPlaced
    BY <1>4 DEF Placement!ExportGlb
  <2>2. IsFiniteSet(P)
    BY <1>1, <2>1, PlacementsAreFinite DEF PlacedInv
  <2>3. assetsLeft' \in Seq(P)
    BY <2>1, <2>2, SetInOrder
  <2>4. P' = P
    BY <2>1 DEF Placement!PlacementsById
  <2>5. DOMAIN assetsRefs' = {}
    BY <2>1 DEF Placement!Empty
  <2>6. QED
    BY <2>1, <2>3, <2>4, <2>5 DEF AuthoredInv
<1>5. CASE \/ Placement!CompareGlbUsdObjects \/ Placement!AssembleDies
           \/ \E id \in Placement!Ids : Placement!SyncDies(id)
  BY <1>5 DEF Placement!CompareGlbUsdObjects, Placement!AssembleDies, Placement!SyncDies, Placement!Dies,
     AuthoredInv
\* In an assembly what is left and what is referenced is placed.
<1>6. ASSUME assetsPc \notin {"idle", "export"}
      PROVE  /\ assetsLeft \in Seq(P) /\ (assetsPc # "usd" => assetsPc \in P)
             /\ assetsPc # "usd" => Clear(assetsPlaced[assetsPc].loc)
             /\ \A i \in DOMAIN assetsRefs : Shows(i)
             /\ \A i \in P : IsPlaced(assetsPlaced[i])
             /\ P \subseteq Placement!Ids
  BY <1>1, <1>6 DEF AuthoredInv, PlacedInv, Placement!PlacementsById
\* A placement whose file is alone in its place shares the place with placements of that file only.
<1>7. ASSUME assetsPc \notin {"idle", "export"}, NEW i \in P, NEW j \in P,
             assetsPlaced[i].loc = assetsPlaced[j].loc, Placement!Alone(assetsPlaced[i].of)
      PROVE  assetsPlaced[i].of = assetsPlaced[j].of
  BY <1>6, <1>7, AloneInItsPlace DEF IsPlaced
\* Authoring a place that no such file refers to leaves what is referenced as it is.
<1>8. ASSUME assetsPc \notin {"idle", "export"}, NEW l0, Clear(l0),
             \A i \in DOMAIN assetsRefs : Shows(i),
             \E u : assetsUsd' = [assetsUsd EXCEPT ![l0] = u],
             \E c : assetsLocal' = [assetsLocal EXCEPT ![l0] = c],
             UNCHANGED <<assetsPlaced, assetsRefs, assetsSide>>
      PROVE  P' = P /\ \A i \in DOMAIN assetsRefs : Shows(i)'
  <2>1. \A l : l # l0 => assetsUsd'[l] = assetsUsd[l] /\ assetsLocal'[l] = assetsLocal[l]
    BY <1>1, <1>8 DEF CacheInv
  <2>2. P' = P
    BY <1>8 DEF Placement!PlacementsById
  <2>3. ASSUME NEW i \in DOMAIN assetsRefs PROVE Shows(i)'
    <3>1. Shows(i)
      BY <1>8
    <3>2. CASE Placement!Alone(assetsPlaced[i].of)
      <4>1. assetsPlaced[i].loc # l0
        BY <1>8, <3>2
      <4>2. QED
        BY <1>8, <2>1, <2>2, <3>1, <4>1 DEF Placement!Converted
    <3>3. CASE ~Placement!Alone(assetsPlaced[i].of)
      <4>1. ~Placement!Alone(assetsPlaced'[i].of)
        BY <1>8, <3>3
      <4>2. i \in P' /\ assetsRefs'[i].loc = assetsPlaced'[i].loc
        BY <1>8, <2>2, <3>1
      <4>3. QED
        BY <4>1, <4>2 DEF Placement!Alone
    <3>4. QED
      BY <3>2, <3>3
  <2>4. QED
    BY <2>2, <2>3
<1>9. ASSUME NEW id \in Placement!Ids, Placement!ConvertGlbToUsd(id) PROVE AuthoredInv'
  <2> DEFINE l0 == assetsPlaced[id].loc
  <2>1. /\ assetsPc = "usd" /\ assetsLeft # <<>> /\ Head(assetsLeft) = id /\ assetsPc' = id
        /\ ~Placement!Converted(assetsPlaced[id])
        /\ UNCHANGED <<assetsPlaced, assetsRefs, assetsLeft, assetsSide>>
    BY <1>9 DEF Placement!ConvertGlbToUsd, Placement!Wants, Placement!scene
  <2>2. id \in P /\ \A i \in DOMAIN assetsRefs : Shows(i)
    BY <1>6, <2>1
  <2>3. /\ \E u : assetsUsd' = [assetsUsd EXCEPT ![l0] = u]
        /\ \E c : assetsLocal' = [assetsLocal EXCEPT ![l0] = c]
    BY <1>9 DEF Placement!ConvertGlbToUsd, Placement!Author
  <2>4. Clear(l0)
    <3>1. SUFFICES ASSUME NEW i \in DOMAIN assetsRefs, Placement!Alone(assetsPlaced[i].of), assetsPlaced[i].loc = l0
                   PROVE  FALSE
      OBVIOUS
    <3>2. i \in P /\ Placement!Converted(assetsPlaced[i])
      BY <2>2, <3>1
    <3>3. assetsPlaced[i].of = assetsPlaced[id].of
      BY <1>7, <2>1, <2>2, <3>1, <3>2
    <3>4. QED
      BY <2>1, <3>1, <3>2, <3>3 DEF Placement!Converted
  <2>5. P' = P /\ (\A i \in DOMAIN assetsRefs : Shows(i)')
    <3> HIDE DEF l0, P, Shows, Clear
    <3>1. QED
      BY <1>8, <2>1, <2>2, <2>3, <2>4
  <2>6. DOMAIN assetsRefs' = DOMAIN assetsRefs /\ assetsLeft' \in Seq(P)
    BY <1>6, <2>1
  <2>7. \A i \in DOMAIN assetsRefs' : Placement!Alone(assetsPlaced'[i].of) => assetsPlaced'[i].loc # assetsPlaced'[id].loc
    BY <2>1, <2>4
  <2>8. QED
    BY <2>1, <2>2, <2>5, <2>6, <2>7 DEF AuthoredInv, Placement!Alone
<1>10. ASSUME NEW id \in Placement!Ids, Placement!SaveUsd(id) PROVE AuthoredInv'
  <2> DEFINE l0 == assetsPlaced[id].loc
  <2>1. /\ assetsPc = id /\ assetsPc' = id
        /\ UNCHANGED <<assetsPlaced, assetsRefs, assetsLeft, assetsSide>>
    BY <1>10 DEF Placement!SaveUsd, Placement!scene
  <2>2. assetsPc \notin {"idle", "export", "usd"}
    BY <2>1, LibraryAssumption
  <2>3. id \in P /\ (\A i \in DOMAIN assetsRefs : Shows(i)) /\ Clear(l0)
    BY <1>6, <2>1, <2>2
  <2>4. /\ \E u : assetsUsd' = [assetsUsd EXCEPT ![l0] = u]
        /\ \E c : assetsLocal' = [assetsLocal EXCEPT ![l0] = c]
    BY <1>10 DEF Placement!SaveUsd, Placement!Author
  <2>5. P' = P /\ (\A i \in DOMAIN assetsRefs : Shows(i)')
    <3> HIDE DEF l0, P, Shows, Clear
    <3>1. QED
      BY <1>8, <2>1, <2>2, <2>3, <2>4
  <2>6. DOMAIN assetsRefs' = DOMAIN assetsRefs /\ assetsLeft' \in Seq(P)
    BY <1>6, <2>1, <2>2
  <2>7. \A i \in DOMAIN assetsRefs' : Placement!Alone(assetsPlaced'[i].of) => assetsPlaced'[i].loc # assetsPlaced'[id].loc
    BY <2>1, <2>3
  <2>8. QED
    BY <2>1, <2>2, <2>3, <2>5, <2>6, <2>7 DEF AuthoredInv, Placement!Alone
<1>11. ASSUME NEW id \in Placement!Ids, Placement!WriteSidecar(id) PROVE AuthoredInv'
  <2> DEFINE l0 == assetsPlaced[id].loc
  <2>1. /\ assetsPc = id /\ assetsPc' = "usd"
        /\ UNCHANGED <<assetsPlaced, assetsRefs, assetsLeft, assetsUsd, assetsLocal>>
    BY <1>11 DEF Placement!WriteSidecar, Placement!scene
  <2>2. assetsPc \notin {"idle", "export", "usd"}
    BY <2>1, LibraryAssumption
  <2>3. id \in P /\ \A i \in DOMAIN assetsRefs : Shows(i)
    BY <1>6, <2>1, <2>2
  <2>4. assetsSide' = [assetsSide EXCEPT ![l0] = [of |-> assetsPlaced[id].of, v |-> Placement!VersionOf(assetsPlaced[id])]]
    BY <1>11 DEF Placement!WriteSidecar
  <2>5. ASSUME NEW i \in DOMAIN assetsRefs PROVE Shows(i)'
    <3>1. i \in P' /\ Shows(i)
      BY <2>1, <2>3 DEF Placement!PlacementsById
    <3>2. CASE Placement!Alone(assetsPlaced[i].of)
      <4>1. assetsPlaced[i].loc # l0
        BY <1>6, <2>1, <2>2, <3>2
      <4>2. assetsSide'[assetsPlaced[i].loc] = assetsSide[assetsPlaced[i].loc]
        <5> HIDE DEF l0
        <5>1. QED
          BY <1>1, <2>4, <4>1 DEF CacheInv
      <4>3. QED
        BY <2>1, <3>1, <3>2, <4>2 DEF Placement!Converted
    <3>3. CASE ~Placement!Alone(assetsPlaced[i].of)
      BY <2>1, <3>1, <3>3 DEF Placement!Alone
    <3>4. QED
      BY <3>2, <3>3
  <2>6. P' = P /\ DOMAIN assetsRefs' = DOMAIN assetsRefs
    BY <2>1 DEF Placement!PlacementsById
  <2>7. assetsLeft' \in Seq(P)
    BY <1>6, <2>1, <2>2
  <2>8. QED
    BY <2>1, <2>5, <2>6, <2>7 DEF AuthoredInv, Placement!Alone
<1>12. ASSUME NEW id \in Placement!Ids, Placement!AddAssetVisual(id) PROVE AuthoredInv'
  <2> DEFINE l0 == assetsPlaced[id].loc
  <2>1. /\ assetsPc = "usd" /\ assetsLeft # <<>> /\ Head(assetsLeft) = id /\ assetsPc' = "usd"
        /\ Placement!Converted(assetsPlaced[id])
        /\ assetsLeft' = Tail(assetsLeft)
        /\ UNCHANGED <<assetsPlaced, assetsUsd, assetsSide>>
    BY <1>12 DEF Placement!AddAssetVisual, Placement!Wants
  <2>2. assetsLeft \in Seq(P) /\ id \in P /\ \A i \in DOMAIN assetsRefs : Shows(i)
    BY <1>6, <2>1
  <2>3. assetsLeft' \in Seq(P)
    BY <2>1, <2>2
  <2>4. /\ assetsLocal' = [assetsLocal EXCEPT ![l0] = Placement!SyncDir(l0)]
        /\ assetsRefs' = [i \in DOMAIN assetsRefs \union {id} |->
                            IF i = id THEN [loc |-> l0, of |-> assetsSide[l0].of, v |-> assetsSide[l0].v]
                            ELSE assetsRefs[i]]
    BY <1>12 DEF Placement!AddAssetVisual
  <2>5. l0 \in Placement!Locs
    BY <1>6, <2>1, <2>2, PlacesAreNamed DEF IsPlaced
  <2>6. assetsLocal'[l0].of = assetsUsd[l0].of /\ assetsLocal'[l0].v = assetsUsd[l0].v
    <3> HIDE DEF l0
    <3>1. assetsLocal'[l0] = Placement!SyncDir(l0)
      BY <1>1, <2>4, <2>5 DEF CacheInv
    <3>2. QED
      BY <1>1, <2>5, <3>1 DEF CacheInv, Placement!SyncDir, Placement!Synced, Placement!Copied
  <2>7. ASSUME NEW i \in DOMAIN assetsRefs' PROVE Shows(i)'
    <3>1. P' = P
      BY <2>1 DEF Placement!PlacementsById
    <3>2. CASE i = id
      <4>1. assetsRefs'[i].loc = l0
        BY <2>4, <3>2
      <4>2. QED
        BY <2>1, <2>2, <2>6, <3>1, <3>2, <4>1 DEF Placement!Converted, Placement!Alone
    <3>3. CASE i # id
      <4>1. i \in DOMAIN assetsRefs /\ assetsRefs'[i] = assetsRefs[i]
        BY <2>4, <3>3
      <4>2. Shows(i)
        BY <2>2, <4>1
      <4>3. /\ assetsRefs'[i].loc = assetsPlaced'[i].loc /\ i \in P'
            /\ Placement!Alone(assetsPlaced[i].of) => Placement!Converted(assetsPlaced[i])'
        BY <2>1, <3>1, <4>1, <4>2 DEF Placement!Converted
      <4>4. CASE assetsRefs[i].loc = l0
        BY <2>1, <2>6, <4>1, <4>3, <4>4 DEF Placement!Alone
      <4>5. CASE assetsRefs[i].loc # l0
        <5>1. assetsLocal'[assetsRefs[i].loc] = assetsLocal[assetsRefs[i].loc]
          <6> HIDE DEF l0
          <6>1. QED
            BY <1>1, <2>4, <4>5 DEF CacheInv
        <5>2. QED
          BY <2>1, <4>1, <4>2, <4>3, <5>1 DEF Placement!Alone
      <4>6. QED
        BY <4>4, <4>5
    <3>4. QED
      BY <3>2, <3>3
  <2>8. P' = P
    BY <2>1 DEF Placement!PlacementsById
  <2>9. QED
    BY <2>1, <2>3, <2>7, <2>8 DEF AuthoredInv, Placement!Alone
<1>13. QED
  BY <1>2, <1>3, <1>4, <1>5, <1>9, <1>10, <1>11, <1>12, StepsOfPlacement DEF Showing

LEMMA StepShown ==
  ASSUME PlacementInv, [Placement!Next]_assetsVars
  PROVE  Placement!VisualsAreCurrent'
<1>1. /\ LibraryInv /\ CacheInv /\ PlacedInv /\ AuthoredInv /\ Placement!VisualsAreCurrent
  BY DEF PlacementInv
<1>2. CASE Preparing
  BY <1>1, <1>2, PreparingKeeps DEF Placement!VisualsAreCurrent, Placement!Alone
<1>3. ASSUME NEW small \in BOOLEAN, Placement!Place(small), assetsPc' # "idle"
      PROVE  Placement!VisualsAreCurrent'
  BY <1>3 DEF Placement!VisualsAreCurrent
<1>4. CASE Placement!CompareGlbUsdObjects
  <2>1. assetsPc = "usd" /\ UNCHANGED <<assetsRefs, assetsLocal, assetsPlaced, assetsAged>>
    BY <1>4 DEF Placement!CompareGlbUsdObjects, Placement!cache
  <2>2. assetsCheck' = "ok" => \A id \in DOMAIN assetsRefs : assetsLocal[assetsRefs[id].loc].state = "whole"
    <3>1. \A id \in DOMAIN assetsRefs : id \in Placement!PlacementsById
      BY <1>1, <2>1 DEF AuthoredInv
    <3>2. QED
      BY <1>4, <3>1 DEF Placement!CompareGlbUsdObjects
  <2>3. ASSUME NEW id \in DOMAIN assetsRefs, Placement!Alone(assetsPlaced[id].of), assetsPlaced[id].of \notin assetsAged
        PROVE  /\ assetsLocal[assetsRefs[id].loc].of = assetsPlaced[id].of
               /\ assetsLocal[assetsRefs[id].loc].v = assetsPlaced[id].v
    <3> DEFINE r == assetsPlaced[id]
               u == assetsUsd[r.loc]
    <3>1. /\ id \in Placement!PlacementsById /\ assetsRefs[id].loc = r.loc /\ Placement!Converted(r)
          /\ assetsLocal[r.loc].of = u.of /\ assetsLocal[r.loc].v = u.v
      BY <1>1, <2>1, <2>3 DEF AuthoredInv
    <3>2. IsPlaced(r)
      BY <1>1, <2>1, <3>1 DEF PlacedInv
    <3>3. r.loc \in Placement!Locs
      BY <3>2, PlacesAreNamed DEF IsPlaced
    <3>4. u # None /\ r.of \in u.newer
      BY <3>1 DEF Placement!Converted
    <3>5. /\ u.of \in Placement!Originals /\ Placement!LocOf(u.of) = r.loc
          /\ u.of \in u.newer \ assetsAged => u.v = Version(u.of)
      BY <1>1, <3>3, <3>4 DEF CacheInv
    <3> HIDE DEF r, u
    <3>6. u.of = r.of
      BY <2>3, <3>2, <3>5, AloneInItsPlace DEF IsPlaced, r
    <3>7. u.v = r.v
      BY <2>3, <3>2, <3>4, <3>5, <3>6 DEF IsPlaced, r
    <3>8. QED
      BY <3>1, <3>6, <3>7 DEF r
  <2>4. QED
    BY <2>1, <2>2, <2>3 DEF Placement!VisualsAreCurrent, Placement!Alone
<1>5. CASE Placement!AssembleDies
  BY <1>5 DEF Placement!AssembleDies, Placement!Dies, Placement!VisualsAreCurrent
<1>6. ASSUME NEW id \in Placement!Ids,
             \/ Placement!ConvertGlbToUsd(id) \/ Placement!SaveUsd(id) \/ Placement!WriteSidecar(id)
             \/ Placement!AddAssetVisual(id) \/ Placement!SyncDies(id)
      PROVE  Placement!VisualsAreCurrent'
  <2>1. assetsPc' # "idle" \/ assetsCheck' = "none"
    BY <1>6, LibraryAssumption DEF Placement!ConvertGlbToUsd, Placement!SaveUsd, Placement!WriteSidecar,
         Placement!AddAssetVisual, Placement!SyncDies, Placement!Dies
  <2>2. QED
    BY <2>1 DEF Placement!VisualsAreCurrent
<1>7. CASE Placement!ExportGlb
  BY <1>7 DEF Placement!ExportGlb, Placement!VisualsAreCurrent
<1>8. QED
  BY <1>2, <1>3, <1>4, <1>5, <1>6, <1>7, StepsOfPlacement DEF Showing

LEMMA StepPlacementInv ==
  ASSUME PlacementInv, [Placement!Next]_assetsVars PROVE PlacementInv'
  BY StepLibrary, StepCache, StepPlaced, StepAuthored, StepShown DEF PlacementInv

\* A step of a behaviour is a step of the assembly or leaves it alone.
LEMMA StepOfPlacement == ASSUME [Next]_vars PROVE [Placement!Next]_assetsVars
  BY DEF Next, vars

(* An assembly that ends with its GLB and USD in agreement shows, for every library and every
   sequence of replaced, lost and regenerated files and of assemblies that died between the creation
   of a converted file, its saving, its sidecar and its copy, whole files in the versions its GLB was
   built from: but for a file that shares its place with another, and one an older file has
   replaced, the times of the cache and of the copies beside the scene are enough. *)
THEOREM ShownIsPlaced == Spec => []VisualsAreCurrent
<1>1. Init => PlacementInv
  BY InitPlacementInv DEF Init
<1>2. PlacementInv /\ [Next]_vars => PlacementInv'
  BY StepOfPlacement, StepPlacementInv
<1>3. PlacementInv => VisualsAreCurrent
  BY DEF PlacementInv, VisualsAreCurrent
<1>4. QED
  BY <1>1, <1>2, <1>3, PTL DEF Spec
=============================================================================
