------------------------ MODULE PipelineResumeProofs ------------------------
(***************************************************************************)
(* What PipelineResume promises for any number of runs, votes and command  *)
(* lines.                                                                  *)
(***************************************************************************)
EXTENDS PipelineResume, TLAPS, SequenceTheorems

-----------------------------------------------------------------------------
(* The arms of a command line *)

\* An arm that may be fused for flags f: its directory names the vote of its stack.
ArmFor(a, f) ==
  /\ a \in Arms
  /\ a.vote = VoteFor(a.dest, f)
  /\ a.file = "raw" => a.vote = "off"

LEMMA PutInFront ==
  ASSUME NEW S, NEW e \in S, NEW s \in Seq(S)
  PROVE  /\ <<e>> \o s \in Seq(S) /\ Len(<<e>> \o s) = Len(s) + 1
         /\ (<<e>> \o s)[1] = e
         /\ \A k \in 1..Len(s) : (<<e>> \o s)[k + 1] = s[k]
OBVIOUS

\* Alternates are arms of their own directories, never the scene's.
LEMMA AlternatesAreArms ==
  ASSUME NEW f \in Flags
  PROVE  /\ Alternates(f) \in Seq(Arms) /\ Len(Alternates(f)) = Len(f.also)
         /\ \A i \in 1..Len(f.also) : /\ ArmFor(Alternates(f)[i], f)
                                      /\ Alternates(f)[i].dest # "scene"
                                      /\ Alternates(f)[i].file # "raw"
<1>1. f.also \in Seq(Votes)
  BY DEF Flags
<1>2. \A i \in 1..Len(f.also) : f.also[i] \in Votes /\ f.also[i] \notin {"scene", "unfiltered", "raw"}
  BY <1>1, VotesAssumption
<1>3. \A i \in 1..Len(f.also) : ArmFor(Alternates(f)[i], f)
  BY <1>2 DEF Alternates, ArmFor, Arms, Stacks, Dests, VoteFor
<1>4. Len(f.also) \in Nat
  BY <1>1
<1>5. \A i \in 1..Len(f.also) :
         [file |-> f.also[i], vote |-> f.also[i], dest |-> f.also[i]] \in Arms
  BY <1>2 DEF Arms, Stacks, Dests
<1>6. Alternates(f) \in [1..Len(f.also) -> Arms]
  BY <1>5 DEF Alternates
<1>7. Alternates(f) \in Seq(Arms) /\ Len(Alternates(f)) = Len(f.also)
  BY <1>4, <1>6
<1>8. QED
  BY <1>2, <1>3, <1>7 DEF Alternates

LEMMA PrimaryIsArm ==
  ASSUME NEW f \in Flags
  PROVE  ArmFor(Primary(f), f) /\ Primary(f).dest = "scene"
  BY VotesAssumption DEF Flags, Primary, ArmFor, Arms, Stacks, Dests, VoteFor

\* The controls are arms of directories other than the scene's, and their filtered stacks
\* are among those MVFILTER makes.
LEMMA ControlsAreArms ==
  ASSUME NEW f \in Flags
  PROVE  /\ Controls(f) \in Seq(Arms)
         /\ \A i \in 1..Len(Controls(f)) :
              LET a == Controls(f)[i]
              IN /\ ArmFor(a, f) /\ a.dest # "scene"
                 /\ a.file # "raw" => \E j \in 1..Len(FilterArms(f)) : a = FilterArms(f)[j]
<1> DEFINE raw == [file |-> "raw", vote |-> "off", dest |-> "unfiltered"]
           alt == Alternates(f)
           head == IF f.ab THEN <<raw>> ELSE <<>>
<1>1. ArmFor(raw, f) /\ raw \in Arms
  BY DEF ArmFor, Arms, Stacks, Dests, VoteFor
<1>2. head \in Seq(Arms) /\ (\A i \in 1..Len(head) : head[i] = raw)
  BY <1>1
<1>3. alt \in Seq(Arms) /\ Len(alt) = Len(f.also) /\ Len(alt) \in Nat
  BY AlternatesAreArms DEF Flags
<1>4. Controls(f) = head \o alt
  BY DEF Controls
<1>5. Controls(f) \in Seq(Arms)
  BY <1>2, <1>3, <1>4
<1>6. ASSUME NEW i \in 1..Len(Controls(f)), Controls(f)[i].file # "raw"
      PROVE  \E j \in 1..Len(FilterArms(f)) : Controls(f)[i] = FilterArms(f)[j]
  <2>1. i > Len(head) /\ Controls(f)[i] = alt[i - Len(head)] /\ i - Len(head) \in 1..Len(alt)
    BY <1>2, <1>3, <1>4, <1>6
  <2>2. f.also # <<>>
    BY <2>1, <1>3 DEF Flags
  <2>3. FilterArms(f) = <<Primary(f)>> \o alt
    BY <2>2 DEF FilterArms, Flags
  <2>4. Primary(f) \in Arms
    BY PrimaryIsArm DEF ArmFor
  <2>5. /\ Len(FilterArms(f)) = Len(alt) + 1
        /\ \A k \in 1..Len(alt) : FilterArms(f)[k + 1] = alt[k]
    BY <2>3, <2>4, <1>3, PutInFront
  <2>6. PICK k \in 1..Len(alt) : Controls(f)[i] = alt[k]
    BY <2>1
  <2>7. k + 1 \in 1..Len(FilterArms(f)) /\ FilterArms(f)[k + 1] = Controls(f)[i]
    BY <2>5, <2>6, <1>3
  <2>8. QED
    BY <2>7
<1>7. ASSUME NEW i \in 1..Len(Controls(f))
      PROVE  ArmFor(Controls(f)[i], f) /\ Controls(f)[i].dest # "scene"
  <2>1. CASE i <= Len(head)
    BY <2>1, <1>1, <1>2, <1>3, <1>4
  <2>2. CASE i > Len(head)
    <3>1. Controls(f)[i] = alt[i - Len(head)] /\ i - Len(head) \in 1..Len(f.also)
      BY <2>2, <1>2, <1>3, <1>4
    <3>2. QED
      BY <3>1, AlternatesAreArms
  <2>3. QED
    BY <2>1, <2>2, <1>2
<1>8. QED
  BY <1>5, <1>6, <1>7

\* The fusions of a run: its controls in their order, then its own scene.
LEMMA FusionsAreArms ==
  ASSUME NEW f \in Flags
  PROVE  LET c == Controls(f) p == FusionArms(f)
         IN /\ p \in Seq(Arms) /\ Len(c) \in Nat /\ Len(p) = Len(c) + 1
            /\ p[Len(p)] = Primary(f)
            /\ \A i \in 1..Len(c) : p[i] = c[i]
            /\ \A i \in 1..Len(p) :
                 /\ ArmFor(p[i], f)
                 /\ p[i].dest = "scene" <=> i = Len(p)
                 /\ p[i].file # "raw" => \E j \in 1..Len(FilterArms(f)) : p[i] = FilterArms(f)[j]
<1> DEFINE c == Controls(f)
           p == FusionArms(f)
<1>1. c \in Seq(Arms) /\ Len(c) \in Nat
  BY ControlsAreArms
<1>2. ArmFor(Primary(f), f) /\ Primary(f) \in Arms /\ Primary(f).dest = "scene"
  BY PrimaryIsArm DEF ArmFor
<1>3. /\ p \in Seq(Arms) /\ Len(p) = Len(c) + 1 /\ p[Len(p)] = Primary(f)
      /\ \A i \in 1..Len(c) : p[i] = c[i]
  BY <1>1, <1>2 DEF FusionArms
<1>4. Primary(f).file # "raw" => \E j \in 1..Len(FilterArms(f)) : Primary(f) = FilterArms(f)[j]
  <2> SUFFICES ASSUME Primary(f).file # "raw"
               PROVE  \E j \in 1..Len(FilterArms(f)) : Primary(f) = FilterArms(f)[j]
    OBVIOUS
  <2>1. FilterArms(f) = <<Primary(f)>> \o Alternates(f)
    BY DEF FilterArms, Primary
  <2>2. Len(FilterArms(f)) >= 1 /\ FilterArms(f)[1] = Primary(f) /\ Len(FilterArms(f)) \in Nat
    BY <2>1, <1>2, AlternatesAreArms
  <2>3. QED
    BY <2>2
<1>5. ASSUME NEW i \in 1..Len(p)
      PROVE  /\ ArmFor(p[i], f)
             /\ p[i].dest = "scene" <=> i = Len(p)
             /\ p[i].file # "raw" => \E j \in 1..Len(FilterArms(f)) : p[i] = FilterArms(f)[j]
  <2>1. CASE i = Len(p)
    BY <2>1, <1>2, <1>3, <1>4
  <2>2. CASE i # Len(p)
    <3>1. i \in 1..Len(c) /\ p[i] = c[i]
      BY <2>2, <1>1, <1>3
    <3>2. QED
      BY <3>1, <2>2, ControlsAreArms
  <2>3. QED
    BY <2>1, <2>2
<1>6. QED
  BY <1>1, <1>3, <1>5

LEMMA FiltersAreArms == ASSUME NEW f \in Flags PROVE FilterArms(f) \in Seq(Arms)
<1>1. Primary(f) \in Arms /\ Alternates(f) \in Seq(Arms)
  BY PrimaryIsArm, AlternatesAreArms DEF ArmFor
<1>2. QED
  BY <1>1 DEF FilterArms

-----------------------------------------------------------------------------
(* Types *)

LEMMA Running ==
  ASSUME TypeOK, pc # "idle"
  PROVE  run \in 1..MaxRuns /\ F \in JobFlags /\ F \in Flags /\ F.vote \in Votes \cup {"off"}
<1>1. run \in 1..MaxRuns
  BY RunsAssumption DEF TypeOK
<1>2. F \in JobFlags /\ F \in Flags
  BY <1>1, JobsAssumption DEF TypeOK, F
<1>3. QED
  BY <1>1, <1>2 DEF Flags

\* The first of the arms still to do, and the rest.
LEMMA TodoParts ==
  ASSUME TypeOK, todo # <<>>
  PROVE  /\ Head(todo) \in Arms /\ Tail(todo) \in Seq(Arms)
         /\ Head(todo) = todo[1] /\ Len(todo) \in Nat \ {0} /\ Len(Tail(todo)) = Len(todo) - 1
         /\ \A i \in 1..Len(Tail(todo)) : Tail(todo)[i] = todo[i + 1] /\ i + 1 \in 1..Len(todo)
BY DEF TypeOK

LEMMA WholeIsPiece == ASSUME NEW r \in 0..MaxRuns PROVE Whole(r) \in Pieces
BY DEF Whole, Pieces

LEMMA PulledType ==
  ASSUME TypeOK, NEW d \in Dests, NEW S \in SUBSET Files
  PROVE  Pulled(d, S) \in [Files -> Pieces]
BY DEF TypeOK, Pulled

LEMMA SceneType ==
  ASSUME TypeOK
  PROVE  \A f \in Files : /\ Scene[f].run \in 0..Published
                          /\ Scene[f].state \in {"missing", "whole", "torn", "no_floor"}
  BY RunsAssumption DEF TypeOK, Scene, Whole, Published, Pieces, Dests

LEMMA TypeInit == Init => TypeOK
<1> SUFFICES ASSUME Init PROVE TypeOK
  OBVIOUS
<1>1. Missing \in Pieces
  BY RunsAssumption DEF Missing, Pieces
<1>2. Empty \in [Dests -> [Files -> Pieces]]
  BY <1>1 DEF Empty
<1>3. 0 \in 0..MaxRuns /\ 0 \in 0..Published
  BY RunsAssumption DEF Published
<1>4. QED
  BY <1>2, <1>3 DEF Init, TypeOK, PCs, NoStack, Unused

LEMMA TypeStep == TypeOK /\ [Next]_vars => TypeOK'
<1> SUFFICES ASSUME TypeOK, [Next]_vars PROVE TypeOK'
  OBVIOUS
<1> USE DEF cpu, gpu, post, PCs, Goto, RunEnds
<1>1. CASE StartDriver
  BY <1>1, RunsAssumption DEF StartDriver, TypeOK
<1>2. CASE PlacePassA
  BY <1>2 DEF PlacePassA, TypeOK
<1>3. CASE RunFails
  BY <1>3, Running DEF RunFails, TypeOK
<1>4. CASE PassA
  BY <1>4, Running DEF PassA, TypeOK
<1>5. CASE PackRgb
  BY <1>5, Running DEF PackRgb, TypeOK
<1>6. CASE PackRgbCut
  BY <1>6, Running DEF PackRgbCut, TypeOK
<1>7. CASE MvfilterSkip
  BY <1>7, Running DEF MvfilterSkip, TypeOK
<1>8. CASE MvfilterStart
  BY <1>8, Running, FiltersAreArms DEF MvfilterStart, TypeOK
<1>9. CASE FilterArm
  <2>1. todo' \in Seq(Arms) /\ Head(todo).vote \in Votes \cup {"off"}
    BY <1>9, TodoParts DEF FilterArm, Arms
  <2>2. QED
    BY <1>9, <2>1 DEF FilterArm, TypeOK
<1>10. CASE FilterCut
  <2>1. Head(todo).vote \in Votes \cup {"off"}
    BY <1>10, TodoParts DEF FilterCut, Arms
  <2>2. depth' \in [Stacks -> [vote : Votes \cup {"none", "off"}, sealed : BOOLEAN]]
    BY <1>10, <2>1 DEF FilterCut, TypeOK
  <2>3. QED
    BY <1>10, <2>2, Running DEF FilterCut, TypeOK
<1>11. CASE Filtered
  BY <1>11, Running DEF Filtered, TypeOK
<1>12. CASE GpuUp
  <2>1. Empty \in [Dests -> [Files -> Pieces]]
    BY RunsAssumption DEF Empty, Missing, Pieces
  <2>2. QED
    BY <1>12, <2>1, Running DEF GpuUp, TypeOK
<1>13. CASE NvbloxSkip
  BY <1>13, Running DEF NvbloxSkip, TypeOK
<1>14. CASE NvbloxRehearsed
  BY <1>14, Running DEF NvbloxRehearsed, TypeOK
<1>15. CASE NvbloxStart
  <2>1. FusionArms(F) \in Seq(Arms)
    BY <1>15, Running, FusionsAreArms DEF NvbloxStart
  <2>2. QED
    BY <1>15, <2>1, Running DEF NvbloxStart, TypeOK
<1>16. CASE Fuse
  <2> DEFINE d == Head(todo).dest
  <2>1. Head(todo) \in Arms /\ d \in Dests /\ run \in 0..MaxRuns /\ run \in 1..MaxRuns
    BY <1>16, TodoParts, Running, RunsAssumption DEF Fuse, Arms
  <2>2. Whole(run) \in Pieces /\ [run |-> run, state |-> "no_floor"] \in Pieces
    BY <2>1 DEF Whole, Pieces
  <2>3. box' \in [Dests -> [Files -> Pieces]]
    <3> DEFINE none == [run |-> run, state |-> "no_floor"]
    <3>1. box[d] \in [Files -> Pieces]
      BY <2>1 DEF TypeOK
    <3>2. CASE box' = [box EXCEPT ![d] = [f \in Files |-> Whole(run)]]
      BY <2>2, <3>2 DEF TypeOK
    <3>3. CASE box' = [box EXCEPT ![d]["mesh"] = Whole(run), ![d]["stats"] = none]
      <4>1. box' = [box EXCEPT ![d] = [box[d] EXCEPT !["mesh"] = Whole(run), !["stats"] = none]]
        BY <2>1, <3>3 DEF TypeOK
      <4>2. [box[d] EXCEPT !["mesh"] = Whole(run), !["stats"] = none] \in [Files -> Pieces]
        BY <2>2, <3>1
      <4>3. QED
        BY <4>1, <4>2 DEF TypeOK
    <3>4. QED
      BY <1>16, <3>2, <3>3 DEF Fuse
  <2>4. Given(Head(todo)) \in [stack : [vote : Votes \cup {"none", "off"}, sealed : BOOLEAN],
                               rgb : {"none", "torn", "whole"}]
    BY <2>1 DEF Given, Stack, Raw, TypeOK, Arms
  <2>5. used' = [used EXCEPT ![run][d] = Given(Head(todo))]
    BY <1>16 DEF Fuse
  <2>6. used' \in [1..MaxRuns -> [Dests -> [stack : [vote : Votes \cup {"none", "off"},
                                                     sealed : BOOLEAN],
                                            rgb : {"none", "torn", "whole"}]]]
    BY <2>1, <2>4, <2>5 DEF TypeOK
  <2>7. QED
    BY <1>16, <2>3, <2>6, Running DEF Fuse, TypeOK
<1>17. CASE FuseCut
  <2>1. run \in 0..MaxRuns
    BY <1>17, Running DEF FuseCut
  <2>2. PICK k \in 1..4 :
          box' = [box EXCEPT ![Head(todo).dest] =
                    [f \in Files |-> IF f \in FirstOf(FuseOrder, k) THEN Whole(run) ELSE @[f]]]
    BY <1>17 DEF FuseCut
  <2>3. ASSUME NEW d \in Dests
        PROVE  [f \in Files |-> IF f \in FirstOf(FuseOrder, k) THEN Whole(run) ELSE box[d][f]]
                 \in [Files -> Pieces]
    BY <2>1, WholeIsPiece DEF TypeOK
  <2>4. box' \in [Dests -> [Files -> Pieces]]
    BY <2>2, <2>3 DEF TypeOK
  <2>5. QED
    BY <1>17, <2>4, Running DEF FuseCut, TypeOK
<1>18. CASE Pull
  <2>1. local' \in [Dests -> [Files -> Pieces]]
    BY <1>18, PulledType DEF Pull, TypeOK
  <2>2. QED
    BY <1>18, <2>1, TodoParts, Running DEF Pull, TypeOK
<1>19. CASE PullCut
  <2>1. ASSUME NEW k \in 0..4, NEW d \in Dests
        PROVE  LET f == PullOrder[k + 1]
                   p == Pulled(d, FirstOf(PullOrder, k))
               IN /\ p \in [Files -> Pieces]
                  /\ [p EXCEPT ![f] = [run |-> box[d][f].run, state |-> "torn"]]
                       \in [Files -> Pieces]
    <3> DEFINE f == PullOrder[k + 1]
               p == Pulled(d, FirstOf(PullOrder, k))
    <3>1. f \in Files /\ FirstOf(PullOrder, k) \subseteq Files
      BY DEF PullOrder, FirstOf, Files
    <3>2. p \in [Files -> Pieces]
      BY <3>1, PulledType
    <3>3. [run |-> box[d][f].run, state |-> "torn"] \in Pieces
      BY <3>1 DEF TypeOK, Pieces
    <3>4. QED
      BY <3>2, <3>3
  <2>2. Head(todo).dest \in Dests
    BY <1>19, TodoParts DEF PullCut, TypeOK, Arms
  <2>3. PICK k \in 0..4 :
          LET d == Head(todo).dest
              f == PullOrder[k + 1]
              p == Pulled(d, FirstOf(PullOrder, k))
          IN \/ local' = [local EXCEPT ![d] = p]
             \/ local' = [local EXCEPT ![d] =
                            [p EXCEPT ![f] = [run |-> box[d][f].run, state |-> "torn"]]]
    BY <1>19 DEF PullCut
  <2>4. local' \in [Dests -> [Files -> Pieces]]
    <3> DEFINE d == Head(todo).dest
               f == PullOrder[k + 1]
               p == Pulled(d, FirstOf(PullOrder, k))
               q == [p EXCEPT ![f] = [run |-> box[d][f].run, state |-> "torn"]]
    <3>1. p \in [Files -> Pieces] /\ q \in [Files -> Pieces]
      BY <2>1, <2>2
    <3>2. local' = [local EXCEPT ![d] = p] \/ local' = [local EXCEPT ![d] = q]
      BY <2>3
    <3>3. QED
      <4> HIDE DEF p, q
      <4>1. QED
        BY <3>1, <3>2 DEF TypeOK
  <2>5. QED
    BY <1>19, <2>4, Running DEF PullCut, TypeOK
<1>20. CASE Nvbloxed
  BY <1>20, Running DEF Nvbloxed, TypeOK
<1>21. CASE Floor
  BY <1>21, Running DEF Floor, TypeOK
<1>22. CASE Layers
  BY <1>22, Running, SceneType DEF Layers, Made, Files, TypeOK
<1>23. CASE Reach
  BY <1>23, Running DEF Reach, Made, TypeOK
<1>24. CASE Export
  BY <1>24, Running, SceneType DEF Export, Made, Files, TypeOK
<1>25. CASE Ingest
  BY <1>25, Running, SceneType DEF Ingest, Made, Files, TypeOK
<1>26. CASE IngestCut
  BY <1>26, Running, SceneType DEF IngestCut, Files, TypeOK
<1>27. CASE Done
  BY <1>27, Running DEF Done, TypeOK
<1>28. CASE UNCHANGED vars
  BY <1>28 DEF vars, TypeOK
<1>29. QED
  BY <1>1, <1>2, <1>3, <1>4, <1>5, <1>6, <1>7, <1>8, <1>9, <1>10, <1>11, <1>12, <1>13, <1>14,
     <1>15, <1>16, <1>17, <1>18, <1>19, <1>20, <1>21, <1>22, <1>23, <1>24, <1>25, <1>26, <1>27,
     <1>28 DEF Next

(* Every variable keeps its type, whatever fails and however often the pipeline is resumed:
   TypeOK of PipelineResume. *)
THEOREM TypeCorrect == Spec => []TypeOK
<1>1. QED
  BY TypeInit, TypeStep, PTL DEF Spec

-----------------------------------------------------------------------------
(* The stacks that go into a fusion *)

\* The arms still to be fused take accepted stacks.
TodoAccepted ==
  \A i \in 1..Len(todo) :
     ArmFor(todo[i], F) /\ (todo[i].file # "raw" => StackAccepted(todo[i]))

\* A stack whose producer got to the json has the vote that json names; past MVFILTER the stacks
\* of this run are the accepted ones, and so are those of the arms still to be fused.
StackInv ==
  /\ \A s \in Stacks : depth[s].sealed => depth[s].vote = meta[s]
  /\ pc \in {"gpu_up", "nvblox"} => MvfilterOk
  /\ pc \in {"fuse", "pull"} => TodoAccepted
  /\ VotedStack

LEMMA StackInit == Init => StackInv
BY DEF Init, StackInv, VotedStack, NoStack, Unused

\* A step that leaves the stacks alone and ends before them or past their use.
LEMMA StackFrame ==
  ASSUME StackInv, UNCHANGED <<depth, meta, used, asked>>,
         pc' \notin {"gpu_up", "nvblox", "fuse", "pull"}
  PROVE  StackInv'
BY DEF StackInv, VotedStack

LEMMA StackStep == TypeOK /\ StackInv /\ [Next]_vars => StackInv'
<1> SUFFICES ASSUME TypeOK, StackInv, [Next]_vars PROVE StackInv'
  OBVIOUS
<1> USE DEF cpu, gpu, post, Goto, RunEnds
<1>1. CASE StartDriver
  BY <1>1, StackFrame DEF StartDriver
<1>2. CASE PlacePassA
  BY <1>2 DEF PlacePassA, StackInv, VotedStack, TodoAccepted, MvfilterOk, StackAccepted, F
<1>3. CASE RunFails
  BY <1>3, StackFrame DEF RunFails
<1>4. CASE PassA \/ PackRgb \/ PackRgbCut
  BY <1>4, StackFrame DEF PassA, PackRgb, PackRgbCut
<1>5. CASE MvfilterSkip
  BY <1>5 DEF MvfilterSkip, StackInv, VotedStack, TodoAccepted, MvfilterOk, StackAccepted, F
<1>6. CASE MvfilterStart
  BY <1>6, StackFrame DEF MvfilterStart
<1>7. CASE FilterArm
  <2>1. \A s \in Stacks : depth'[s].sealed => depth'[s].vote = meta'[s]
    BY <1>7 DEF FilterArm, StackInv, TypeOK
  <2>2. QED
    BY <1>7, <2>1 DEF FilterArm, StackInv, VotedStack
<1>8. CASE FilterCut
  <2>1. \A s \in Stacks : depth'[s].sealed => depth'[s].vote = meta'[s]
    BY <1>8 DEF FilterCut, StackInv, TypeOK
  <2>2. QED
    BY <1>8, <2>1 DEF FilterCut, StackInv, VotedStack
<1>9. CASE Filtered
  BY <1>9 DEF Filtered, StackInv, VotedStack, TodoAccepted, MvfilterOk, StackAccepted, F
<1>10. CASE GpuUp
  BY <1>10 DEF GpuUp, StackInv, VotedStack, TodoAccepted, MvfilterOk, StackAccepted, F
<1>11. CASE NvbloxSkip \/ NvbloxRehearsed
  BY <1>11, StackFrame DEF NvbloxSkip, NvbloxRehearsed
<1>12. CASE NvbloxStart
  <2>1. F' = F /\ F \in Flags
    BY <1>12, Running DEF NvbloxStart, F
  <2>2. MvfilterOk
    BY <1>12 DEF NvbloxStart, StackInv
  <2>3. \A i \in 1..Len(FusionArms(F)) :
           /\ ArmFor(FusionArms(F)[i], F)
           /\ FusionArms(F)[i].file # "raw" => StackAccepted(FusionArms(F)[i])
    BY <2>1, <2>2, FusionsAreArms DEF MvfilterOk
  <2>4. todo' = FusionArms(F) /\ UNCHANGED <<depth, meta, used, asked>> /\ pc' = "fuse"
    BY <1>12 DEF NvbloxStart
  <2>5. TodoAccepted'
    BY <2>1, <2>3, <2>4 DEF TodoAccepted, StackAccepted
  <2>6. QED
    BY <2>4, <2>5 DEF StackInv, VotedStack
<1>13. CASE Fuse
  <2> DEFINE a == Head(todo)
  <2>1. a \in Arms /\ ArmFor(a, F) /\ (a.file # "raw" => StackAccepted(a))
    BY <1>13, TodoParts DEF Fuse, StackInv, TodoAccepted
  <2>2. run \in 1..MaxRuns /\ a.dest \in Dests
    BY <1>13, <2>1, Running DEF Fuse, Arms
  <2>3. Given(a).stack.sealed => Given(a).stack.vote = VoteFor(a.dest, asked[run])
    <3>1. CASE a.file = "raw"
      BY <2>1, <3>1 DEF Given, Stack, Raw, ArmFor, F
    <3>2. CASE a.file # "raw"
      BY <2>1, <3>2 DEF Given, Stack, StackAccepted, StackInv, ArmFor, Arms, F
    <3>3. QED
      BY <3>1, <3>2
  <2>4. used' = [used EXCEPT ![run][a.dest] = Given(a)] /\ asked' = asked
    BY <1>13 DEF Fuse
  <2>5. ASSUME NEW r \in 1..MaxRuns, NEW d \in Dests
        PROVE  used'[r][d] = IF r = run /\ d = a.dest THEN Given(a) ELSE used[r][d]
    BY <2>2, <2>4 DEF TypeOK
  <2>6. VotedStack'
    BY <2>3, <2>4, <2>5 DEF VotedStack, StackInv
  <2>7. QED
    BY <1>13, <2>6 DEF Fuse, StackInv, TodoAccepted, StackAccepted, F
<1>14. CASE FuseCut \/ PullCut
  BY <1>14, StackFrame DEF FuseCut, PullCut
<1>15. CASE Pull
  <2>1. /\ todo # <<>> /\ todo' = Tail(todo) /\ pc' = "fuse" /\ F' = F
        /\ UNCHANGED <<depth, meta, used, asked>>
    BY <1>15 DEF Pull, TypeOK, F
  <2>2. TodoAccepted
    BY <1>15 DEF Pull, StackInv
  <2>3. TodoAccepted'
    BY <2>1, <2>2, TodoParts DEF TodoAccepted, StackAccepted
  <2>4. QED
    BY <2>1, <2>3 DEF StackInv, VotedStack
<1>16. CASE Nvbloxed \/ Floor \/ Layers \/ Reach \/ Export \/ Ingest \/ IngestCut \/ Done
  BY <1>16, StackFrame DEF Nvbloxed, Floor, Layers, Reach, Export, Ingest, IngestCut, Done
<1>17. CASE UNCHANGED vars
  BY <1>17 DEF vars, StackInv, VotedStack, TodoAccepted, MvfilterOk, StackAccepted, F
<1>18. QED
  BY <1>1, <1>2, <1>3, <1>4, <1>5, <1>6, <1>7, <1>8, <1>9, <1>10, <1>11, <1>12, <1>13, <1>14,
     <1>15, <1>16, <1>17 DEF Next

(* No fusion is given a stack of another vote than its run asked for, for any votes and any
   sequence of resumed and failed runs: VotedStack of PipelineResume. *)
THEOREM VotesRespected == Spec => []VotedStack
<1>1. TypeOK /\ StackInv /\ [Next]_vars => (TypeOK /\ StackInv)'
  BY TypeStep, StackStep
<1>2. StackInv => VotedStack
  BY DEF StackInv
<1>3. QED
  BY <1>1, <1>2, TypeInit, StackInit, PTL DEF Spec

-----------------------------------------------------------------------------
(* The fusion on disk *)

Present(x) == x.state # "missing"

\* A box directory gets its slice (unobs) after its distance field (esdf).
BoxOrder == \A d \in Dests : Present(box[d]["unobs"]) => Present(box[d]["esdf"])

\* What is about to be pulled: the mesh and stats.json of this run, and with a floor all of it.
FusedBy(b, r) ==
  /\ b["mesh"] = Whole(r)
  /\ b["stats"].run = r /\ b["stats"].state \in {"whole", "no_floor"}
  /\ b["stats"].state = "whole" => \A f \in Files : b[f] = Whole(r)

\* The slice is pulled last: with it every file is there, and of one fusion unless
\* stats.json tells that there was no floor.
Coherent(s) ==
  Present(s["unobs"]) =>
     /\ \A f \in Needed : Present(s[f])
     /\ s["mesh"].run # 0
     /\ \/ s["stats"].state = "no_floor"
        \/ s["stats"].state = "whole" /\ \A f \in Files : s[f].run = s["mesh"].run

PulledBy(d, r) == local[d]["mesh"].run = r /\ local[d]["stats"].run = r

Fused == Len(FusionArms(F)) - Len(todo)

\* While a run fuses, the arms still to do end its list, the controls before them are
\* pulled, and the scene has no slice until the last arm, its own, is.
ArmsLeft ==
  /\ Fused \in Nat
  /\ \A i \in 1..Len(todo) : todo[i] = FusionArms(F)[Fused + i]
  /\ todo # <<>> => ~Present(local["scene"]["unobs"])
  /\ \A i \in 1..Len(Controls(F)) : i <= Fused => PulledBy(Controls(F)[i].dest, run)

FusionInv ==
  /\ BoxOrder
  /\ pc = "pull" => FusedBy(box[Head(todo).dest], run)
  /\ Coherent(local["scene"])
  /\ pc \in {"fuse", "pull"} => ArmsLeft
  /\ ControlsKept

LEMMA FusionInit == Init => FusionInv
BY VotesAssumption DEF Init, FusionInv, BoxOrder, Coherent, ControlsKept, SceneAccepted, Verdict,
   Empty, Missing, Present, Files, Needed, Dests

\* A scene without a slice is not accepted.
LEMMA NoSlice == ~Present(local["scene"]["unobs"]) => ~SceneAccepted
BY DEF Present, SceneAccepted, Verdict, Needed, Files

\* A step that leaves the files and the runs' flags alone and is not about fusing.
LEMMA FusionFrame ==
  ASSUME FusionInv, UNCHANGED <<box, local, asked>>, pc' \notin {"fuse", "pull"}
  PROVE  FusionInv'
BY DEF FusionInv, BoxOrder, ControlsKept, SceneAccepted

\* Where the arm at hand stands in the list of the run.
LEMMA HeadPlace ==
  ASSUME TypeOK, ArmsLeft, pc # "idle", todo # <<>>
  PROVE  LET d == Head(todo).dest
         IN /\ Len(Controls(F)) \in Nat /\ d \in Dests /\ Fused \in Nat
            /\ d = "scene" <=> Fused = Len(Controls(F))
            /\ Fused <= Len(Controls(F))
            /\ d # "scene" => Controls(F)[Fused + 1].dest = d
            /\ Len(todo) = Len(Controls(F)) + 1 - Fused
<1>1. F \in Flags
  BY Running
<1>2. Head(todo) = todo[1] /\ Len(todo) \in Nat \ {0} /\ Head(todo) \in Arms
  BY TodoParts
<1>3. /\ Len(Controls(F)) \in Nat /\ Len(FusionArms(F)) = Len(Controls(F)) + 1
      /\ \A i \in 1..Len(Controls(F)) : FusionArms(F)[i] = Controls(F)[i]
      /\ \A i \in 1..Len(FusionArms(F)) :
            FusionArms(F)[i].dest = "scene" <=> i = Len(FusionArms(F))
  BY <1>1, FusionsAreArms
<1>4. Fused \in Nat /\ Len(todo) = Len(Controls(F)) + 1 - Fused
  BY <1>2, <1>3 DEF ArmsLeft, Fused
<1>5. Head(todo) = FusionArms(F)[Fused + 1]
  BY <1>2 DEF ArmsLeft
<1>6. QED
  BY <1>2, <1>3, <1>4, <1>5 DEF Arms

\* Pulling the scene, all of it or up to its slice, leaves it coherent.
LEMMA ScenePulled ==
  ASSUME TypeOK, FusionInv, pc = "pull", Head(todo).dest = "scene", NEW s,
         Present(s["unobs"]) =>
            /\ Present(box["scene"]["unobs"])
            /\ \A f \in Needed \ {"unobs"} : s[f] = Pulled("scene", Files)[f]
            /\ \A f \in {"floor", "unobs"} : s[f].run = Pulled("scene", Files)[f].run
  PROVE  Coherent(s) /\ (Present(s["unobs"]) => s["mesh"].run = run)
<1> SUFFICES ASSUME Present(s["unobs"])
             PROVE  Coherent(s) /\ s["mesh"].run = run
  BY DEF Coherent
<1>1. run \in 1..MaxRuns
  BY Running
<1>2. FusedBy(box["scene"], run)
  BY DEF FusionInv
<1>3. s["mesh"] = Whole(run) /\ s["stats"] = box["scene"]["stats"]
  <2>1. \A f \in {"mesh", "stats"} : box["scene"][f].state # "missing"
    BY <1>2 DEF FusedBy, Whole
  <2>2. \A f \in {"mesh", "stats"} : f \in Needed \ {"unobs"} /\ f \in Files
    BY DEF Needed, Files
  <2>3. \A f \in {"mesh", "stats"} : s[f] = box["scene"][f]
    BY <2>1, <2>2 DEF Pulled
  <2>4. QED
    BY <1>2, <2>3 DEF FusedBy
<1>4. /\ \A f \in Needed : Present(s[f])
      /\ \/ s["stats"].state = "no_floor"
         \/ s["stats"].state = "whole" /\ \A f \in Files : s[f].run = s["mesh"].run
  <2>1. Present(box["scene"]["esdf"])
    BY DEF FusionInv, BoxOrder, Dests
  <2>2. \A f \in Needed : Present(s[f])
    <3>1. "esdf" \in Needed \ {"unobs"} /\ "esdf" \in Files
      BY DEF Needed, Files
    <3>2. s["esdf"] = box["scene"]["esdf"]
      BY <2>1, <3>1 DEF Pulled, Present
    <3>3. Present(s["mesh"]) /\ Present(s["stats"]) /\ Present(s["esdf"])
      BY <1>2, <1>3, <2>1, <3>2 DEF FusedBy, Whole, Present
    <3>4. QED
      BY <3>3 DEF Needed, Files
  <2>3. CASE box["scene"]["stats"].state = "whole"
    <3>1. \A f \in Files : Pulled("scene", Files)[f] = Whole(run)
      BY <1>2, <2>3 DEF FusedBy, Pulled, Whole
    <3>2. \A f \in Files : s[f].run = run
      BY <3>1 DEF Files, Needed, Whole
    <3>3. QED
      BY <1>3, <2>2, <2>3, <3>2 DEF Whole
  <2>4. QED
    BY <1>2, <1>3, <2>2, <2>3 DEF FusedBy
<1>5. QED
  BY <1>1, <1>3, <1>4 DEF Coherent, Whole

\* A pull that changes one directory, the scene's in a way that leaves it coherent.
LEMMA ScenePullKeeps ==
  ASSUME TypeOK, FusionInv, pc = "pull", Head(todo).dest = "scene",
         UNCHANGED <<run, asked, box>>, NEW s,
         local' = [local EXCEPT !["scene"] = s], Coherent(s),
         Present(s["unobs"]) => s["mesh"].run = run
  PROVE  BoxOrder' /\ Coherent(local["scene"])' /\ ControlsKept'
<1>1. ArmsLeft /\ todo # <<>> /\ run \in 1..MaxRuns /\ F \in Flags
  BY Running DEF FusionInv, TypeOK
<1>2. local'["scene"] = s /\ \A d \in Dests \ {"scene"} : local'[d] = local[d]
  BY DEF TypeOK, Dests
<1>3. \A i \in 1..Len(Controls(F)) :
         PulledBy(Controls(F)[i].dest, run) /\ Controls(F)[i].dest \in Dests \ {"scene"}
  BY <1>1, HeadPlace, ControlsAreArms DEF ArmsLeft, ArmFor, Arms
<1>4. SceneAccepted' => s["mesh"].run = run
  BY <1>2 DEF SceneAccepted, Verdict, Needed, Files, Present
<1>5. ControlsKept'
  BY <1>2, <1>3, <1>4 DEF ControlsKept, PulledBy, F
<1>6. QED
  BY <1>2, <1>5 DEF FusionInv, BoxOrder, Coherent, Present

\* A pull into another directory does not touch the scene.
LEMMA OtherPullKeeps ==
  ASSUME TypeOK, FusionInv, pc = "pull", Head(todo).dest # "scene",
         UNCHANGED <<run, asked, box>>, NEW s, local' = [local EXCEPT ![Head(todo).dest] = s]
  PROVE  /\ BoxOrder' /\ Coherent(local["scene"])' /\ ControlsKept'
         /\ local'["scene"] = local["scene"]
<1>1. ArmsLeft /\ todo # <<>>
  BY DEF FusionInv, TypeOK
<1>2. local'["scene"] = local["scene"]
  BY DEF TypeOK, Dests
<1>3. ~SceneAccepted'
  BY <1>1, <1>2, NoSlice DEF ArmsLeft, SceneAccepted, Present
<1>4. QED
  BY <1>2, <1>3 DEF FusionInv, BoxOrder, ControlsKept, Coherent, Present

LEMMA FusionStep == TypeOK /\ FusionInv /\ [Next]_vars => FusionInv'
<1> SUFFICES ASSUME TypeOK, FusionInv, [Next]_vars PROVE FusionInv'
  OBVIOUS
<1> USE DEF cpu, gpu, post, Goto, RunEnds
<1>1. CASE StartDriver \/ RunFails \/ PassA \/ PackRgb \/ PackRgbCut
  BY <1>1, FusionFrame DEF StartDriver, RunFails, PassA, PackRgb, PackRgbCut
<1>2. CASE MvfilterSkip \/ MvfilterStart \/ FilterCut \/ Filtered
  BY <1>2, FusionFrame DEF MvfilterSkip, MvfilterStart, FilterCut, Filtered
<1>3. CASE FilterArm
  BY <1>3, FusionFrame DEF FilterArm
<1>4. CASE NvbloxSkip \/ NvbloxRehearsed \/ Nvbloxed \/ Floor
  BY <1>4, FusionFrame DEF NvbloxSkip, NvbloxRehearsed, Nvbloxed, Floor
<1>5. CASE Layers \/ Reach \/ Export \/ Ingest \/ IngestCut \/ Done
  BY <1>5, FusionFrame DEF Layers, Reach, Export, Ingest, IngestCut, Done
<1>6. CASE PlacePassA \/ UNCHANGED vars
  BY <1>6 DEF PlacePassA, vars, FusionInv, BoxOrder, ControlsKept, SceneAccepted, ArmsLeft,
     Fused, PulledBy, F
<1>7. CASE GpuUp
  <2>1. BoxOrder'
    BY <1>7 DEF GpuUp, FusionInv, BoxOrder, Empty, Missing, Present, Files
  <2>2. QED
    BY <1>7, <2>1 DEF GpuUp, FusionInv, ControlsKept, SceneAccepted
<1>8. CASE NvbloxStart
  <2>1. F' = F /\ F \in Flags /\ run' = run
    BY <1>8, Running DEF NvbloxStart, F
  <2>2. Len(Controls(F)) \in Nat /\ Len(FusionArms(F)) = Len(Controls(F)) + 1
    BY <2>1, FusionsAreArms
  <2>3. ~Present(local["scene"]["unobs"])
    BY <1>8 DEF NvbloxStart, Verdict, Scene, FusionInv, Coherent, Present
  <2>4. todo' = FusionArms(F) /\ UNCHANGED <<box, local, asked>> /\ pc' = "fuse"
    BY <1>8 DEF NvbloxStart
  <2>5. Fused' = 0
    BY <2>1, <2>2, <2>4 DEF Fused
  <2>6. ArmsLeft'
    BY <2>1, <2>2, <2>3, <2>4, <2>5, FusionsAreArms DEF ArmsLeft
  <2>7. QED
    BY <2>4, <2>6 DEF FusionInv, BoxOrder, ControlsKept, SceneAccepted
<1>9. CASE Fuse
  <2> DEFINE d == Head(todo).dest
  <2>1. d \in Dests /\ run \in 1..MaxRuns /\ ArmsLeft
    BY <1>9, TodoParts, Running DEF Fuse, Arms, FusionInv
  <2>2. FusedBy(box'[d], run) /\ (Present(box'[d]["unobs"]) => Present(box'[d]["esdf"]))
    <3>1. CASE box' = [box EXCEPT ![d] = [f \in Files |-> Whole(run)]]
      BY <2>1, <3>1 DEF TypeOK, FusedBy, Whole, Files, Present
    <3>2. CASE box' = [box EXCEPT ![d]["mesh"] = Whole(run),
                                  ![d]["stats"] = [run |-> run, state |-> "no_floor"]]
      <4> DEFINE none == [run |-> run, state |-> "no_floor"]
                 b == [box[d] EXCEPT !["mesh"] = Whole(run), !["stats"] = none]
      <4>1. box'[d] = b /\ box[d] \in [Files -> Pieces]
        BY <2>1, <3>2 DEF TypeOK
      <4>2. /\ b["mesh"] = Whole(run) /\ b["stats"] = none
            /\ b["unobs"] = box[d]["unobs"] /\ b["esdf"] = box[d]["esdf"]
        BY <4>1 DEF Files
      <4>3. Present(box[d]["unobs"]) => Present(box[d]["esdf"])
        BY <2>1 DEF FusionInv, BoxOrder
      <4>4. QED
        BY <4>1, <4>2, <4>3 DEF FusedBy, Present
    <3>3. QED
      BY <1>9, <3>1, <3>2 DEF Fuse
  <2>3. \A e \in Dests \ {d} : box'[e] = box[e]
    BY <1>9, <2>1 DEF Fuse, TypeOK
  <2>4. BoxOrder'
    BY <2>2, <2>3 DEF FusionInv, BoxOrder
  <2>5. ArmsLeft'
    BY <1>9, <2>1 DEF Fuse, ArmsLeft, Fused, PulledBy, F
  <2>6. QED
    BY <1>9, <2>2, <2>4, <2>5 DEF Fuse, FusionInv, ControlsKept, SceneAccepted
<1>10. CASE FuseCut
  <2> DEFINE d == Head(todo).dest
  <2>1. d \in Dests
    BY <1>10, TodoParts DEF FuseCut, Arms
  <2>2. PICK k \in 1..4 :
          box' = [box EXCEPT ![d] =
                    [f \in Files |-> IF f \in FirstOf(FuseOrder, k) THEN Whole(run) ELSE @[f]]]
    BY <1>10 DEF FuseCut
  <2>3. "unobs" \in FirstOf(FuseOrder, k) => "esdf" \in FirstOf(FuseOrder, k)
    <3>1. "unobs" \in FirstOf(FuseOrder, k) => k >= 3
      BY DEF FirstOf, FuseOrder
    <3>2. k >= 3 => "esdf" \in FirstOf(FuseOrder, k)
      BY DEF FirstOf, FuseOrder
    <3>3. QED
      BY <3>1, <3>2
  <2>4. Present(box'[d]["unobs"]) => Present(box'[d]["esdf"])
    BY <2>1, <2>2, <2>3 DEF TypeOK, Files, Whole, Present, FusionInv, BoxOrder
  <2>5. BoxOrder'
    BY <2>2, <2>4 DEF TypeOK, FusionInv, BoxOrder
  <2>6. QED
    BY <1>10, <2>5 DEF FuseCut, FusionInv, ControlsKept, SceneAccepted
<1>11. CASE Pull
  <2> DEFINE d == Head(todo).dest
             s == Pulled(d, Files)
  <2>1. /\ todo # <<>> /\ ArmsLeft /\ local' = [local EXCEPT ![d] = s] /\ F' = F
        /\ UNCHANGED <<run, asked, box>> /\ pc' = "fuse" /\ todo' = Tail(todo)
        /\ FusedBy(box[d], run) /\ run \in 1..MaxRuns /\ F \in Flags
    BY <1>11, Running DEF Pull, TypeOK, FusionInv, F
  <2>2. /\ d \in Dests /\ Len(Controls(F)) \in Nat /\ Fused \in Nat
        /\ Len(todo) = Len(Controls(F)) + 1 - Fused /\ Len(FusionArms(F)) = Len(Controls(F)) + 1
        /\ Len(Tail(todo)) = Len(todo) - 1
        /\ d = "scene" <=> Fused = Len(Controls(F))
        /\ d # "scene" => Fused < Len(Controls(F)) /\ Controls(F)[Fused + 1].dest = d
    BY <1>11, <2>1, HeadPlace, TodoParts, FusionsAreArms DEF Pull
  <2>3. Fused' = Fused + 1
    BY <2>1, <2>2 DEF Fused
  <2>4. /\ BoxOrder' /\ Coherent(local["scene"])' /\ ControlsKept'
        /\ d # "scene" => local'["scene"] = local["scene"]
    <3>1. CASE d = "scene"
      <4>1. Present(s["unobs"]) => Present(box["scene"]["unobs"])
        BY <2>1, <3>1 DEF Files, Present, Pulled, ArmsLeft
      <4>2. Coherent(s) /\ (Present(s["unobs"]) => s["mesh"].run = run)
        BY <1>11, <3>1, <4>1, ScenePulled DEF Pull
      <4>3. QED
        BY <1>11, <2>1, <3>1, <4>2, ScenePullKeeps DEF Pull
    <3>2. CASE d # "scene"
      BY <1>11, <2>1, <3>2, OtherPullKeeps DEF Pull
    <3>3. QED
      BY <3>1, <3>2
  <2>5. ASSUME NEW i \in 1..Len(todo') PROVE todo'[i] = FusionArms(F)[Fused' + i]
    <3>1. todo'[i] = todo[i + 1] /\ i + 1 \in 1..Len(todo) /\ i \in Nat
      BY <2>1, TodoParts
    <3>2. todo[i + 1] = FusionArms(F)[Fused + (i + 1)]
      BY <2>1, <3>1 DEF ArmsLeft
    <3>3. Fused' + i = Fused + (i + 1)
      BY <2>2, <2>3, <3>1
    <3>4. QED
      BY <3>1, <3>2, <3>3
  <2>6. todo' # <<>> => ~Present(local'["scene"]["unobs"])
    BY <2>1, <2>2, <2>4, TodoParts DEF ArmsLeft
  <2>7. local'[d]["mesh"].run = run /\ local'[d]["stats"].run = run
    <3>1. \A f \in {"mesh", "stats"} : f \in Files /\ s[f] = box[d][f]
      BY <2>1 DEF FusedBy, Pulled, Whole, Files
    <3>2. local'[d] = s
      BY <2>1, <2>2 DEF TypeOK
    <3>3. QED
      BY <2>1, <3>1, <3>2 DEF FusedBy, Whole
  <2>8. ASSUME NEW i \in 1..Len(Controls(F)), i <= Fused + 1
        PROVE  /\ local'[Controls(F)[i].dest]["mesh"].run = run
               /\ local'[Controls(F)[i].dest]["stats"].run = run
    <3>1. Controls(F)[i].dest \in Dests \ {"scene"}
      BY <2>1, ControlsAreArms DEF ArmFor, Arms
    <3>2. CASE Controls(F)[i].dest = d
      BY <2>7, <2>1, <3>2
    <3>3. CASE Controls(F)[i].dest # d
      <4>1. i <= Fused
        BY <2>2, <2>8, <3>1, <3>3
      <4>2. PulledBy(Controls(F)[i].dest, run)
        BY <2>1, <4>1 DEF ArmsLeft
      <4>3. QED
        BY <2>1, <3>1, <3>3, <4>2 DEF PulledBy, TypeOK
    <3>4. QED
      BY <3>2, <3>3
  <2>9. ArmsLeft'
    BY <2>1, <2>2, <2>3, <2>5, <2>6, <2>8 DEF ArmsLeft, PulledBy
  <2>10. QED
    BY <2>1, <2>4, <2>9 DEF FusionInv
<1>12. CASE PullCut
  <2> DEFINE d == Head(todo).dest
  <2>1. PICK k \in 0..4 :
          LET f == PullOrder[k + 1]
              p == Pulled(d, FirstOf(PullOrder, k))
          IN \/ local' = [local EXCEPT ![d] = p]
             \/ /\ Present(box[d][f])
                /\ local' = [local EXCEPT ![d] =
                               [p EXCEPT ![f] = [run |-> box[d][f].run, state |-> "torn"]]]
    BY <1>12 DEF PullCut, Present
  <2> DEFINE f == PullOrder[k + 1]
             p == Pulled(d, FirstOf(PullOrder, k))
             q == [p EXCEPT ![f] = [run |-> box[d][f].run, state |-> "torn"]]
  <2>2. PICK s : local' = [local EXCEPT ![d] = s] /\ (s = p \/ (s = q /\ Present(box[d][f])))
    BY <2>1
  <2>3. /\ todo # <<>> /\ ArmsLeft /\ UNCHANGED <<run, asked, box>> /\ pc' = "idle"
        /\ d \in Dests /\ FusedBy(box[d], run)
    BY <1>12, TodoParts DEF PullCut, TypeOK, FusionInv, Arms
  <2>4. CASE d # "scene"
    BY <1>12, <2>2, <2>3, <2>4, OtherPullKeeps DEF PullCut, FusionInv
  <2>5. CASE d = "scene"
    <3>1. ASSUME Present(s["unobs"])
          PROVE  k = 4 /\ s = q /\ Present(box["scene"]["unobs"])
      <4>1. p["unobs"] = local["scene"]["unobs"]
        BY <2>5 DEF Pulled, FirstOf, PullOrder, Files
      <4>2. ~Present(p["unobs"])
        BY <2>3, <4>1 DEF ArmsLeft
      <4>3. s = q /\ Present(box[d][f])
        BY <2>2, <3>1, <4>2
      <4>4. f # "unobs" => q["unobs"] = p["unobs"]
        BY DEF Pulled, Files
      <4>5. f = "unobs"
        BY <3>1, <4>2, <4>3, <4>4
      <4>6. k = 4
        BY <4>5 DEF PullOrder
      <4>7. QED
        BY <2>5, <4>3, <4>5, <4>6
    <3>2. ASSUME Present(s["unobs"])
          PROVE  /\ \A g \in Needed \ {"unobs"} : s[g] = Pulled("scene", Files)[g]
                 /\ \A g \in {"floor", "unobs"} : s[g].run = Pulled("scene", Files)[g].run
      <4>1. f = "unobs" /\ FirstOf(PullOrder, k) = Files \ {"unobs"}
        BY <3>1, <3>2 DEF PullOrder, FirstOf, Files
      <4>2. \A g \in Files \ {"unobs"} : s[g] = Pulled("scene", Files)[g]
        BY <2>5, <3>1, <3>2, <4>1 DEF Pulled
      <4>3. s["unobs"].run = Pulled("scene", Files)["unobs"].run
        BY <2>5, <3>1, <3>2, <4>1 DEF Pulled, Files, Present
      <4>4. QED
        BY <4>2, <4>3 DEF Needed, Files
    <3>3. Coherent(s) /\ (Present(s["unobs"]) => s["mesh"].run = run)
      BY <1>12, <2>5, <3>1, <3>2, ScenePulled DEF PullCut
    <3>4. QED
      BY <1>12, <2>2, <2>3, <2>5, <3>3, ScenePullKeeps DEF PullCut, FusionInv
  <2>6. QED
    BY <2>4, <2>5
<1>13. QED
  BY <1>1, <1>2, <1>3, <1>4, <1>5, <1>6, <1>7, <1>8, <1>9, <1>10, <1>11, <1>12 DEF Next

LEMMA OneFusionFollows == FusionInv => OneFusion
BY DEF FusionInv, Coherent, OneFusion, SceneAccepted, Verdict, Present, Needed, Files

LEMMA FusionAlways == Spec => [](TypeOK /\ FusionInv)
<1>1. TypeOK /\ FusionInv /\ [Next]_vars => (TypeOK /\ FusionInv)'
  BY TypeStep, FusionStep
<1>2. QED
  BY <1>1, TypeInit, FusionInit, PTL DEF Spec

(* The files of an accepted fusion never come from two: OneFusion of PipelineResume. *)
THEOREM OneFusionOnly == Spec => []OneFusion
<1>1. QED
  BY FusionAlways, OneFusionFollows, PTL

(* A scene is on disk only with its controls: ControlsKept of PipelineResume. *)
THEOREM ControlsFirst == Spec => []ControlsKept
<1>1. FusionInv => ControlsKept
  BY DEF FusionInv
<1>2. QED
  BY <1>1, FusionAlways, PTL

-----------------------------------------------------------------------------
(* What is made from the fusion *)

OwnScenes == \A f \in JobFlags : f.mode # "published"

ShowsScene(x) == x # 0 => SceneAccepted /\ x = local["scene"]["mesh"].run

\* Whatever was made shows the fusion on disk, and past NVBLOX there is one, except in a
\* rehearsal; the steps are taken in their order, so a later one has what the earlier made.
PostInv ==
  /\ ShowsScene(layers) /\ ShowsScene(reach) /\ ShowsScene(export) /\ ShowsScene(tables)
  /\ pc \in {"floor", "layers", "reach", "export", "ingest", "end"} =>
        Verdict(local["scene"]) # "raises" /\ (F.mode = "live" => SceneAccepted)
  /\ pc \in {"reach", "export", "ingest", "end"} => Gated \/ layers # 0
  /\ pc \in {"export", "ingest", "end"} => Gated \/ reach # 0
  /\ pc \in {"ingest", "end"} => Gated \/ export # 0
  /\ pc = "end" => Gated \/ tables # 0
  /\ outcome = "DONE" => pc = "idle"
  /\ SceneIsOneFusion

LEMMA PostInit == Init => PostInv
BY DEF Init, PostInv, ShowsScene, SceneIsOneFusion

LEMMA PostFrame ==
  ASSUME PostInv, UNCHANGED <<local, layers, reach, export, tables>>, outcome' # "DONE",
         pc' \notin {"floor", "layers", "reach", "export", "ingest", "end"}
  PROVE  PostInv'
BY DEF PostInv, ShowsScene, SceneAccepted, SceneIsOneFusion

\* A readable slice or an accepted scene, past NVBLOX.
LEMMA SliceAccepted ==
  ASSUME FusionInv, Verdict(local["scene"]) # "raises", local["scene"]["unobs"].state = "whole"
  PROVE  SceneAccepted
BY DEF FusionInv, Coherent, Present, SceneAccepted, Verdict

LEMMA AcceptedHasMesh ==
  ASSUME FusionInv, SceneAccepted
  PROVE  local["scene"]["mesh"].run # 0 /\ local["scene"]["esdf"].state # "missing"
BY DEF FusionInv, Coherent, Present, SceneAccepted, Verdict, Needed, Files

LEMMA PostStep ==
  ASSUME OwnScenes, TypeOK, FusionInv, PostInv, [Next]_vars
  PROVE  PostInv'
<1> USE DEF cpu, gpu, post, Goto, RunEnds
<1> DEFINE mesh == local["scene"]["mesh"].run
<1>1. pc # "idle" => Scene = local["scene"] /\ F.mode \in {"live", "rehearsal"}
  BY Running DEF OwnScenes, Scene, Flags, Modes
<1>2. CASE StartDriver
  BY <1>2, PostFrame DEF StartDriver
<1>3. CASE PlacePassA \/ UNCHANGED vars
  BY <1>3 DEF PlacePassA, vars, PostInv, ShowsScene, SceneAccepted, SceneIsOneFusion, Gated, F
<1>4. CASE RunFails \/ PassA \/ PackRgb \/ PackRgbCut
  BY <1>4, PostFrame DEF RunFails, PassA, PackRgb, PackRgbCut, PostInv
<1>5. CASE MvfilterSkip \/ MvfilterStart \/ FilterCut \/ Filtered \/ GpuUp \/ NvbloxStart
  BY <1>5, PostFrame DEF MvfilterSkip, MvfilterStart, FilterCut, Filtered, GpuUp, NvbloxStart,
     PostInv
<1>6. CASE FilterArm \/ Fuse \/ FuseCut
  BY <1>6, PostFrame DEF FilterArm, Fuse, FuseCut, PostInv
<1>7. CASE Pull \/ PullCut
  <2>1. ~SceneAccepted
    BY <1>7, NoSlice DEF Pull, PullCut, FusionInv, ArmsLeft, TypeOK
  <2>2. layers = 0 /\ reach = 0 /\ export = 0 /\ tables = 0
    BY <2>1 DEF PostInv, ShowsScene
  <2>3. UNCHANGED <<layers, reach, export, tables>> /\ pc' \in {"fuse", "idle"}
        /\ outcome' # "DONE"
    BY <1>7 DEF Pull, PullCut, PostInv
  <2>4. QED
    BY <2>2, <2>3 DEF PostInv, ShowsScene, SceneIsOneFusion
<1>8. CASE NvbloxSkip \/ NvbloxRehearsed \/ Nvbloxed
  <2>1. Verdict(local["scene"]) # "raises" /\ (F.mode = "live" => SceneAccepted)
    BY <1>1, <1>8 DEF NvbloxSkip, NvbloxRehearsed, Nvbloxed, SceneAccepted
  <2>2. QED
    BY <1>8, <2>1 DEF NvbloxSkip, NvbloxRehearsed, Nvbloxed, PostInv, ShowsScene,
       SceneAccepted, SceneIsOneFusion, F
<1>9. CASE Floor
  BY <1>9 DEF Floor, PostInv, ShowsScene, SceneAccepted, SceneIsOneFusion, F
<1>10. CASE Layers
  <2>1. ~Gated /\ layers = 0 => SceneAccepted
    BY <1>1, <1>10, SliceAccepted DEF Layers, Readable, PostInv
  <2>2. ShowsScene(layers)' /\ (Gated \/ layers' # 0)
    BY <1>1, <1>10, <2>1, AcceptedHasMesh DEF Layers, Made, PostInv, ShowsScene, SceneAccepted
  <2>3. QED
    BY <1>10, <2>2 DEF Layers, PostInv, ShowsScene, SceneAccepted, SceneIsOneFusion, Gated, F
<1>11. CASE Reach
  <2>1. ShowsScene(reach)' /\ (Gated \/ reach' # 0)
    BY <1>11 DEF Reach, Made, PostInv, ShowsScene, SceneAccepted
  <2>2. QED
    BY <1>11, <2>1 DEF Reach, PostInv, ShowsScene, SceneAccepted, SceneIsOneFusion, Gated, F
<1>12. CASE Export
  <2>1. ~Gated => SceneAccepted
    BY <1>12 DEF Export, PostInv, ShowsScene
  <2>2. ShowsScene(export)' /\ (Gated \/ export' # 0)
    BY <1>1, <1>12, <2>1, AcceptedHasMesh DEF Export, Made, PostInv, ShowsScene, SceneAccepted
  <2>3. QED
    BY <1>12, <2>2 DEF Export, PostInv, ShowsScene, SceneAccepted, SceneIsOneFusion, Gated, F
<1>13. CASE Ingest
  <2>1. ~Gated => SceneAccepted
    BY <1>13 DEF Ingest, PostInv, ShowsScene
  <2>2. ShowsScene(tables)' /\ (Gated \/ tables' # 0)
    BY <1>1, <1>13, <2>1, AcceptedHasMesh DEF Ingest, Made, PostInv, ShowsScene, SceneAccepted
  <2>3. QED
    BY <1>13, <2>2 DEF Ingest, PostInv, ShowsScene, SceneAccepted, SceneIsOneFusion, Gated, F
<1>14. CASE IngestCut
  <2>1. SceneAccepted
    BY <1>14 DEF IngestCut, PostInv, ShowsScene
  <2>2. ShowsScene(tables)'
    BY <1>1, <1>14, <2>1 DEF IngestCut, ShowsScene, SceneAccepted
  <2>3. QED
    BY <1>14, <2>2 DEF IngestCut, PostInv, ShowsScene, SceneAccepted, SceneIsOneFusion
<1>15. CASE Done
  <2>1. F.mode = "live" => ~Gated
    BY DEF Gated
  <2>2. QED
    BY <1>15, <2>1 DEF Done, PostInv, ShowsScene, SceneAccepted, SceneIsOneFusion, F
<1>16. QED
  BY <1>2, <1>3, <1>4, <1>5, <1>6, <1>7, <1>8, <1>9, <1>10, <1>11, <1>12, <1>13, <1>14, <1>15
     DEF Next

(* Where no run reads the published scene, a live run that is DONE has made, or kept, outputs
   of one fusion, the one on disk: SceneIsOneFusion of PipelineResume. *)
THEOREM SceneOfOneFusion == OwnScenes => (Spec => []SceneIsOneFusion)
<1> SUFFICES ASSUME OwnScenes PROVE Spec => []SceneIsOneFusion
  OBVIOUS
<1>1. TypeOK /\ FusionInv /\ PostInv /\ [Next]_vars => PostInv'
  BY PostStep
<1>2. PostInv => SceneIsOneFusion
  BY DEF PostInv
<1>3. QED
  BY <1>1, <1>2, PostInit, FusionAlways, PTL DEF Spec
=============================================================================
