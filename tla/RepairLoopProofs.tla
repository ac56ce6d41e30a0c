---------------------------- MODULE RepairLoopProofs ----------------------------
(***************************************************************************)
(* What is proved about RepairLoop, for every set of hypotheses and        *)
(* diagnostics and every ceiling.  The types need to know what stands      *)
(* while an attempt is under way (Working).  Everything else rests on one  *)
(* measure: the number of diagnostics in the target, which a kept repair   *)
(* lowers, so that no earlier state of the diagnostics comes back.         *)
(***************************************************************************)
EXTENDS RepairLoop, FiniteSetTheorems, SequenceTheorems, TLAPS

USE CeilingAssumption, MaxWallAssumption, UnavailableAssumption

\* An attempt was proposed and is neither kept nor undone.
Attempting == phase \in {"apply", "write", "verify", "record", "rollback"}

\* What an attempt under way has before it, and that nothing is kept before the loop.
Working ==
    /\ Attempting => attempt <= Ceiling /\ patch \in Hypotheses
    /\ phase \in {"record", "rollback"} => answer \in Verifications
    /\ phase = "start" => applied = <<>> /\ tried = {}

\* A report of the compiler is a finite set of diagnostics.
LEMMA Reports ==
    /\ \A v \in Verifications : v \in Answer
    /\ \A report \in Report : /\ IsFiniteSet(Target(report)) /\ Cardinality(Target(report)) \in Nat
                              /\ IsFiniteSet(report) /\ Cardinality(report) \in Nat
<1>1. \A v \in Verifications : v \in Answer
  <2>1. ASSUME NEW v \in Compiled
        PROVE  v \in Answer
    <3>1. PICK report \in SUBSET (Diagnostics \ {Unavailable}) :
              v = [built |-> report = {}, after |-> report]
      BY DEF Compiled
    <3>2. (report = {}) \in BOOLEAN /\ report \in Report
      BY DEF Report
    <3> QED BY <3>1, <3>2 DEF Answer
  <2>2. DidNotRun \in Answer
    BY DEF DidNotRun, Answer, Report
  <2> QED BY <2>1, <2>2 DEF Verifications
<1>2. ASSUME NEW report \in Report
      PROVE  IsFiniteSet(report) /\ IsFiniteSet(Target(report))
  BY DiagnosticsAssumption, FS_Subset DEF Report, Target
<1> QED BY <1>1, <1>2, FS_CardinalityType

\* A text that is read is one of edits.
LEMMA Reads == TypeOK => \A text \in Read : text \in Seq(Edits)
<1>1. Lost \in Edits
  BY DEF Edits
<1>2. <<Lost>> \in Seq(Edits)
  BY <1>1
<1> QED BY <1>2 DEF TypeOK, Read

\* Types, and what an attempt has before it, are kept by every step.
LEMMA TypeStep ==
    ASSUME TypeOK, Working, [Next]_vars
    PROVE  TypeOK' /\ Working'
<1> USE DEF TypeOK, Working, Attempting, Phases, Outcomes, Report
<1>a. \A text \in Read : text \in Seq(Edits)
  BY Reads
<1>b. \A e \in 1 .. Ceiling : e \in Edits
  BY DEF Edits
<1>1. CASE Begin
  <2>1. \A v \in Verifications : v.after \in SUBSET Diagnostics
    BY Reports DEF Answer
  <2> QED BY <1>1, <1>a, <2>1 DEF Begin, NewSession
<1>2. CASE WallClock \/ ReachCeiling \/ NoProposal
  BY <1>2 DEF WallClock, ReachCeiling, NoProposal, Finish, call
<1>3. CASE Propose
  BY <1>3 DEF Propose
<1>4. CASE ReadFile
  BY <1>4, <1>a DEF ReadFile
<1>5. CASE WriteFile
  <2>1. file' \in Seq(Edits)
    BY <1>5, <1>b DEF WriteFile
  <2> QED BY <1>5, <2>1 DEF WriteFile, call
<1>6. CASE Verify
  BY <1>6, Reports DEF Verify
<1>7. ASSUME phase \in {"record", "rollback"}
      PROVE  Recorded \in [startedAt : 0 .. now, max : 1 .. Ceiling,
                           patches : SUBSET ((0 .. Ceiling) \X Hypotheses), last : Nat \cup {None}]
  <2>1. answer.after \in Report
    BY <1>7, Reports DEF Answer
  <2>2. Cardinality(answer.after) \in Nat
    BY <2>1, Reports
  <2>3. Hash(patch) \in (0 .. Ceiling) \X Hypotheses
    BY <1>7 DEF Hash
  <2> QED BY <2>2, <2>3 DEF Recorded
<1>8. CASE AcceptFinal
  BY <1>7, <1>8, Reports DEF AcceptFinal, Judged, Keep, Answer
<1>9. CASE AcceptPartial
  <2>1. Remaining \in 1 .. Ceiling
    BY DEF Remaining
  <2> QED BY <1>9, <1>a, <2>1, Reports DEF AcceptPartial, Judged, Keep, Answer, NewSession, NextIteration
<1>10. CASE Reject
  BY <1>10 DEF Reject, Judged, call
<1>11. CASE Rollback
  <2>1. /\ file' = original /\ session' = Recorded /\ answer \in Verifications
        /\ UNCHANGED <<now, start, reported, applied, context, tried>>
        /\ attempt \in 1 .. Ceiling /\ patch \in Hypotheses
    BY <1>11 DEF Rollback, Restored
  <2>2. \/ /\ phase' = "loop" /\ attempt' = attempt + 1
           /\ patch' = None /\ original' = <<>> /\ answer' = None
        \/ phase' = "stopped" /\ UNCHANGED <<attempt, patch, original, answer>>
    BY <1>11 DEF Rollback, NextIteration
  <2>3. session' \in [startedAt : 0 .. now', max : 1 .. Ceiling,
                      patches : SUBSET ((0 .. Ceiling) \X Hypotheses), last : Nat \cup {None}]
    BY <1>7, <1>11, <2>1 DEF Rollback
  <2>4. <<>> \in Seq(Edits)
    OBVIOUS
  <2>5. answer' \in Answer \cup {None} /\ attempt' \in 1 .. Ceiling + 1 /\ patch' \in Hypotheses \cup {None}
    BY <2>1, <2>2, Reports
  <2> HIDE DEF Report
  <2> QED BY <2>1, <2>2, <2>3, <2>4, <2>5
<1>12. CASE Tick
  BY <1>12 DEF Tick, call
<1>13. CASE OtherWrites
  <2>1. file' \in Seq(Edits)
    BY <1>13 DEF OtherWrites, Edits
  <2> QED BY <1>13, <2>1 DEF OtherWrites, call
<1>14. CASE Die \/ Overrun
  <2>1. Abandon("died") \/ Abandon("threw")
    BY <1>14 DEF Die, Overrun
  <2>2. /\ attempt' = 1 /\ start' = {} /\ reported' = {} /\ applied' = <<>> /\ tried' = {}
        /\ session' = NewSession(Ceiling) /\ phase' \in {"died", "threw"}
        /\ context' = <<>> /\ original' = <<>> /\ patch' = None /\ answer' = None
        /\ UNCHANGED <<now, file>>
    BY <2>1 DEF Abandon
  <2>3. session' \in [startedAt : 0 .. now', max : 1 .. Ceiling,
                      patches : SUBSET ((0 .. Ceiling) \X Hypotheses), last : Nat \cup {None}]
    BY <2>2 DEF NewSession
  <2>4. <<>> \in Seq(Edits) /\ <<>> \in Seq(1 .. Ceiling)
    OBVIOUS
  <2> QED BY <2>2, <2>3, <2>4
<1>15. CASE UNCHANGED vars
  BY <1>15 DEF vars, call
<1> QED BY <1>1, <1>2, <1>3, <1>4, <1>5, <1>6, <1>8, <1>9, <1>10, <1>11, <1>12, <1>13, <1>14, <1>15
        DEF Next, Step, Terminated

\* Every variable keeps its type.
LEMMA Typed == Spec => [](TypeOK /\ Working)
<1>1. Init => TypeOK /\ Working
  BY DEF Init, TypeOK, Working, Attempting, Phases, Outcomes, Report, NewSession
<1> QED BY <1>1, TypeStep, PTL DEF Spec

\* Every variable keeps its type, whatever the proposer and the compiler answer.
THEOREM Typing == Spec => []TypeOK
BY Typed, PTL

(***************************************************************************)
(* Convergence.                                                            *)
(***************************************************************************)
\* While the loop goes on the repairs that were kept have each lowered the number of
\* diagnostics in the target, and brought no kind of diagnostic.
THEOREM Convergence == Spec => []RepairsConverge
<1>1. ASSUME Target(reported) = {}, reported = {}, Len(applied) = 0, Cardinality(Target(start)) \in Nat
      PROVE  RepairsConverge
  <2>1. Cardinality({}) = 0
    BY FS_EmptySet
  <2> QED BY <1>1, <2>1 DEF RepairsConverge, Kinds
<1>2. Init => RepairsConverge
  <2> SUFFICES ASSUME Init PROVE RepairsConverge
    OBVIOUS
  <2>1. Target(reported) = {} /\ Target(start) = {} /\ reported = {} /\ Len(applied) = 0
    BY DEF Init, Target
  <2>2. Cardinality(Target(start)) \in Nat
    BY <2>1, FS_EmptySet
  <2> QED BY <1>1, <2>1, <2>2
<1>3. ASSUME TypeOK, TypeOK', Working, RepairsConverge, [Next]_vars
      PROVE  RepairsConverge'
  <2>1. CASE Begin
    <3>1. reported' = start' /\ applied' = <<>> /\ phase' = "loop"
      BY <1>3, <2>1 DEF Begin, Working
    <3>2. Cardinality(Target(reported')) \in Nat
      BY <1>3, Reports DEF TypeOK
    <3> QED BY <3>1, <3>2 DEF RepairsConverge, Target, Kinds
  <2>2. CASE AcceptPartial
    <3>1. /\ reported' = answer.after /\ applied' = Append(applied, attempt) /\ start' = start
          /\ Reduced(reported, answer.after) /\ phase = "record"
      BY <2>2 DEF AcceptPartial, Keep, Judged
    <3>2. Len(applied') = Len(applied) + 1 /\ Len(applied) \in Nat
      BY <1>3, <3>1 DEF TypeOK
    <3>3. /\ Cardinality(Target(reported)) \in Nat /\ Cardinality(Target(reported')) \in Nat
          /\ Cardinality(Target(start)) \in Nat
      BY <1>3, Reports DEF TypeOK
    <3>4. /\ Cardinality(Target(reported)) + Len(applied) <= Cardinality(Target(start))
          /\ Kinds(reported) \subseteq Kinds(start)
      BY <1>3, <3>1 DEF RepairsConverge
    <3>5. /\ Kinds(reported') \subseteq Kinds(start)
          /\ Cardinality(Target(reported')) < Cardinality(Target(reported))
      BY <3>1, <3>4 DEF Reduced
    <3>6. Cardinality(Target(reported')) + Len(applied') <= Cardinality(Target(start))
      BY <3>2, <3>3, <3>4, <3>5
    <3>7. RepairsConverge' = (phase' # "resolved" =>
              /\ Cardinality(Target(reported')) + Len(applied') <= Cardinality(Target(start'))
              /\ Kinds(reported') \subseteq Kinds(start'))
      BY DEF RepairsConverge, Target, Kinds
    <3> QED BY <3>1, <3>5, <3>6, <3>7
  <2>3. CASE AcceptFinal
    BY <2>3 DEF AcceptFinal, RepairsConverge
  <2>4. CASE Overrun \/ Die
    <3>1. reported' = {} /\ start' = {} /\ applied' = <<>>
      BY <2>4 DEF Overrun, Die, Abandon
    <3>2. Cardinality(Target(reported')) = 0 /\ Target(start') = Target(reported')
      BY <3>1, FS_EmptySet DEF Target
    <3> QED BY <3>1, <3>2 DEF RepairsConverge, Target, Kinds
  <2>5. CASE UNCHANGED <<start, reported, applied>> /\ (phase' = "resolved" <=> phase = "resolved")
    BY <1>3, <2>5 DEF RepairsConverge, Target, Kinds
  <2>6. \/ Begin \/ AcceptPartial \/ AcceptFinal \/ Overrun \/ Die
        \/ UNCHANGED <<start, reported, applied>> /\ (phase' = "resolved" <=> phase = "resolved")
    BY <1>3 DEF Next, Step, WallClock, ReachCeiling, NoProposal, Propose, ReadFile, WriteFile, Verify,
                Reject, Rollback, Tick, OtherWrites, Terminated, Finish, Judged, Over,
                Outcomes, NextIteration, vars, call
  <2> QED BY <2>1, <2>2, <2>3, <2>4, <2>5, <2>6
<1> QED BY <1>2, <1>3, Typed, PTL DEF Spec

(***************************************************************************)
(* Attempts.                                                               *)
(***************************************************************************)
\* Every attempt so far was against no fewer diagnostics than there are now; those
\* against the very same ones are in the session, or under way, unless their name
\* is another one now.
Remembered ==
    \A report \in Report, p \in Hypotheses \ CodeActions : <<report, p>> \in tried =>
        /\ Cardinality(Target(reported)) <= Cardinality(Target(report))
        /\ report = reported =>
               /\ phase = "loop" => <<0, p>> \in session.patches
               /\ Attempting => <<0, p>> \in session.patches \/ p = patch

\* The record of the attempts suffices, though a kept repair throws it away.
LEMMA RememberedStep ==
    ASSUME TypeOK, TypeOK', Working, Remembered, [Next]_vars
    PROVE  Remembered'
<1> USE DEF Attempting
<1>1. CASE Begin
  BY <1>1 DEF Begin, Working, Remembered
<1>2. CASE Propose
  <2>1. ASSUME NEW p \in Hypotheses, Permitted(p), patch' = p, tried' = tried \cup {<<reported, p>>},
               phase' = "apply"
        PROVE  Remembered'
    <3>1. UNCHANGED <<reported, session>> /\ phase = "loop"
      BY <1>2 DEF Propose
    <3>2. Cardinality(Target(reported)) \in Nat
      BY Reports DEF TypeOK
    <3>3. ASSUME NEW report \in Report, NEW q \in Hypotheses \ CodeActions, <<report, q>> \in tried
          PROVE  /\ Cardinality(Target(reported)) <= Cardinality(Target(report))
                 /\ report = reported => <<0, q>> \in session.patches
      BY <3>1, <3>3 DEF Remembered
    <3>4. \A report \in Report, q \in Hypotheses \ CodeActions : <<report, q>> \in tried' =>
              <<report, q>> \in tried \/ (report = reported /\ q = patch')
      BY <2>1
    <3>5. ASSUME NEW report \in Report, NEW q \in Hypotheses \ CodeActions, <<report, q>> \in tried'
          PROVE  /\ Cardinality(Target(reported)) <= Cardinality(Target(report))
                 /\ report = reported => <<0, q>> \in session.patches \/ q = patch'
      BY <3>2, <3>3, <3>4, <3>5
    <3> QED BY <2>1, <3>1, <3>5 DEF Remembered, Target
  <2>2. ASSUME phase' = "budget_exhausted", UNCHANGED <<patch, tried>>
        PROVE  Remembered'
    BY <1>2, <2>2 DEF Propose, Remembered, Target
  <2> QED BY <1>2, <2>1, <2>2 DEF Propose
<1>3. CASE AcceptPartial
  <2>1. /\ reported' = answer.after /\ Reduced(reported, answer.after) /\ UNCHANGED tried
    BY <1>3 DEF AcceptPartial, Keep
  <2>2. Cardinality(Target(reported)) \in Nat /\ Cardinality(Target(reported')) \in Nat
    BY Reports DEF TypeOK
  <2>3. Cardinality(Target(reported')) < Cardinality(Target(reported))
    BY <2>1 DEF Reduced
  <2> SUFFICES ASSUME NEW report \in Report, NEW p \in Hypotheses \ CodeActions, <<report, p>> \in tried
               PROVE  /\ Cardinality(Target(reported')) <= Cardinality(Target(report))
                      /\ report # reported'
    BY <2>1 DEF Remembered, Target
  <2>4. Cardinality(Target(reported)) <= Cardinality(Target(report)) /\ Cardinality(Target(report)) \in Nat
    BY Reports DEF Remembered
  <2> QED BY <2>2, <2>3, <2>4
<1>4. CASE AcceptFinal
  <2>1. reported' = answer.after /\ UNCHANGED tried /\ phase' = "resolved"
    BY <1>4 DEF AcceptFinal, Keep
  <2>2. Target(reported') = {}
    BY <1>4, <2>1 DEF AcceptFinal, Resolved, Target
  <2>3. Cardinality(Target(reported')) <= Cardinality(Target(reported))
    BY <2>2, Reports, FS_EmptySet DEF TypeOK
  <2> SUFFICES ASSUME NEW report \in Report, NEW p \in Hypotheses \ CodeActions, <<report, p>> \in tried
               PROVE  Cardinality(Target(reported')) <= Cardinality(Target(report))
    BY <2>1 DEF Remembered, Target
  <2>4. Cardinality(Target(reported)) <= Cardinality(Target(report))
    BY DEF Remembered
  <2>5. /\ Cardinality(Target(report)) \in Nat /\ Cardinality(Target(reported)) \in Nat
        /\ Cardinality(Target(reported')) \in Nat
    BY Reports DEF TypeOK
  <2> QED BY <2>3, <2>4, <2>5
<1>5. CASE Rollback
  <2>1. session'.patches = session.patches \cup {Hash(patch)}
    BY <1>5 DEF Rollback, Recorded, TypeOK
  <2>2. \A p \in Hypotheses \ CodeActions : p = patch => Hash(patch) = <<0, p>>
    BY DEF Hash
  <2>3. UNCHANGED <<reported, tried>> /\ phase = "rollback" /\ phase' \in {"loop", "stopped"}
    BY <1>5 DEF Rollback, NextIteration
  <2> QED BY <2>1, <2>2, <2>3 DEF Remembered, Target
<1>6. CASE UNCHANGED <<reported, session, patch, tried>>
           /\ (phase' = "loop" => phase = "loop")
           /\ (Attempting' => Attempting)
  BY <1>6 DEF Remembered, Target
<1>8. CASE Overrun \/ Die
  BY <1>8 DEF Overrun, Die, Abandon, Remembered
<1>7. \/ Begin \/ Propose \/ AcceptPartial \/ AcceptFinal \/ Rollback \/ Overrun \/ Die
      \/ /\ UNCHANGED <<reported, session, patch, tried>>
         /\ phase' = "loop" => phase = "loop"
         /\ Attempting' => Attempting
  BY DEF Next, Step, WallClock, ReachCeiling, NoProposal, ReadFile, WriteFile, Verify,
         Reject, Tick, OtherWrites, Terminated, Finish, Judged, Over,
         Outcomes, vars, call
<1> QED BY <1>1, <1>2, <1>3, <1>4, <1>5, <1>6, <1>7, <1>8

\* No patch whose name follows from its edit is tried twice against the same
\* diagnostics, over all the sessions.
THEOREM NeverTwice == Spec => NoPatchTwice
<1>1. Init => Remembered
  BY DEF Init, Remembered
<1>2. ASSUME TypeOK, Remembered, [Next]_vars
      PROVE  [phase' = "apply" /\ phase # "apply" =>
                  patch' \in CodeActions \/ <<reported, patch'>> \notin tried]_vars
  <2> SUFFICES ASSUME Next, phase' = "apply", phase # "apply", patch' \notin CodeActions
               PROVE  <<reported, patch'>> \notin tried
    BY <1>2
  <2>1. Propose
    BY DEF Next, Step, Begin, WallClock, ReachCeiling, NoProposal, ReadFile, WriteFile, Verify, Overrun,
           AcceptFinal, AcceptPartial, Reject, Rollback, Tick, OtherWrites, Die, Terminated, Finish,
           Outcomes, NextIteration, Abandon, vars
  <2>2. patch' \in Hypotheses \ CodeActions /\ <<0, patch'>> \notin session.patches /\ phase = "loop"
    BY <2>1 DEF Propose, Permitted, Hash
  <2>3. reported \in Report
    BY <1>2 DEF TypeOK
  <2> QED BY <1>2, <2>2, <2>3 DEF Remembered
<1> QED BY <1>1, <1>2, RememberedStep, Typed, PTL DEF Spec, NoPatchTwice

\* With the TypeScript ports a call that reports success has the answer of a compiler
\* that ran: what did not run is a diagnostic in the target.
THEOREM SuccessWasCompiled == Spec => [](Verifier = "tsc" => ResolvedWasCompiled)
<1> DEFINE Claim == Verifier = "tsc" => ResolvedWasCompiled
<1>1. Init => Claim
  BY DEF Init, ResolvedWasCompiled
<1>2. ASSUME TypeOK, Working, Claim, [Next]_vars
      PROVE  Claim'
  <2> SUFFICES ASSUME Verifier = "tsc", phase' = "resolved"
               PROVE  answer' \in Compiled
    BY DEF ResolvedWasCompiled
  <2>1. CASE AcceptFinal
    <3>1. answer \in Verifications /\ Target(answer.after) = {} /\ answer' = answer
      BY <1>2, <2>1 DEF AcceptFinal, Judged, Working, Resolved, Keep
    <3>2. Unavailable \notin answer.after
      BY <3>1 DEF Target
    <3> QED BY <3>1, <3>2 DEF Verifications, DidNotRun
  <2>2. CASE UNCHANGED <<phase, answer>>
    BY <1>2, <2>2 DEF ResolvedWasCompiled
  <2>3. AcceptFinal \/ UNCHANGED <<phase, answer>>
    BY <1>2 DEF Next, Step, Begin, WallClock, ReachCeiling, NoProposal, Propose, ReadFile, WriteFile,
                Verify, Overrun, AcceptPartial, Reject, Rollback, Tick, OtherWrites, Die, Terminated,
                Finish, Abandon, NextIteration, Over, vars, call
  <2> QED BY <2>1, <2>2, <2>3
<1> QED BY <1>1, <1>2, Typed, PTL DEF Spec

(***************************************************************************)
(* What the call returns.  While an attempt is under way the file holds    *)
(* one edit more than was kept, and what apply read holds what was kept.   *)
(***************************************************************************)
LEMMA RemoveAtIs ==
    ASSUME NEW S, NEW s \in Seq(S), NEW i \in 1 .. Len(s)
    PROVE  /\ RemoveAt(s, i) \in Seq(S)
           /\ Len(RemoveAt(s, i)) = Len(s) - 1
           /\ \A j \in 1 .. Len(s) - 1 : RemoveAt(s, i)[j] = IF j < i THEN s[j] ELSE s[j + 1]
<1> DEFINE a == SubSeq(s, 1, i - 1)
           b == SubSeq(s, i + 1, Len(s))
<1>1. Len(s) \in Nat /\ i \in Nat /\ i >= 1 /\ i <= Len(s)
  OBVIOUS
<1>2. /\ a \in Seq(S) /\ Len(a) = i - 1
      /\ \A j \in 1 .. i - 1 : a[j] = s[j]
  <2>1. 1 \in Int /\ i - 1 \in Int /\ \A j \in 1 .. i - 1 : s[j] \in S
    BY <1>1
  <2>2. /\ SubSeq(s, 1, i - 1) \in Seq(S)
        /\ Len(SubSeq(s, 1, i - 1)) = IF 1 <= i - 1 THEN i - 1 - 1 + 1 ELSE 0
        /\ \A j \in 1 .. i - 1 - 1 + 1 : SubSeq(s, 1, i - 1)[j] = s[1 + j - 1]
    BY <2>1, SubSeqProperties
  <2>3. a = SubSeq(s, 1, i - 1)
    OBVIOUS
  <2> HIDE DEF a
  <2> QED BY <1>1, <2>2, <2>3
<1>3. /\ b \in Seq(S) /\ Len(b) = Len(s) - i
      /\ \A j \in 1 .. Len(s) - i : b[j] = s[i + j]
  <2>1. i + 1 \in Int /\ Len(s) \in Int /\ \A j \in i + 1 .. Len(s) : s[j] \in S
    BY <1>1
  <2>2. /\ SubSeq(s, i + 1, Len(s)) \in Seq(S)
        /\ Len(SubSeq(s, i + 1, Len(s))) = IF i + 1 <= Len(s) THEN Len(s) - (i + 1) + 1 ELSE 0
        /\ \A j \in 1 .. Len(s) - (i + 1) + 1 : SubSeq(s, i + 1, Len(s))[j] = s[i + 1 + j - 1]
    BY <2>1, SubSeqProperties
  <2>3. b = SubSeq(s, i + 1, Len(s))
    OBVIOUS
  <2> HIDE DEF b
  <2> QED BY <1>1, <2>2, <2>3
<1>4. RemoveAt(s, i) = a \o b
  BY DEF RemoveAt
<1> HIDE DEF a, b
<1>5. /\ a \o b \in Seq(S) /\ Len(a \o b) = Len(a) + Len(b)
      /\ \A j \in 1 .. Len(a) + Len(b) : (a \o b)[j] = IF j <= Len(a) THEN a[j] ELSE b[j - Len(a)]
  BY <1>2, <1>3, ConcatProperties
<1>6. ASSUME NEW j \in 1 .. Len(s) - 1
      PROVE  (a \o b)[j] = IF j < i THEN s[j] ELSE s[j + 1]
  <2>1. j \in Int /\ j \in 1 .. Len(a) + Len(b)
    BY <1>1, <1>2, <1>3
  <2>2. CASE j < i
    BY <1>1, <1>2, <1>5, <2>1, <2>2
  <2>3. CASE ~(j < i)
    <3>1. j - (i - 1) \in 1 .. Len(s) - i
      BY <1>1, <2>1, <2>3
    <3>2. (a \o b)[j] = b[j - (i - 1)]
      BY <1>1, <1>2, <1>5, <2>1, <2>3
    <3> QED BY <1>1, <1>3, <2>1, <2>3, <3>1, <3>2, SMTT(30)
  <2> QED BY <2>2, <2>3
<1> QED BY <1>1, <1>2, <1>3, <1>4, <1>5, <1>6

\* An edit of the call is one more of its own; one of somebody else is none.
LEMMA OwnEditsAppend ==
    ASSUME NEW s \in Seq(Edits)
    PROVE  /\ \A e \in 1 .. Ceiling : OwnEdits(Append(s, e)) = Append(OwnEdits(s), e)
           /\ Places(s) = {} => OwnEdits(Append(s, Other)) = s
<1>1. \A e \in Edits : /\ Append(s, e) \in Seq(Edits)
                       /\ Len(Append(s, e)) = Len(s) + 1 /\ Len(s) \in Nat
                       /\ \A j \in 1 .. Len(s) : Append(s, e)[j] = s[j]
                       /\ Append(s, e)[Len(s) + 1] = e
  OBVIOUS
<1>2. ASSUME NEW e \in 1 .. Ceiling
      PROVE  OwnEdits(Append(s, e)) = Append(OwnEdits(s), e)
  <2>1. e \in Edits /\ e # Other
    BY OtherAssumption DEF Edits
  <2>2. Places(Append(s, e)) = Places(s)
    BY <1>1, <2>1 DEF Places
  <2>3. CASE Places(s) = {}
    BY <2>2, <2>3 DEF OwnEdits
  <2>4. CASE Places(s) # {}
    <3> DEFINE i == CHOOSE i \in Places(s) : TRUE
               t == Append(s, e)
    <3>1. i \in 1 .. Len(s)
      BY <2>4 DEF Places
    <3>2. OwnEdits(s) = RemoveAt(s, i) /\ OwnEdits(t) = RemoveAt(t, i)
      BY <2>2, <2>4 DEF OwnEdits
    <3> HIDE DEF i
    <3>3. /\ t \in Seq(Edits) /\ Len(t) = Len(s) + 1 /\ Len(s) \in Nat
          /\ \A j \in 1 .. Len(s) : t[j] = s[j]
          /\ t[Len(s) + 1] = e
      BY <1>1, <2>1
    <3> HIDE DEF t
    <3>4. /\ RemoveAt(s, i) \in Seq(Edits)
          /\ Len(RemoveAt(s, i)) = Len(s) - 1
          /\ \A j \in 1 .. Len(s) - 1 : RemoveAt(s, i)[j] = IF j < i THEN s[j] ELSE s[j + 1]
      BY <3>1, RemoveAtIs
    <3>5. /\ RemoveAt(t, i) \in Seq(Edits)
          /\ Len(RemoveAt(t, i)) = Len(t) - 1
          /\ \A j \in 1 .. Len(t) - 1 : RemoveAt(t, i)[j] = IF j < i THEN t[j] ELSE t[j + 1]
      <4>1. i \in 1 .. Len(t)
        BY <3>1, <3>3
      <4> QED BY <3>3, <4>1, RemoveAtIs
    <3> DEFINE r == RemoveAt(s, i)
               u == Append(r, e)
    <3>6. /\ u \in Seq(Edits) /\ Len(u) = Len(s)
          /\ \A j \in 1 .. Len(s) - 1 : u[j] = r[j]
          /\ u[Len(s)] = e
      <4> HIDE DEF r
      <4>1. r \in Seq(Edits) /\ Len(r) = Len(s) - 1
        BY <3>4 DEF r
      <4> QED BY <2>1, <3>3, <4>1
    <3> HIDE DEF u
    <3>7. ASSUME NEW j \in 1 .. Len(s)
          PROVE  RemoveAt(t, i)[j] = u[j]
      <4>1. j \in Int /\ i \in Int /\ i <= Len(s) /\ j <= Len(s) /\ j >= 1
        BY <3>1, <3>3
      <4>2. RemoveAt(t, i)[j] = IF j < i THEN t[j] ELSE t[j + 1]
        BY <3>3, <3>5
      <4>3. CASE j = Len(s)
        BY <3>3, <3>6, <4>1, <4>2, <4>3
      <4>4. CASE j # Len(s)
        <5>1. j \in 1 .. Len(s) - 1 /\ j + 1 \in 1 .. Len(s)
          BY <3>3, <4>1, <4>4
        <5>2. u[j] = IF j < i THEN s[j] ELSE s[j + 1]
          BY <3>4, <3>6, <5>1
        <5>3. t[j] = s[j] /\ t[j + 1] = s[j + 1]
          BY <3>3, <5>1
        <5> QED BY <4>2, <5>2, <5>3
      <4> QED BY <4>3, <4>4
    <3>8. RemoveAt(t, i) = u
      BY <3>3, <3>5, <3>6, <3>7, SeqEqual
    <3> QED BY <3>2, <3>8 DEF t, u
  <2> QED BY <2>3, <2>4
<1>3. ASSUME Places(s) = {}
      PROVE  OwnEdits(Append(s, Other)) = s
  <2> DEFINE t == Append(s, Other)
             n == Len(s) + 1
  <2>1. /\ t \in Seq(Edits) /\ Len(t) = n /\ Len(s) \in Nat
        /\ \A j \in 1 .. Len(s) : t[j] = s[j]
        /\ t[n] = Other
    BY <1>1 DEF Edits
  <2> HIDE DEF t
  <2>2. Places(t) = {n}
    BY <1>3, <2>1 DEF Places
  <2>3. OwnEdits(t) = RemoveAt(t, n)
    BY <2>2 DEF OwnEdits
  <2>4. /\ RemoveAt(t, n) \in Seq(Edits)
        /\ Len(RemoveAt(t, n)) = Len(t) - 1
        /\ \A j \in 1 .. Len(t) - 1 : RemoveAt(t, n)[j] = IF j < n THEN t[j] ELSE t[j + 1]
    <3>1. n \in 1 .. Len(t)
      BY <2>1
    <3> QED BY <2>1, <3>1, RemoveAtIs
  <2>5. Len(RemoveAt(t, n)) = Len(s) /\ \A j \in 1 .. Len(s) : RemoveAt(t, n)[j] = s[j]
    BY <2>1, <2>4
  <2>6. RemoveAt(t, n) = s
    BY <2>4, <2>5, SeqEqual
  <2> QED BY <2>3, <2>6 DEF t
<1> QED BY <1>2, <1>3

\* A text holds what was kept: nothing else, and unless it lacks a text that was
\* lost, all of it in its order.
Holds(edits, kept) ==
    /\ Range(edits) \subseteq Range(kept) \cup {Other, Lost}
    /\ Lost \notin Range(edits) => OwnEdits(edits) = kept

LEMMA RangeAppend ==
    ASSUME NEW S, NEW s \in Seq(S), NEW e \in S
    PROVE  Range(Append(s, e)) = Range(s) \cup {e}
<1>1. /\ DOMAIN s = 1 .. Len(s) /\ DOMAIN Append(s, e) = 1 .. Len(s) + 1 /\ Len(s) \in Nat
      /\ \A i \in 1 .. Len(s) : Append(s, e)[i] = s[i]
      /\ Append(s, e)[Len(s) + 1] = e
  OBVIOUS
<1> QED BY <1>1 DEF Range

\* What a text holds, when the call, a failed read or somebody else writes it.
LEMMA HoldsAppend ==
    ASSUME NEW s \in Seq(Edits), NEW kept \in Seq(1 .. Ceiling), Holds(s, kept)
    PROVE  /\ \A e \in 1 .. Ceiling : Holds(Append(s, e), Append(kept, e))
           /\ Places(s) = {} => Holds(Append(s, Other), kept)
<1>1. ASSUME NEW e \in 1 .. Ceiling
      PROVE  Holds(Append(s, e), Append(kept, e))
  <2>1. Range(Append(s, e)) = Range(s) \cup {e}
    <3>1. e \in Edits
      BY DEF Edits
    <3> QED BY <3>1, RangeAppend
  <2>3. Range(Append(kept, e)) = Range(kept) \cup {e}
    BY RangeAppend
  <2>2. OwnEdits(Append(s, e)) = Append(OwnEdits(s), e)
    BY OwnEditsAppend
  <2> QED BY <2>1, <2>2, <2>3 DEF Holds
<1>2. ASSUME Places(s) = {}
      PROVE  Holds(Append(s, Other), kept)
  <2>1. Range(Append(s, Other)) = Range(s) \cup {Other}
    BY RangeAppend DEF Edits
  <2>2. OwnEdits(Append(s, Other)) = s /\ OwnEdits(s) = s
    BY <1>2, OwnEditsAppend DEF OwnEdits
  <2> QED BY <2>1, <2>2 DEF Holds
<1> QED BY <1>1, <1>2

LEMMA HoldsRead ==
    ASSUME NEW kept, Holds(file, kept), NEW text \in Read
    PROVE  Holds(text, kept)
<1>1. CASE text = <<Lost>>
  <2>1. Range(<<Lost>>) = {Lost}
    BY DEF Range
  <2> QED BY <1>1, <2>1 DEF Holds
<1> QED BY <1>1 DEF Read

KeptInFile ==
    /\ phase \in {"start", "loop", "apply", "write"} \cup Outcomes => Holds(file, applied)
    /\ phase \in {"loop", "apply", "write", "verify", "record", "rollback"} => Holds(context, applied)
    /\ phase \in {"write", "verify", "record", "rollback"} => Holds(original, applied)
    /\ phase \in {"verify", "record", "rollback"} => Holds(file, Append(applied, attempt))

LEMMA KeptInFileStep ==
    ASSUME TypeOK, Working, KeptInFile, [Next]_vars
    PROVE  KeptInFile'
<1> USE DEF Outcomes
<1>a. file \in Seq(Edits) /\ context \in Seq(Edits) /\ original \in Seq(Edits) /\ applied \in Seq(1 .. Ceiling)
  BY DEF TypeOK
<1>b. /\ Attempting => attempt \in 1 .. Ceiling
      /\ phase = "start" => applied = <<>>
  BY DEF TypeOK, Working, Attempting
<1>1. CASE Begin
  <2>1. Holds(file, applied)
    BY <1>1 DEF Begin, KeptInFile
  <2>2. context' \in Read /\ UNCHANGED <<file, applied>> /\ phase' = "loop"
    BY <1>1 DEF Begin
  <2>3. Holds(context', applied)
    BY <2>1, <2>2, HoldsRead
  <2> QED BY <2>1, <2>2, <2>3 DEF KeptInFile, Holds, OwnEdits, Places
<1>2. CASE WallClock \/ ReachCeiling \/ NoProposal
  <2>1. UNCHANGED <<file, applied, context, original, attempt>> /\ phase = "loop" /\ phase' \in Outcomes
    BY <1>2 DEF WallClock, ReachCeiling, NoProposal, Finish, call
  <2> QED BY <2>1 DEF KeptInFile, Holds, OwnEdits, Places
<1>3. CASE Propose
  <2>1. /\ UNCHANGED <<file, applied, context, original, attempt>> /\ phase = "loop"
        /\ phase' \in {"apply", "budget_exhausted"}
    BY <1>3 DEF Propose
  <2> QED BY <2>1 DEF KeptInFile, Holds, OwnEdits, Places
<1>4. CASE ReadFile
  <2>1. Holds(file, applied) /\ Holds(context, applied)
    BY <1>4 DEF ReadFile, KeptInFile
  <2>2. original' \in Read /\ UNCHANGED <<file, applied, context>> /\ phase' = "write"
    BY <1>4 DEF ReadFile
  <2>3. Holds(original', applied)
    BY <2>1, <2>2, HoldsRead
  <2> QED BY <2>1, <2>2, <2>3 DEF KeptInFile, Holds, OwnEdits, Places
<1>5. CASE WriteFile
  <2>1. Holds(original, applied) /\ Holds(context, applied) /\ attempt \in 1 .. Ceiling
    BY <1>5, <1>b DEF WriteFile, KeptInFile, Attempting
  <2>2. /\ Holds(Append(original, attempt), Append(applied, attempt))
        /\ Holds(Append(context, attempt), Append(applied, attempt))
    BY <1>a, <2>1, HoldsAppend
  <2>3. /\ file' = Append(original, attempt) \/ file' = Append(context, attempt)
        /\ UNCHANGED <<applied, context, original, attempt>> /\ phase' = "verify"
    BY <1>5 DEF WriteFile, call
  <2>4. Holds(file', Append(applied, attempt))
    BY <2>2, <2>3
  <2> QED BY <2>1, <2>3, <2>4 DEF KeptInFile, Holds, OwnEdits, Places
<1>6. CASE Verify
  <2>1. /\ UNCHANGED <<file, applied, context, original, attempt>>
        /\ phase = "verify" /\ phase' = "record"
    BY <1>6 DEF Verify
  <2> QED BY <2>1 DEF KeptInFile, Holds, OwnEdits, Places
<1>7. CASE AcceptFinal \/ AcceptPartial
  <2>1. Holds(file, Append(applied, attempt))
    BY <1>7 DEF AcceptFinal, AcceptPartial, Judged, KeptInFile
  <2>2. applied' = Append(applied, attempt) /\ file' = file /\ phase' \in {"resolved", "loop"}
    BY <1>7 DEF AcceptFinal, AcceptPartial, Keep, NextIteration
  <2>3. phase' = "loop" => context' \in Read
    BY <1>7 DEF AcceptFinal, AcceptPartial
  <2>4. phase' = "loop" => Holds(context', Append(applied, attempt))
    BY <2>1, <2>3, HoldsRead
  <2> QED BY <2>1, <2>2, <2>4 DEF KeptInFile, Holds, OwnEdits, Places
<1>8. CASE Reject
  <2>1. /\ UNCHANGED <<file, applied, context, original, attempt>>
        /\ phase = "record" /\ phase' = "rollback"
    BY <1>8 DEF Reject, Judged, call
  <2> QED BY <2>1 DEF KeptInFile, Holds, OwnEdits, Places
<1>9. CASE Rollback
  <2>1. /\ file' = original /\ UNCHANGED <<applied, context>>
        /\ phase = "rollback" /\ phase' \in {"loop", "stopped"}
    BY <1>9 DEF Rollback, Restored, NextIteration
  <2> QED BY <2>1 DEF KeptInFile, Holds, OwnEdits, Places
<1>10. CASE Tick
  <2>1. UNCHANGED <<file, applied, context, original, attempt, phase>>
    BY <1>10 DEF Tick, call
  <2> QED BY <2>1 DEF KeptInFile, Holds, OwnEdits, Places
<1>11. CASE OtherWrites
  <2>1. Places(file) = {}
    <3>1. (file \o original) \in Seq(Edits) /\ Len(file \o original) = Len(file) + Len(original)
      BY <1>a
    <3>2. \A i \in 1 .. Len(file) : /\ (file \o original \o context)[i] = file[i]
                                    /\ i \in 1 .. Len(file \o original \o context)
      BY <1>a, <3>1
    <3> QED BY <1>11, <3>2 DEF OtherWrites, Contains, Places
  <2>2. /\ file' = Append(file, Other)
        /\ UNCHANGED <<applied, context, original, attempt, phase>>
    BY <1>11 DEF OtherWrites, call
  <2>3. ASSUME Holds(file, applied)
        PROVE  Holds(file', applied)
    BY <1>a, <2>1, <2>2, <2>3, HoldsAppend
  <2>4. ASSUME Holds(file, Append(applied, attempt)), Attempting
        PROVE  Holds(file', Append(applied, attempt))
    <3>1. Append(applied, attempt) \in Seq(1 .. Ceiling)
      BY <1>a, <1>b, <2>4
    <3> QED BY <1>a, <2>1, <2>2, <2>4, <3>1, HoldsAppend
  <2> QED BY <2>2, <2>3, <2>4 DEF KeptInFile, Holds, OwnEdits, Places, Attempting
<1>12. CASE Die \/ Overrun
  BY <1>12 DEF Die, Overrun, Abandon, KeptInFile
<1>13. CASE UNCHANGED vars
  BY <1>13 DEF vars, call, KeptInFile, Holds, OwnEdits, Places
<1> QED BY <1>1, <1>2, <1>3, <1>4, <1>5, <1>6, <1>7, <1>8, <1>9, <1>10, <1>11, <1>12, <1>13
        DEF Next, Step, Terminated

\* What the caller is told is what the file holds: when the call returns, no edit
\* that was rejected is in the file, and unless a text was lost to a failed read
\* its edits are the repairs it kept, in their order, beside the one of somebody else.
THEOREM ReturnsWhatItKept == Spec => []ReturnedIsApplied
<1>1. Init => KeptInFile
  <2>1. Range(<<>>) = {} /\ OwnEdits(<<>>) = <<>>
    BY DEF Range, OwnEdits, Places
  <2> QED BY <2>1 DEF Init, KeptInFile, Holds, Outcomes
<1>2. TypeOK /\ Working /\ KeptInFile /\ [Next]_vars => KeptInFile'
  BY KeptInFileStep
<1>3. KeptInFile => ReturnedIsApplied
  BY DEF KeptInFile, ReturnedIsApplied, Holds
<1> QED BY <1>1, <1>2, <1>3, Typed, PTL DEF Spec
=================================================================================
