------------------------ MODULE CashFlowEffectsProofs ------------------------
(***************************************************************************)
(* The type invariant of the cash-flow workflow, the history of every      *)
(* record's versions, and the gate that holds NAV runs back while a        *)
(* confirm writes, for any records, identities, processes and bounds.      *)
(***************************************************************************)
EXTENDS CashFlowEffects, FiniteSetTheorems, SequenceTheorems, WellFoundedInduction, TLAPS

-----------------------------------------------------------------------------
(* What the operators of CashFlowVersions return, and what they do to the  *)
(* history of a record.                                                    *)
(* A history of versions is sound when only its last version may be open    *)
(* and no compensation is without its task or a task without a target.      *)
SoundAt(vs, n) ==
    /\ vs[n].state = "compensation_pending" => vs[n].task # None
    /\ vs[n].task # None => Named(vs[n].task.targets) # {}
    /\ n < Len(vs) => vs[n].state \in Settled

Sound(vs) == vs \in Seq(Versions) /\ \A n \in 1 .. Len(vs) : SoundAt(vs, n)

(* A step of a history forgets no version, reopens none and loses no task.  *)
KeptAt(vs, ws, n) ==
    /\ vs[n].state \in Settled => ws[n].state \in Settled
    /\ vs[n].task # None => ws[n].task # None

Kept(vs, ws) == Len(vs) <= Len(ws) /\ \A n \in 1 .. Len(vs) : KeptAt(vs, ws, n)

SameTargets(vs, ws) ==
    \A n \in 1 .. Len(vs) : vs[n].task # None => ws[n].task.targets = vs[n].task.targets

-----------------------------------------------------------------------------
USE NoneAssumption

LEMMA Least ==
    ASSUME NEW S \in SUBSET Nat, S # {}
    PROVE  \E x \in S : \A y \in S : x <= y
<1> DEFINE R == OpToRel(<, Nat)
<1>1. IsWellFoundedOn(R, Nat)
  BY NatLessThanWellFounded
<1>2. ASSUME NEW x \in Nat, NEW y \in Nat, <<y, x>> \notin R PROVE x <= y
  BY <1>2 DEF OpToRel
<1> HIDE DEF R
<1>3. PICK x \in S : \A y \in S : ~ (<<y, x>> \in R)
  BY <1>1, WFMin, Zenon
<1>4. ASSUME NEW y \in S PROVE x <= y
  <2>1. <<y, x>> \notin R
    BY <1>3, Zenon
  <2> QED BY <1>2, <2>1, Zenon
<1> QED BY <1>4

LEMMA MinOf ==
    ASSUME NEW S \in SUBSET Nat, S # {}
    PROVE  Min(S) \in S
BY Least DEF Min

LEMMA MaxOf ==
    ASSUME NEW n \in Nat, NEW S \in SUBSET (1 .. n), S # {}
    PROVE  Max(S) \in S
<1> DEFINE T == {n - k : k \in S}
<1>1. \A k \in S : k \in Nat /\ n - k \in Nat
  OBVIOUS
<1>2. T \in SUBSET Nat /\ T # {}
  BY <1>1
<1>3. PICK x \in T : \A y \in T : x <= y
  BY <1>2, Least
<1>4. PICK k \in S : x = n - k
  OBVIOUS
<1>5. ASSUME NEW j \in S PROVE k >= j
  <2>1. x <= n - j
    BY <1>3
  <2> QED BY <2>1, <1>1, <1>4
<1> QED BY <1>5 DEF Max

-----------------------------------------------------------------------------
(* The types of the pure operators.                                         *)
LEMMA VersionAt ==
    ASSUME NEW vs \in Seq(Versions), NEW n \in 1 .. Len(vs)
    PROVE  /\ vs[n] \in Versions
           /\ vs[n].src \in Sources
           /\ vs[n].state \in States
           /\ vs[n].mode \in {"apply", "record_only"}
           /\ vs[n].plan \in Plans \cup {None}
           /\ vs[n].task \in Tasks \cup {None}
<1>1. vs[n] \in Versions
  OBVIOUS
<1> QED BY <1>1 DEF Versions

LEMMA ReflectedType ==
    ASSUME NEW s \in Sources
    PROVE  Reflected(s) \in Amounts
BY DEF Reflected, Zero, Sources, Amounts

LEMMA PreviousSource ==
    ASSUME NEW vs \in Seq(Versions), NEW n \in 1 .. Len(vs), AppliedBefore(vs, n) # {}
    PROVE  vs[Max(AppliedBefore(vs, n))].src \in Sources
<1>1. AppliedBefore(vs, n) \in SUBSET (1 .. n - 1) /\ n - 1 \in Nat
  BY DEF AppliedBefore
<1>2. Max(AppliedBefore(vs, n)) \in 1 .. n - 1
  BY <1>1, MaxOf
<1>3. vs[Max(AppliedBefore(vs, n))] \in Versions
  BY <1>2
<1> QED BY <1>3 DEF Versions

LEMMA DeltaType ==
    ASSUME NEW vs \in Seq(Versions), NEW n \in 1 .. Len(vs)
    PROVE  Delta(vs, n) \in Amounts /\ Touched(vs, n) \subseteq Ids
<1>1. vs[n].src \in Sources
  BY VersionAt
<1>2. Previous(vs, n) \in Amounts
  BY PreviousSource, ReflectedType DEF Previous, Zero, Amounts
<1>3. Delta(vs, n) \in Amounts
  BY <1>1, <1>2, ReflectedType DEF Delta, Amounts
<1>4. Touched(vs, n) \subseteq Ids
  BY <1>1 DEF Touched, Sources
<1> QED BY <1>3, <1>4

LEMMA TargetType ==
    ASSUME NEW vs \in Seq(Versions), NEW n \in 1 .. Len(vs), NEW plan \in Plans,
           NEW i \in Named(plan.before)
    PROVE  Target(vs, n, plan, i) \in Int
<1>1. i \in Ids /\ plan.before[i] \in Int
  BY DEF Named, Plans, SomeAmounts
<1>2. Delta(vs, n)[i] \in Int
  BY <1>1, DeltaType DEF Amounts
<1> QED BY <1>1, <1>2 DEF Target

LEMMA DetectedType ==
    ASSUME NEW vs, NEW n, NEW known, NEW others, NEW held
    PROVE  Detected(vs, n, known, others, held) \in Actions \cup {None}
<1> DEFINE votes == Votes(vs, n, known, others, held)
<1>1. votes \subseteq Actions
  BY DEF Votes, Actions
<1>2. IsFiniteSet(votes)
  <2>1. IsFiniteSet({"apply_delta"}) /\ IsFiniteSet({"apply_delta"} \cup {"already_reflected"})
    BY FS_Singleton, FS_AddElement
  <2>2. Actions = {"apply_delta"} \cup {"already_reflected"}
    BY DEF Actions
  <2> QED BY <1>1, <2>1, <2>2, FS_Subset
<1>3. Cardinality(votes) = 1 => \E v \in votes : TRUE
  BY <1>2, FS_Singleton
<1> QED BY <1>1, <1>3 DEF Detected

LEMMA PlanType ==
    ASSUME NEW vs \in Seq(Versions), NEW n \in 1 .. Len(vs),
           NEW choice \in Actions \cup {"auto"}, NEW known, NEW others, NEW held \in Amounts
    PROVE  LET plan == Plan(vs, n, choice, known, others, held)
           IN  /\ plan \in Plans \cup {None}
               /\ vs[n].mode = "apply" /\ plan # None => Named(plan.before) # {}
<1> DEFINE action == IF choice = "auto" THEN Detected(vs, n, known, others, held) ELSE choice
           before == [i \in Ids |-> IF i \in Touched(vs, n) THEN held[i] ELSE None]
           plan   == [choice |-> choice, action |-> action, before |-> before]
           silent == [choice |-> choice, action |-> "record_only", before |-> [i \in Ids |-> None]]
           result == Plan(vs, n, choice, known, others, held)
<1>1. action \in Actions \cup {None}
  BY DetectedType DEF Actions
<1>2. before \in SomeAmounts /\ Named(before) = Touched(vs, n)
  BY DeltaType DEF SomeAmounts, Amounts, Named
<1>3. action # None => plan \in Plans
  BY <1>1, <1>2 DEF Plans
<1>4. silent \in Plans
  BY DEF Plans, SomeAmounts
<1>5. vs[n].mode \in {"apply", "record_only"}
  BY VersionAt
<1>6. CASE vs[n].mode = "record_only"
  BY <1>4, <1>6 DEF Plan
<1>7. CASE vs[n].mode = "apply" /\ (action = None \/ Touched(vs, n) = {})
  <2>1. result = None
    BY <1>7 DEF Plan
  <2> QED BY <2>1
<1>8. CASE vs[n].mode = "apply" /\ action # None /\ Touched(vs, n) # {}
  <2>1. result \in {None, plan}
    BY <1>8 DEF Plan
  <2>2. Named(plan.before) # {}
    BY <1>2, <1>8
  <2> QED BY <1>3, <1>8, <2>1, <2>2
<1> QED BY <1>5, <1>6, <1>7, <1>8

LEMMA LiveType ==
    ASSUME NEW f \in Flows
    PROVE  Live(f) \in Sources
<1>1. f \in [id : Ids, amt : Int \ {0}, when : {"historic", "current", "future"}]
  BY FlowsAssumption
<1> QED BY <1>1 DEF Live, Sources

LEMMA DeletionType ==
    ASSUME NEW s \in Sources
    PROVE  Deletion(s) \in Sources
BY DEF Deletion, Sources

(* What a new version of a record may be.                                   *)
Fresh(w) == w \in Versions /\ w.task = None /\ w.state \in {"pending", "scheduled"}

LEMMA VersionType ==
    ASSUME NEW src \in Sources, NEW state \in {"pending", "scheduled"},
           NEW mode \in {"apply", "record_only"}
    PROVE  Fresh(Version(src, state, mode)) /\ Version(src, state, mode).src = src
BY DEF Version, Versions, Fresh, States, Unresolved, Settled

LEMMA EnteredType ==
    ASSUME NEW f \in Flows, NEW today
    PROVE  /\ Fresh(Version(Live(f), InitialState(f, today), ModeOf(f)))
           /\ InitialState(f, today) \in {"pending", "scheduled"}
<1>1. InitialState(f, today) \in {"pending", "scheduled"} /\ ModeOf(f) \in {"apply", "record_only"}
  BY DEF InitialState, ModeOf
<1> QED BY <1>1, LiveType, VersionType

LEMMA CorrectionType ==
    ASSUME NEW vs \in Seq(Versions), NEW n \in 1 .. Len(vs), NEW seen,
           NEW f \in Flows \cup {None}, NEW today
    PROVE  Fresh(Correction(vs, n, seen, f, today))
<1> DEFINE reverses == vs[n].mode = "apply" /\ seen \in {"applying", "applied"}
           mode     == IF reverses THEN "apply" ELSE "record_only"
<1>1. vs[n].src \in Sources
  BY VersionAt
<1>2. CASE f # None
  BY <1>2, EnteredType DEF Correction
<1>3. CASE f = None
  <2>1. CurrentSource(vs, n, f) \in Sources
    BY <1>1, <1>3, DeletionType DEF CurrentSource
  <2>2. Fresh(Version(CurrentSource(vs, n, f), "pending", mode))
    BY <2>1, VersionType
  <2> QED BY <1>3, <2>2 DEF Correction
<1> QED BY <1>2, <1>3

-----------------------------------------------------------------------------
(* Steps of a history.                                                      *)
LEMMA SameKept ==
    ASSUME NEW vs
    PROVE  Kept(vs, vs) /\ SameTargets(vs, vs)
BY DEF Kept, KeptAt, SameTargets

(* A version that is replaced by one a state machine without a way back     *)
(* allows.                                                                  *)
LEMMA ReplacedVersion ==
    ASSUME NEW vs, Sound(vs), NEW n \in 1 .. Len(vs), NEW w \in Versions,
           vs[n].state \in Settled => w.state \in Settled,
           vs[n].task # None => w.task # None,
           w.state = "compensation_pending" => w.task # None,
           w.task # None => Named(w.task.targets) # {}
    PROVE  LET ws == [vs EXCEPT ![n] = w]
           IN  /\ Sound(ws)
               /\ Kept(vs, ws)
               /\ Len(ws) = Len(vs)
               /\ \A m \in 1 .. Len(vs) : ws[m] = IF m = n THEN w ELSE vs[m]
<1> DEFINE ws == [vs EXCEPT ![n] = w]
<1>1. vs \in Seq(Versions)
  BY DEF Sound
<1>2. ws \in Seq(Versions) /\ Len(ws) = Len(vs)
  BY <1>1
<1>3. \A m \in 1 .. Len(vs) : ws[m] = IF m = n THEN w ELSE vs[m]
  BY <1>1
<1> HIDE DEF ws
<1>4. ASSUME NEW m \in 1 .. Len(vs) PROVE SoundAt(ws, m) /\ KeptAt(vs, ws, m)
  <2>1. SoundAt(vs, m)
    BY DEF Sound
  <2> QED BY <1>2, <1>3, <2>1 DEF SoundAt, KeptAt
<1>5. Sound(ws) /\ Kept(vs, ws)
  BY <1>1, <1>2, <1>4 DEF Sound, Kept
<1> QED BY <1>2, <1>3, <1>5 DEF ws

LEMMA AppendedVersion ==
    ASSUME NEW vs, Sound(vs), NEW w, Fresh(w),
           vs # <<>> => Latest(vs).state \in Settled
    PROVE  Sound(Append(vs, w)) /\ Kept(vs, Append(vs, w)) /\ SameTargets(vs, Append(vs, w))
<1> DEFINE ws == Append(vs, w)
<1>1. vs \in Seq(Versions) /\ w \in Versions /\ Len(vs) \in Nat
  BY DEF Sound, Fresh
<1>2. ws \in Seq(Versions) /\ Len(ws) = Len(vs) + 1
  BY <1>1
<1>3. ws[Len(vs) + 1] = w /\ \A m \in 1 .. Len(vs) : ws[m] = vs[m]
  BY <1>1
<1> HIDE DEF ws
<1>4. ASSUME NEW m \in 1 .. Len(vs) PROVE SoundAt(ws, m) /\ KeptAt(vs, ws, m)
  <2>1. SoundAt(vs, m)
    BY DEF Sound
  <2>2. vs[m].state \in Settled
    <3>1. CASE m < Len(vs)
      BY <2>1, <3>1 DEF SoundAt
    <3>2. CASE m = Len(vs)
      BY <1>1, <3>2 DEF Latest
    <3> QED BY <1>1, <3>1, <3>2
  <2> QED BY <1>2, <1>3, <2>1, <2>2 DEF SoundAt, KeptAt
<1>5. SoundAt(ws, Len(vs) + 1)
  BY <1>1, <1>2, <1>3 DEF SoundAt, Fresh
<1>6. Sound(ws)
  <2>1. ASSUME NEW m \in 1 .. Len(ws) PROVE SoundAt(ws, m)
    BY <1>1, <1>2, <1>4, <1>5
  <2> QED BY <1>2, <2>1 DEF Sound
<1>7. Kept(vs, ws) /\ SameTargets(vs, ws)
  BY <1>1, <1>2, <1>3, <1>4 DEF Kept, SameTargets
<1> QED BY <1>6, <1>7 DEF ws

LEMMA KeptTransitive ==
    ASSUME NEW us, NEW vs, NEW ws, Sound(us), Sound(vs), Sound(ws), Kept(us, vs), Kept(vs, ws),
           SameTargets(us, vs), SameTargets(vs, ws)
    PROVE  Kept(us, ws) /\ SameTargets(us, ws)
<1>1. Len(us) \in Nat /\ Len(vs) \in Nat /\ Len(ws) \in Nat
  BY DEF Sound
<1>2. Len(us) <= Len(ws) /\ 1 .. Len(us) \subseteq 1 .. Len(vs)
  BY <1>1 DEF Kept
<1>3. ASSUME NEW n \in 1 .. Len(us)
      PROVE  KeptAt(us, ws, n) /\ (us[n].task # None => ws[n].task.targets = us[n].task.targets)
  <2>1. KeptAt(us, vs, n) /\ KeptAt(vs, ws, n)
    BY <1>2 DEF Kept
  <2> QED BY <1>2, <2>1 DEF KeptAt, SameTargets
<1> QED BY <1>2, <1>3 DEF Kept, SameTargets

LEMMA StateChanged ==
    ASSUME NEW vs, Sound(vs), NEW n \in 1 .. Len(vs), NEW state \in States,
           vs[n].state \in Settled => state \in Settled,
           state = "compensation_pending" => vs[n].task # None
    PROVE  LET ws == [vs EXCEPT ![n].state = state]
           IN  /\ Sound(ws)
               /\ Kept(vs, ws)
               /\ SameTargets(vs, ws)
               /\ Len(ws) = Len(vs)
               /\ ws[n].state = state
<1> DEFINE w  == [vs[n] EXCEPT !.state = state]
           ws == [vs EXCEPT ![n] = w]
<1>1. SoundAt(vs, n) /\ vs \in Seq(Versions)
  BY DEF Sound
<1>2. w \in Versions /\ w.state = state /\ w.task = vs[n].task
  <2>1. vs[n] \in Versions
    BY <1>1, VersionAt
  <2> QED BY <2>1, Zenon DEF Versions
<1> HIDE DEF w
<1>3. /\ Sound(ws) /\ Kept(vs, ws) /\ Len(ws) = Len(vs)
      /\ \A m \in 1 .. Len(vs) : ws[m] = IF m = n THEN w ELSE vs[m]
  BY <1>1, <1>2, ReplacedVersion DEF SoundAt
<1>4. SameTargets(vs, ws) /\ ws[n].state = state
  BY <1>2, <1>3 DEF SameTargets
<1>5. [vs EXCEPT ![n].state = state] = ws
  BY DEF w
<1> QED BY <1>3, <1>4, <1>5

LEMMA SupersededStep ==
    ASSUME NEW vs, Sound(vs)
    PROVE  LET ws == Superseded(vs)
           IN  /\ Sound(ws) /\ Kept(vs, ws) /\ SameTargets(vs, ws)
               /\ ws # <<>> => Latest(ws).state \in Settled
<1>1. vs \in Seq(Versions) /\ Len(vs) \in Nat
  BY DEF Sound
<1>2. CASE IsOpen(vs)
  <2>1. Len(vs) \in 1 .. Len(vs) /\ vs[Len(vs)].state \in Unresolved
    BY <1>1, <1>2 DEF IsOpen, Latest
  <2>2. "superseded" \in Settled /\ Settled \subseteq States /\ "superseded" # "compensation_pending"
    BY DEF Settled, States
  <2> DEFINE ws == [vs EXCEPT ![Len(vs)].state = "superseded"]
  <2>3. /\ Sound(ws) /\ Kept(vs, ws) /\ SameTargets(vs, ws)
        /\ Len(ws) = Len(vs) /\ ws[Len(vs)].state = "superseded"
    BY <2>1, <2>2, StateChanged
  <2>4. Superseded(vs) = ws
    BY <1>2 DEF Superseded
  <2> HIDE DEF ws
  <2>5. Latest(ws).state \in Settled
    BY <2>2, <2>3 DEF Latest
  <2> QED BY <2>3, <2>4, <2>5
<1>3. CASE ~ IsOpen(vs)
  <2>1. Superseded(vs) = vs
    BY <1>3 DEF Superseded
  <2>2. ASSUME vs # <<>> PROVE Latest(vs).state \in Settled
    <3>1. Len(vs) \in 1 .. Len(vs)
      BY <1>1, <2>2
    <3>2. vs[Len(vs)].state \in States
      BY <1>1, <3>1, VersionAt
    <3> QED BY <1>3, <2>2, <3>2 DEF IsOpen, Latest, States
  <2> QED BY <2>1, <2>2, SameKept
<1> QED BY <1>2, <1>3

LEMMA CreatedVersion ==
    ASSUME NEW vs, Sound(vs), NEW new, Fresh(new)
    PROVE  LET ws == CreateVersion(vs, new)
           IN  Sound(ws) /\ Kept(vs, ws) /\ SameTargets(vs, ws)
<1> DEFINE us == Superseded(vs)
<1>1. /\ Sound(us) /\ Kept(vs, us) /\ SameTargets(vs, us)
      /\ us # <<>> => Latest(us).state \in Settled
  BY SupersededStep
<1> HIDE DEF us
<1>2. Sound(Append(us, new)) /\ Kept(us, Append(us, new)) /\ SameTargets(us, Append(us, new))
  BY <1>1, AppendedVersion
<1>3. Kept(vs, Append(us, new)) /\ SameTargets(vs, Append(us, new))
  BY <1>1, <1>2, KeptTransitive
<1>4. CreateVersion(vs, new) \in {vs, Append(us, new)}
  BY DEF CreateVersion, us
<1> QED BY <1>2, <1>3, <1>4, SameKept

LEMMA ScannedRowStep ==
    ASSUME NEW vs, Sound(vs), NEW f \in Flows, NEW today
    PROVE  LET ws == ScannedRow(vs, f, today)
           IN  Sound(ws) /\ Kept(vs, ws) /\ SameTargets(vs, ws)
<1> DEFINE new   == Version(Live(f), InitialState(f, today), ModeOf(f))
           begun == [vs EXCEPT ![Len(vs)].state = "pending"]
           ws    == ScannedRow(vs, f, today)
<1>1. Fresh(new)
  BY EnteredType
<1>2. Sound(CreateVersion(vs, new)) /\ Kept(vs, CreateVersion(vs, new))
      /\ SameTargets(vs, CreateVersion(vs, new))
  BY <1>1, CreatedVersion
<1>3. vs = <<>> => CreateVersion(vs, new) = <<new>>
  BY DEF CreateVersion, Superseded, IsOpen
<1>4. ASSUME vs # <<>>, Latest(vs).state = "scheduled"
      PROVE  Sound(begun) /\ Kept(vs, begun) /\ SameTargets(vs, begun)
  <2>1. Len(vs) \in 1 .. Len(vs)
    BY <1>4 DEF Sound
  <2>2. vs[Len(vs)].state \notin Settled
    BY <1>4 DEF Latest, Settled, Terminal
  <2>3. "pending" \in States
    BY DEF States, Unresolved
  <2> QED BY <2>1, <2>2, <2>3, StateChanged
<1> HIDE DEF new, begun
<1>5. \/ ws = vs
      \/ ws = CreateVersion(vs, new)
      \/ ws = <<new>> /\ vs = <<>>
      \/ ws = begun /\ vs # <<>> /\ Latest(vs).state = "scheduled"
  BY DEF ScannedRow, new, begun
<1> QED BY <1>2, <1>3, <1>4, <1>5, SameKept

LEMMA ScannedMissingStep ==
    ASSUME NEW vs, Sound(vs)
    PROVE  LET ws == ScannedMissing(vs)
           IN  Sound(ws) /\ Kept(vs, ws) /\ SameTargets(vs, ws)
<1> DEFINE mode == IF Latest(vs).state = "applied" /\ Latest(vs).mode = "apply"
                   THEN "apply" ELSE "record_only"
           new  == Version(Deletion(Latest(vs).src), "pending", mode)
<1>1. CASE vs = <<>>
  BY <1>1, SameKept DEF ScannedMissing
<1>2. CASE vs # <<>>
  <2>1. Len(vs) \in 1 .. Len(vs) /\ vs \in Seq(Versions)
    BY <1>2 DEF Sound
  <2>2. Latest(vs).src \in Sources
    BY <2>1, VersionAt DEF Latest
  <2>3. Fresh(new)
    BY <2>2, DeletionType, VersionType
  <2>4. ScannedMissing(vs) \in {vs, CreateVersion(vs, new)}
    BY DEF ScannedMissing
  <2> HIDE DEF new
  <2> QED BY <2>3, <2>4, CreatedVersion, SameKept
<1> QED BY <1>1, <1>2

(* One scan of all the records.                                             *)
LEMMA ScannedStep ==
    ASSUME NEW hist, NEW rows \in [Records -> Flows \cup {None}], NEW today,
           \A r \in Records : Sound(hist[r])
    PROVE  /\ Scanned(hist, rows, today) \in [Records -> Seq(Versions)]
           /\ \A r \in Records : /\ Sound(Scanned(hist, rows, today)[r])
                                 /\ Kept(hist[r], Scanned(hist, rows, today)[r])
                                 /\ SameTargets(hist[r], Scanned(hist, rows, today)[r])
<1>1. ASSUME NEW r \in Records
      PROVE  LET ws == Scanned(hist, rows, today)[r]
             IN  Sound(ws) /\ Kept(hist[r], ws) /\ SameTargets(hist[r], ws)
  <2>1. CASE rows[r] = None
    BY <2>1, ScannedMissingStep DEF Scanned
  <2>2. CASE rows[r] # None
    BY <2>2, ScannedRowStep DEF Scanned
  <2> QED BY <2>1, <2>2
<1>2. Scanned(hist, rows, today) = [r \in Records |-> Scanned(hist, rows, today)[r]]
  BY DEF Scanned
<1>3. \A r \in Records : Scanned(hist, rows, today)[r] \in Seq(Versions)
  BY <1>1 DEF Sound
<1> QED BY <1>1, <1>2, <1>3

-----------------------------------------------------------------------------
(* The workflow.                                                           *)

Planning == {"cf_apply", "cf_task"} \cup Writes

(* What a process relies on while others move.                              *)
Hand(p) ==
    /\ InHand(proc[p])
    /\ proc[p].at \in Confirms \cup Rewrites => lock.account = p
    /\ proc[p].at \in Planning => Named(proc[p].plan.before) # {}
    /\ proc[p].at = "insert" /\ proc[p].seen \in Settled
         => eff[proc[p].r][proc[p].n].state \in Settled
    /\ proc[p].at = "insert" => Fresh(proc[p].new)

SheetsOK ==
    /\ flow \in Rows
    /\ holding \in Amounts
    /\ prints \in Amounts
    /\ ext \in [Ids -> Int \cup {None}]
    /\ day \in Days
    /\ contrib \in [Records -> Amounts]
    /\ raced \in SUBSET (Records \X Ids)
    /\ used \in [{"edits", "hands", "faults", "navs"} -> Nat]

StoreOK ==
    /\ eff \in [Records -> Seq(Versions)]
    /\ \A r \in Records : Sound(eff[r])

LocksOK == lock \in [{"scanner", "account"} -> Procs \cup {None}]

ProcsOK ==
    /\ proc \in [Procs -> Process]
    /\ \A p \in Procs : Hand(p)

IInv == SheetsOK /\ StoreOK /\ LocksOK /\ ProcsOK

-----------------------------------------------------------------------------
USE ProcsAssumption

LEMMA IdleType == Idle \in Process /\ Idle.at = "idle"
BY DEF Idle, Process, Stages

(* The move from stage to stage that most steps make.                       *)
LEMMA StageMoved ==
    ASSUME NEW x \in Process, NEW stage \in Stages
    PROVE  LET y == [x EXCEPT !.at = stage]
           IN  /\ y \in Process /\ y.at = stage
               /\ y.r = x.r /\ y.n = x.n /\ y.rows = x.rows /\ y.plan = x.plan
               /\ y.todo = x.todo
BY Zenon DEF Process

LEMMA InitOK == Init => IInv
<1> SUFFICES ASSUME Init PROVE IInv
  OBVIOUS
<1>1. SheetsOK
  BY OpeningAssumption, FirstDayAssumption
  DEF Init, SheetsOK, Amounts, Zero, Days, Rows
<1>2. StoreOK
  BY DEF Init, StoreOK, Sound
<1>3. LocksOK
  BY DEF Init, LocksOK
<1>4. ProcsOK
  BY IdleType
     DEF Init, ProcsOK, Hand, InHand, Scanning, OnVersion, Confirms, Writes, Retries, Rewrites, Planning
<1> QED BY <1>1, <1>2, <1>3, <1>4 DEF IInv

LEMMA IInvOK == IInv => TypeOK /\ OneOpenVersion
<1> SUFFICES ASSUME IInv PROVE TypeOK /\ OneOpenVersion
  OBVIOUS
<1>1. \A r \in Records : \A n \in 1 .. Len(eff[r]) : SoundAt(eff[r], n)
  BY DEF IInv, StoreOK, Sound
<1>2. TypeOK
  BY <1>1 DEF IInv, SheetsOK, StoreOK, LocksOK, ProcsOK, Hand, TypeOK, SoundAt
<1>3. OneOpenVersion
  <2>1. ASSUME NEW r \in Records, NEW n \in 1 .. Len(eff[r]) - 1
        PROVE  eff[r][n].state \in Settled
    <3>1. Len(eff[r]) \in Nat
      BY DEF IInv, StoreOK, Sound
    <3>2. n \in 1 .. Len(eff[r]) /\ n < Len(eff[r])
      BY <3>1
    <3> QED BY <1>1, <3>2 DEF SoundAt
  <2> QED BY <2>1 DEF OneOpenVersion
<1> QED BY <1>2, <1>3

LEMMA InProcess ==
    ASSUME IInv, NEW p \in Procs
    PROVE  /\ proc[p] \in Process /\ Hand(p)
           /\ flow \in Rows /\ holding \in Amounts
           /\ flow # None /\ holding # None
BY DEF IInv, ProcsOK, SheetsOK

(* A process that does not move keeps what it relies on.                    *)
LEMMA OthersKeep ==
    ASSUME IInv, NEW q \in Procs, proc'[q] = proc[q], StoreOK',
           \A r \in Records : Kept(eff[r], eff'[r]),
           proc[q].at \in Rewrites => SameTargets(eff[proc[q].r], eff'[proc[q].r]),
           lock.account = q => lock'.account = q
    PROVE  Hand(q)'
<1> DEFINE x  == proc[q]
           vs == eff[x.r]
           ws == eff'[x.r]
<1>1. Hand(q) /\ x \in Process
  BY DEF IInv, ProcsOK
<1>2. CASE x.at \in OnVersion
  <2>1. x.r \in Records /\ x.n \in 1 .. Len(vs)
    BY <1>1, <1>2 DEF Hand, InHand
  <2>2. Len(vs) \in Nat /\ Len(ws) \in Nat
    BY <2>1 DEF IInv, StoreOK, Sound
  <2>3. x.n \in 1 .. Len(ws) /\ KeptAt(vs, ws, x.n)
    BY <2>1, <2>2 DEF Kept
  <2>4. x.at \in Rewrites => Named(ws[x.n].task.targets) = Named(vs[x.n].task.targets)
    BY <1>1, <2>1 DEF SameTargets, Hand, InHand, Retries, Rewrites
  <2> QED BY <1>1, <1>2, <2>1, <2>3, <2>4 DEF Hand, InHand, KeptAt
<1>3. CASE x.at \notin OnVersion
  BY <1>1, <1>3 DEF Hand, InHand, OnVersion, Confirms, Writes, Retries, Rewrites, Planning
<1> QED BY <1>2, <1>3

(* A step of one process.                                                   *)
LEMMA OneMoves ==
    ASSUME IInv, NEW p \in Procs,
           proc' = [proc EXCEPT ![p] = proc'[p]], proc'[p] \in Process, Hand(p)',
           StoreOK', \A r \in Records : Kept(eff[r], eff'[r]),
           \A q \in Procs \ {p} : proc[q].at \in Rewrites
                                    => SameTargets(eff[proc[q].r], eff'[proc[q].r]),
           \A q \in Procs \ {p} : lock.account = q => lock'.account = q
    PROVE  ProcsOK'
<1>1. proc' \in [Procs -> Process] /\ \A q \in Procs \ {p} : proc'[q] = proc[q]
  BY DEF IInv, ProcsOK
<1>2. \A q \in Procs : Hand(q)'
  BY <1>1, OthersKeep
<1> QED BY <1>1, <1>2 DEF ProcsOK

LEMMA Moved ==
    ASSUME IInv, NEW p \in Procs, NEW y \in Process, proc' = [proc EXCEPT ![p] = y]
    PROVE  proc' = [proc EXCEPT ![p] = proc'[p]] /\ proc'[p] = y /\ proc'[p] \in Process
BY DEF IInv, ProcsOK

(* The same when the store stays as it is.                                  *)
LEMMA OneMovesAlone ==
    ASSUME IInv, NEW p \in Procs, eff' = eff,
           proc' = [proc EXCEPT ![p] = proc'[p]], proc'[p] \in Process, Hand(p)',
           \A q \in Procs \ {p} : lock.account = q => lock'.account = q
    PROVE  StoreOK' /\ ProcsOK'
<1>1. StoreOK'
  BY DEF IInv, StoreOK
<1>2. \A r \in Records : Kept(eff[r], eff'[r]) /\ SameTargets(eff[r], eff'[r])
  BY SameKept
<1>3. \A q \in Procs : proc[q].at \in Rewrites => SameTargets(eff[proc[q].r], eff'[proc[q].r])
  BY SameKept
<1> QED BY <1>1, <1>2, <1>3, OneMoves

(* A command ends.                                                          *)
LEMMA Leaves ==
    ASSUME IInv, NEW p \in Procs, Leave(p), StoreOK',
           \A r \in Records : Kept(eff[r], eff'[r]) /\ SameTargets(eff[r], eff'[r])
    PROVE  ProcsOK' /\ LocksOK'
<1>1. lock' \in [{"scanner", "account"} -> Procs \cup {None}]
  BY DEF IInv, LocksOK, Leave, Released
<1>2. \A q \in Procs \ {p} : lock.account = q => lock'.account = q
  BY DEF IInv, LocksOK, Leave, Released
<1>3. proc' = [proc EXCEPT ![p] = proc'[p]] /\ proc'[p] = Idle
  BY DEF IInv, ProcsOK, Leave
<1>4. Hand(p)'
  BY <1>3, IdleType DEF Hand, InHand, Scanning, OnVersion, Confirms, Writes, Retries, Rewrites, Planning
<1>5. \A q \in Procs : proc[q].at \in Rewrites => SameTargets(eff[proc[q].r], eff'[proc[q].r])
  BY DEF IInv, ProcsOK, Hand, InHand, OnVersion, Retries, Rewrites
<1> QED BY <1>1, <1>2, <1>3, <1>4, <1>5, IdleType, OneMoves DEF LocksOK

LEMMA LeavesAlone ==
    ASSUME IInv, NEW p \in Procs, Leave(p), eff' = eff
    PROVE  StoreOK' /\ ProcsOK' /\ LocksOK'
<1>1. StoreOK'
  BY DEF IInv, StoreOK
<1> QED BY <1>1, SameKept, Leaves

LEMMA NobodyMoves ==
    ASSUME IInv, UNCHANGED <<eff, lock, proc>>
    PROVE  StoreOK' /\ LocksOK' /\ ProcsOK'
<1>1. ASSUME NEW q \in Procs PROVE Hand(q)'
  BY DEF IInv, ProcsOK, Hand, InHand
<1> QED BY <1>1 DEF IInv, StoreOK, LocksOK, ProcsOK

-----------------------------------------------------------------------------
(* The sheets and the calendar.                                             *)
LEMMA EditFlowOK ==
    ASSUME IInv, NEW r \in Records, NEW f \in Flows \cup {None}, EditFlow(r, f)
    PROVE  IInv'
<1>1. SheetsOK'
  BY DEF EditFlow, IInv, SheetsOK, store, Rows
<1> QED BY <1>1, NobodyMoves DEF EditFlow, IInv, store

LEMMA OwedType == ASSUME SheetsOK, NEW r \in Records PROVE Owed(r) \in Amounts
<1>1. flow[r] \in Flows \cup {None}
  BY DEF SheetsOK, Rows
<1> QED BY <1>1, LiveType, ReflectedType DEF Owed, Zero, Amounts

LEMMA TypeInOK ==
    ASSUME IInv, NEW r \in Records, TypeIn(r)
    PROVE  IInv'
<1>1. Owed(r) \in Amounts /\ contrib[r] \in Amounts /\ holding \in Amounts
  BY OwedType DEF IInv, SheetsOK
<1>2. \A i \in Ids : holding[i] - contrib[r][i] + Owed(r)[i] \in Int
  BY <1>1 DEF Amounts
<1>3. holding' \in Amounts
  BY <1>2 DEF TypeIn, Amounts
<1>4. contrib' \in [Records -> Amounts]
  BY <1>1 DEF TypeIn, IInv, SheetsOK
<1>5. SheetsOK'
  BY <1>3, <1>4 DEF TypeIn, IInv, SheetsOK, store
<1> QED BY <1>5, NobodyMoves DEF TypeIn, IInv, store

LEMMA TradeOK ==
    ASSUME IInv, NEW i \in Ids, NEW amount \in Trades, Trade(i, amount)
    PROVE  IInv'
<1>1. holding \in Amounts /\ amount \in Int
  BY OpeningAssumption DEF IInv, SheetsOK
<1>2. holding' \in Amounts
  BY <1>1 DEF Trade, Amounts
<1>3. \A p \in About(i) : proc[p].r \in Records
  BY DEF About, IInv, ProcsOK, Hand, InHand, OnVersion, Confirms, Writes, Retries, Rewrites
<1>4. raced' \in SUBSET (Records \X Ids)
  BY <1>3 DEF Trade, IInv, SheetsOK
<1>5. SheetsOK'
  BY <1>2, <1>4 DEF Trade, IInv, SheetsOK, store
<1> QED BY <1>5, NobodyMoves DEF Trade, IInv, store

LEMMA DayPassesOK == ASSUME IInv, DayPasses PROVE IInv'
<1>1. SheetsOK'
  BY DEF DayPasses, IInv, SheetsOK, sheets, store, Days
<1> QED BY <1>1, NobodyMoves DEF DayPasses, IInv, sheets, store

-----------------------------------------------------------------------------
(* Scans and NAV runs.                                                      *)
LEMMA ScanStartOK ==
    ASSUME IInv, NEW p \in Procs, ScanStart(p)
    PROVE  IInv'
<1> DEFINE y == [proc[p] EXCEPT !.at = "scan_hold", !.job = "scan", !.rows = flow]
<1>1. SheetsOK' /\ eff' = eff
  BY DEF ScanStart, IInv, SheetsOK, sheets, store
<1>2. LocksOK' /\ lock'.account = lock.account
  BY DEF ScanStart, IInv, LocksOK
<1>3. y \in Process /\ y.at = "scan_hold" /\ y.rows = flow
  <2>1. proc[p] \in Process /\ flow \in Rows
    BY InProcess
  <2>2. "scan_hold" \in Stages /\ "scan" \in Works
    BY DEF Stages, Works
  <2> QED BY <2>1, <2>2, Zenon DEF Process
<1>4. proc' = [proc EXCEPT ![p] = y]
  BY DEF ScanStart
<1> HIDE DEF y
<1>5. Hand(p)'
  BY <1>3, <1>4, Moved, InProcess
  DEF Hand, InHand, Scanning, OnVersion, Confirms, Writes, Retries, Rewrites, Planning
<1> QED BY <1>1, <1>2, <1>3, <1>4, <1>5, Moved, OneMovesAlone DEF IInv

LEMMA NavStartOK ==
    ASSUME IInv, NEW p \in Procs, NavStart(p)
    PROVE  IInv'
<1> DEFINE y == [proc[p] EXCEPT !.at = "nav_scan", !.job = "nav", !.rows = flow]
<1>1. SheetsOK' /\ eff' = eff /\ LocksOK' /\ lock' = lock
  BY DEF NavStart, IInv, SheetsOK, LocksOK, sheets, store
<1>2. y \in Process /\ y.at = "nav_scan" /\ y.rows = flow
  <2>1. proc[p] \in Process /\ flow \in Rows
    BY InProcess
  <2>2. "nav_scan" \in Stages /\ "nav" \in Works
    BY DEF Stages, Works
  <2> QED BY <2>1, <2>2, Zenon DEF Process
<1>3. proc' = [proc EXCEPT ![p] = y]
  BY DEF NavStart
<1> HIDE DEF y
<1>4. Hand(p)'
  BY <1>2, <1>3, Moved, InProcess
  DEF Hand, InHand, Scanning, OnVersion, Confirms, Writes, Retries, Rewrites, Planning
<1> QED BY <1>1, <1>2, <1>3, <1>4, Moved, OneMovesAlone DEF IInv

LEMMA NavScanOK ==
    ASSUME IInv, NEW p \in Procs, NavScan(p)
    PROVE  IInv'
<1> DEFINE y == [proc[p] EXCEPT !.at = "scan_hold"]
<1>1. SheetsOK' /\ eff' = eff
  BY DEF NavScan, IInv, SheetsOK, sheets, store
<1>2. LocksOK' /\ lock'.account = lock.account
  BY DEF NavScan, IInv, LocksOK
<1>3. y \in Process /\ y.at = "scan_hold" /\ y.rows # None
  <2>1. proc[p] \in Process
    BY InProcess
  <2>2. proc[p].rows # None
    BY InProcess DEF NavScan, Hand, InHand, Scanning
  <2>3. "scan_hold" \in Stages
    BY DEF Stages
  <2> QED BY <2>1, <2>2, <2>3, StageMoved
<1>4. proc' = [proc EXCEPT ![p] = y]
  BY DEF NavScan, Goto
<1> HIDE DEF y
<1>5. Hand(p)'
  BY <1>3, <1>4, Moved
     DEF Hand, InHand, Scanning, OnVersion, Confirms, Writes, Retries, Rewrites, Planning
<1> QED BY <1>1, <1>2, <1>3, <1>4, <1>5, Moved, OneMovesAlone DEF IInv

LEMMA ScanHoldingsOK ==
    ASSUME IInv, NEW p \in Procs, ScanHoldings(p)
    PROVE  IInv'
<1> DEFINE y == [proc[p] EXCEPT !.at = "scan_commit", !.held = holding]
<1>1. SheetsOK' /\ eff' = eff /\ LocksOK' /\ lock' = lock
  BY DEF ScanHoldings, IInv, SheetsOK, LocksOK, sheets, store
<1>2. y \in Process /\ y.at = "scan_commit" /\ y.rows # None /\ y.held # None
  <2>1. proc[p] \in Process /\ holding \in Amounts /\ holding # None
    BY InProcess
  <2>2. proc[p].rows # None
    BY InProcess DEF ScanHoldings, Hand, InHand, Scanning
  <2>3. "scan_commit" \in Stages
    BY DEF Stages
  <2> QED BY <2>1, <2>2, <2>3, Zenon DEF Process
<1>3. proc' = [proc EXCEPT ![p] = y]
  BY DEF ScanHoldings
<1> HIDE DEF y
<1>4. Hand(p)'
  BY <1>2, <1>3, Moved
     DEF Hand, InHand, Scanning, OnVersion, Confirms, Writes, Retries, Rewrites, Planning
<1> QED BY <1>1, <1>2, <1>3, <1>4, Moved, OneMovesAlone DEF IInv

LEMMA CommitScanOK ==
    ASSUME IInv, NEW p \in Procs, CommitScan(p)
    PROVE  IInv'
<1> DEFINE x   == proc[p]
           gate == [Idle EXCEPT !.at = "nav_gate", !.job = "nav"]
<1>1. x.rows \in Rows /\ x.held \in Amounts
  BY DEF CommitScan, IInv, ProcsOK, Hand, InHand, Scanning, Process
<1>2. eff' = Scanned(eff, x.rows, day)
  BY DEF CommitScan
<1>3. /\ StoreOK'
      /\ \A r \in Records : Kept(eff[r], eff'[r]) /\ SameTargets(eff[r], eff'[r])
  BY <1>1, <1>2, ScannedStep DEF IInv, StoreOK, Rows
<1>4. SheetsOK'
  <2>1. prints' \in Amounts
    BY <1>1 DEF CommitScan, IInv, SheetsOK, Amounts
  <2>2. ext' \in [Ids -> Int \cup {None}]
    BY DEF CommitScan, IInv, SheetsOK, Amounts
  <2> QED BY <2>1, <2>2 DEF CommitScan, IInv, SheetsOK, sheets
<1>5. CASE x.job # "nav"
  <2>1. Leave(p)
    BY <1>5 DEF CommitScan, Leave
  <2> QED BY <1>3, <1>4, <2>1, Leaves DEF IInv
<1>6. CASE x.job = "nav"
  <2>1. proc' = [proc EXCEPT ![p] = gate]
    BY <1>6 DEF CommitScan
  <2>2. gate \in Process /\ gate.at = "nav_gate"
    <3>1. "nav_gate" \in Stages /\ "nav" \in Works
      BY DEF Stages, Works
    <3> QED BY <3>1, IdleType, Zenon DEF Process
  <2> HIDE DEF gate
  <2>3. Hand(p)'
    BY <2>1, <2>2, Moved
       DEF Hand, InHand, Scanning, OnVersion, Confirms, Writes, Retries, Rewrites, Planning
  <2>4. LocksOK' /\ \A q \in Procs \ {p} : lock.account = q => lock'.account = q
    BY DEF CommitScan, IInv, LocksOK, Released
  <2>5. \A q \in Procs : proc[q].at \in Rewrites => SameTargets(eff[proc[q].r], eff'[proc[q].r])
    BY <1>3 DEF IInv, ProcsOK, Hand, InHand, OnVersion, Retries, Rewrites
  <2> QED BY <1>3, <1>4, <2>1, <2>2, <2>3, <2>4, <2>5, Moved, OneMoves DEF IInv
<1> QED BY <1>5, <1>6

LEMMA NavGateOK ==
    ASSUME IInv, NEW p \in Procs, NavGate(p)
    PROVE  IInv'
<1> DEFINE record == [proc[p] EXCEPT !.at = "nav_record"]
           y      == IF Blockers = {} THEN record ELSE Idle
<1>1. SheetsOK' /\ eff' = eff /\ LocksOK' /\ lock' = lock
  BY DEF NavGate, IInv, SheetsOK, LocksOK, sheets, store
<1>2. record \in Process /\ record.at = "nav_record"
  <2>1. "nav_record" \in Stages
    BY DEF Stages
  <2> QED BY <2>1, InProcess, StageMoved
<1>3. proc' = [proc EXCEPT ![p] = y]
  BY DEF NavGate, Goto
<1>4. y \in Process /\ y.at \in {"nav_record", "idle"}
  BY <1>2, IdleType
<1> HIDE DEF y
<1>5. Hand(p)'
  BY <1>3, <1>4, Moved
     DEF Hand, InHand, Scanning, OnVersion, Confirms, Writes, Retries, Rewrites, Planning
<1> QED BY <1>1, <1>3, <1>4, <1>5, Moved, OneMovesAlone DEF IInv

LEMMA RecordNavOK ==
    ASSUME IInv, NEW p \in Procs, RecordNav(p)
    PROVE  IInv'
<1>1. SheetsOK' /\ eff' = eff /\ LocksOK' /\ lock' = lock
  BY DEF RecordNav, IInv, SheetsOK, LocksOK, sheets, store
<1>2. proc' = [proc EXCEPT ![p] = Idle]
  BY DEF RecordNav
<1>3. Hand(p)'
  BY <1>2, IdleType, Moved
     DEF Hand, InHand, Scanning, OnVersion, Confirms, Writes, Retries, Rewrites, Planning
<1> QED BY <1>1, <1>2, <1>3, IdleType, Moved, OneMovesAlone DEF IInv

-----------------------------------------------------------------------------
(* Commands on one version.                                                 *)
LEMMA InVersion ==
    ASSUME IInv, NEW p \in Procs, proc[p].at \in OnVersion
    PROVE  LET x == proc[p]
           IN  /\ x.r \in Records /\ x.n \in 1 .. Len(eff[x.r])
               /\ Sound(eff[x.r]) /\ eff[x.r] \in Seq(Versions)
               /\ eff[x.r][x.n] \in Versions
               /\ eff[x.r][x.n].state \in States
<1>1. proc[p].r \in Records /\ proc[p].n \in 1 .. Len(eff[proc[p].r])
  BY DEF IInv, ProcsOK, Hand, InHand
<1>2. Sound(eff[proc[p].r]) /\ eff[proc[p].r] \in Seq(Versions)
  BY <1>1 DEF IInv, StoreOK
<1> QED BY <1>1, <1>2, VersionAt

LEMMA LatestAt ==
    ASSUME IInv, NEW r \in Records, eff[r] # <<>>
    PROVE  /\ Len(eff[r]) \in 1 .. Len(eff[r]) /\ Len(eff[r]) \in Nat
           /\ Latest(eff[r]) = eff[r][Len(eff[r])]
           /\ Latest(eff[r]) \in Versions
           /\ Latest(eff[r]).state \in States /\ Latest(eff[r]).state # None
           /\ Latest(eff[r]).plan \in Plans \cup {None}
<1>1. eff[r] \in Seq(Versions)
  BY DEF IInv, StoreOK
<1>2. Len(eff[r]) \in 1 .. Len(eff[r]) /\ Len(eff[r]) \in Nat
  BY <1>1
<1>3. /\ eff[r][Len(eff[r])] \in Versions
      /\ eff[r][Len(eff[r])].state \in States
      /\ eff[r][Len(eff[r])].plan \in Plans \cup {None}
  BY <1>1, <1>2, VersionAt
<1>4. None \notin States
  BY NoneAssumption
<1> QED BY <1>2, <1>3, <1>4 DEF Latest

(* One record's history takes a step.                                       *)
LEMMA StoreStep ==
    ASSUME IInv, NEW r \in Records, NEW ws, eff' = [eff EXCEPT ![r] = ws],
           Sound(ws), Kept(eff[r], ws)
    PROVE  /\ StoreOK'
           /\ \A s \in Records : Kept(eff[s], eff'[s])
           /\ eff'[r] = ws
           /\ SameTargets(eff[r], ws) => \A s \in Records : SameTargets(eff[s], eff'[s])
<1>1. /\ eff \in [Records -> Seq(Versions)] /\ ws \in Seq(Versions)
      /\ \A s \in Records : Sound(eff[s])
  BY DEF IInv, StoreOK, Sound
<1>2. eff' \in [Records -> Seq(Versions)] /\ eff'[r] = ws
      /\ \A s \in Records \ {r} : eff'[s] = eff[s]
  BY <1>1
<1> QED BY <1>1, <1>2, SameKept DEF StoreOK

LEMMA StoreStateChanged ==
    ASSUME IInv, NEW r \in Records, NEW n \in 1 .. Len(eff[r]), NEW state \in States,
           eff[r][n].state \in Settled => state \in Settled,
           state = "compensation_pending" => eff[r][n].task # None,
           eff' = [eff EXCEPT ![r][n].state = state]
    PROVE  /\ StoreOK'
           /\ \A s \in Records : Kept(eff[s], eff'[s]) /\ SameTargets(eff[s], eff'[s])
           /\ Len(eff'[r]) = Len(eff[r])
           /\ eff'[r][n].state = state
<1> DEFINE ws == [eff[r] EXCEPT ![n].state = state]
<1>1. Sound(eff[r])
  BY DEF IInv, StoreOK
<1>2. /\ Sound(ws) /\ Kept(eff[r], ws) /\ SameTargets(eff[r], ws)
      /\ Len(ws) = Len(eff[r]) /\ ws[n].state = state
  BY <1>1, StateChanged
<1>3. eff' = [eff EXCEPT ![r] = ws]
  OBVIOUS
<1> HIDE DEF ws
<1> QED BY <1>2, <1>3, StoreStep

LEMMA PreviewStartOK ==
    ASSUME IInv, NEW p \in Procs, NEW r \in Records, PreviewStart(p, r)
    PROVE  IInv'
<1> DEFINE y == [proc[p] EXCEPT !.at = "pv_source", !.job = "preview", !.r = r,
                                !.n = Len(eff[r]), !.seen = Latest(eff[r]).state]
<1>1. SheetsOK' /\ eff' = eff /\ LocksOK' /\ lock' = lock
  BY DEF PreviewStart, IInv, SheetsOK, LocksOK, sheets, store
<1>2. /\ y \in Process /\ y.at = "pv_source" /\ y.r = r /\ y.n = Len(eff[r])
      /\ y.seen = Latest(eff[r]).state
  <2>1. proc[p] \in Process
    BY InProcess
  <2>2. Len(eff[r]) \in Nat /\ Latest(eff[r]).state \in States
    BY LatestAt DEF PreviewStart
  <2>3. "pv_source" \in Stages /\ "preview" \in Works
    BY DEF Stages, Works
  <2> QED BY <2>1, <2>2, <2>3, Zenon DEF Process
<1>3. proc' = [proc EXCEPT ![p] = y]
  BY DEF PreviewStart
<1>4. Len(eff[r]) \in 1 .. Len(eff[r]) /\ Latest(eff[r]).state # None
  BY LatestAt DEF PreviewStart
<1> HIDE DEF y
<1>5. Hand(p)'
  BY <1>1, <1>2, <1>3, <1>4, Moved
  DEF Hand, InHand, Scanning, OnVersion, Confirms, Writes, Retries, Rewrites, Planning
<1> QED BY <1>1, <1>2, <1>3, <1>5, Moved, OneMovesAlone DEF IInv

LEMMA ReadSourceOK ==
    ASSUME IInv, NEW p \in Procs, ReadSource(p)
    PROVE  IInv'
<1> DEFINE x     == proc[p]
           fix   == [x EXCEPT !.at = "correct", !.row = flow[x.r]]
           build == [x EXCEPT !.at = IF x.at = "pv_source" THEN "pv_build" ELSE "cf_build"]
<1>1. SheetsOK' /\ eff' = eff
  BY DEF ReadSource, IInv, SheetsOK, sheets, store
<1>2. x \in Process /\ Hand(p) /\ x.at \in {"pv_source", "cf_source", "recheck"}
  BY InProcess DEF ReadSource
<1>3. x.r \in Records /\ x.n \in 1 .. Len(eff[x.r]) /\ x.seen # None
  BY <1>2 DEF Hand, InHand, OnVersion, Confirms
<1>4. CASE proc' = [proc EXCEPT ![p] = fix] /\ lock' = lock
  <2>1. flow[x.r] \in Flows \cup {None}
    BY <1>3, InProcess DEF Rows
  <2>2. fix \in Process /\ fix.at = "correct" /\ fix.r = x.r /\ fix.n = x.n /\ fix.seen = x.seen
    <3> DEFINE row == flow[x.r]
    <3>1. "correct" \in Stages /\ x \in Process /\ row \in Flows \cup {None}
      BY <1>2, <2>1 DEF Stages
    <3>2. fix = [x EXCEPT !.at = "correct", !.row = row]
      OBVIOUS
    <3> HIDE DEF row, x, fix
    <3> QED BY <3>1, <3>2, ZenonT(30) DEF Process
  <2> HIDE DEF fix
  <2>3. Hand(p)'
    BY <1>1, <1>3, <1>4, <2>2, Moved
    DEF Hand, InHand, Scanning, OnVersion, Confirms, Writes, Retries, Rewrites, Planning
  <2> QED BY <1>1, <1>4, <2>2, <2>3, Moved, OneMovesAlone DEF IInv, LocksOK
<1>5. CASE proc' = [proc EXCEPT ![p] = build] /\ lock' = lock /\ x.at # "recheck"
  <2>1. build \in Process /\ build.r = x.r /\ build.n = x.n /\ build.plan = x.plan
        /\ build.at = IF x.at = "pv_source" THEN "pv_build" ELSE "cf_build"
    <3> DEFINE stage == IF x.at = "pv_source" THEN "pv_build" ELSE "cf_build"
    <3>1. stage \in Stages /\ x \in Process
      BY <1>2 DEF Stages
    <3>2. build = [x EXCEPT !.at = stage]
      OBVIOUS
    <3> HIDE DEF stage, x, build
    <3>3. /\ build \in Process /\ build.r = x.r /\ build.n = x.n /\ build.plan = x.plan
          /\ build.at = stage
      BY <3>1, <3>2, StageMoved
    <3> QED BY <3>3 DEF stage
  <2>2. x.at = "cf_source" => lock.account = p /\ x.plan # None
    BY <1>2 DEF Hand, InHand, Confirms
  <2> HIDE DEF build
  <2>3. Hand(p)'
    <3>1. proc'[p] = build
      BY <1>5, <2>1, Moved
    <3>2. build.r \in Records /\ build.n \in 1 .. Len(eff'[build.r])
      BY <1>1, <1>3, <2>1
    <3>3. CASE build.at = "pv_build"
      BY <3>1, <3>2, <3>3
      DEF Hand, InHand, Scanning, OnVersion, Confirms, Writes, Retries, Rewrites, Planning
    <3>4. CASE build.at = "cf_build"
      <4>1. lock'.account = p /\ build.plan # None
        BY <1>2, <1>5, <2>1, <2>2, <3>4
      <4> QED BY <3>1, <3>2, <3>4, <4>1
          DEF Hand, InHand, Scanning, OnVersion, Confirms, Writes, Retries, Rewrites, Planning
    <3> QED BY <2>1, <3>3, <3>4
  <2> QED BY <1>1, <1>5, <2>1, <2>3, Moved, OneMovesAlone DEF IInv, LocksOK
<1>6. CASE Leave(p)
  BY <1>1, <1>6, LeavesAlone DEF IInv
<1> QED BY <1>4, <1>5, <1>6 DEF ReadSource, Goto

LEMMA CorrectOK ==
    ASSUME IInv, NEW p \in Procs, Correct(p)
    PROVE  IInv'
<1> DEFINE x   == proc[p]
           vs  == eff[x.r]
           new == Correction(vs, x.n, x.seen, x.row, day)
           y   == [Idle EXCEPT !.at = "insert", !.r = x.r, !.n = Len(vs),
                               !.seen = Latest(vs).state, !.new = new]
<1>1. SheetsOK' /\ eff' = eff
  BY DEF Correct, IInv, SheetsOK, sheets, store
<1>2. x \in Process /\ x.at = "correct" /\ x.row \in Flows \cup {None}
  BY InProcess DEF Correct, Process
<1>3. x.r \in Records /\ x.n \in 1 .. Len(vs) /\ vs \in Seq(Versions)
  BY <1>2, InVersion DEF OnVersion
<1>4. Fresh(new) /\ new \in Versions /\ new # None
  <2>1. Fresh(new)
    BY <1>2, <1>3, CorrectionType
  <2>2. new \in Versions
    BY <2>1 DEF Fresh
  <2>3. None \notin Versions
    BY NoneAssumption
  <2> QED BY <2>1, <2>2, <2>3
<1>5. CASE proc' = [proc EXCEPT ![p] = y] /\ lock' = lock
  <2>1. Len(vs) \in 1 .. Len(vs) /\ Len(vs) \in Nat
        /\ Latest(vs) = vs[Len(vs)] /\ Latest(vs).state \in States /\ Latest(vs).state # None
    <3>1. vs # <<>>
      BY <1>3
    <3> QED BY <1>3, <3>1, LatestAt
  <2> HIDE DEF new
  <2>2. /\ y \in Process /\ y.at = "insert" /\ y.r = x.r /\ y.n = Len(vs)
        /\ y.seen = Latest(vs).state /\ y.new = new
    <3>1. "insert" \in Stages /\ Idle \in Process /\ x.r \in Records
          /\ Len(vs) \in Nat /\ Latest(vs).state \in States /\ new \in Versions
      BY <1>3, <1>4, <2>1, IdleType DEF Stages
    <3> HIDE DEF vs, x
    <3> QED BY <3>1, Zenon DEF Process
  <2> HIDE DEF y
  <2>3. proc'[p] = y
    BY <1>5, <2>2, Moved
  <2>4. /\ y.r \in Records /\ y.n \in 1 .. Len(eff'[y.r]) /\ y.seen # None
        /\ y.new # None /\ Fresh(y.new) /\ eff'[y.r][y.n].state = y.seen
    BY <1>1, <1>3, <1>4, <2>1, <2>2
  <2>5. InHand(proc[p])'
    BY <2>2, <2>3, <2>4 DEF InHand, Scanning, OnVersion, Confirms, Writes, Retries, Rewrites
  <2>6. Hand(p)'
    BY <2>2, <2>3, <2>4, <2>5 DEF Hand, Confirms, Writes, Rewrites, Planning
  <2> QED BY <1>1, <1>5, <2>2, <2>6, Moved, OneMovesAlone DEF IInv, LocksOK
<1>6. CASE Leave(p)
  BY <1>1, <1>6, LeavesAlone DEF IInv
<1> QED BY <1>5, <1>6 DEF Correct

LEMMA SheetsSame ==
    ASSUME IInv, UNCHANGED <<sheets, prints, ext, day, used>>
    PROVE  SheetsOK'
BY DEF IInv, SheetsOK, sheets

LEMMA InsertOK ==
    ASSUME IInv, NEW p \in Procs, Insert(p)
    PROVE  IInv'
<1> DEFINE x    == proc[p]
           vs   == eff[x.r]
           late == [vs EXCEPT ![x.n].state = "superseded"]
           old  == IF x.seen \in Unresolved THEN late ELSE vs
           ws   == Append(old, x.new)
<1>1. SheetsOK' /\ Leave(p)
  BY SheetsSame DEF Insert
<1>2. x.r \in Records /\ x.n \in 1 .. Len(vs) /\ Sound(vs) /\ vs \in Seq(Versions)
  BY InVersion DEF Insert, OnVersion
<1>3. /\ x.seen \in States /\ Fresh(x.new)
      /\ x.seen \in Settled => vs[x.n].state \in Settled
  <2>1. x \in Process /\ Hand(p) /\ x.at = "insert"
    BY InProcess DEF Insert
  <2>2. x.seen \in States \cup {None}
    BY <2>1 DEF Process
  <2> QED BY <2>1, <2>2 DEF Hand, InHand
<1>4. CASE Len(vs) # x.n
  <2>1. eff' = eff
    BY <1>4 DEF Insert
  <2> QED BY <1>1, <2>1, LeavesAlone DEF IInv
<1>5. CASE Len(vs) = x.n
  <2>1. /\ Sound(old) /\ Kept(vs, old) /\ SameTargets(vs, old)
        /\ Len(old) = Len(vs) /\ old[Len(vs)].state \in Settled
    <3>1. CASE x.seen \in Unresolved
      <4>1. "superseded" \in Settled /\ "superseded" \in States /\ "superseded" # "compensation_pending"
        BY DEF Settled, States
      <4>2. /\ Sound(late) /\ Kept(vs, late) /\ SameTargets(vs, late)
            /\ Len(late) = Len(vs) /\ late[x.n].state = "superseded"
        BY <1>2, <4>1, StateChanged
      <4> QED BY <1>5, <3>1, <4>1, <4>2
    <3>2. CASE x.seen \notin Unresolved
      <4>1. x.seen \in Settled
        BY <1>3, <3>2 DEF States
      <4> QED BY <1>2, <1>3, <1>5, <3>2, <4>1, SameKept
    <3> QED BY <3>1, <3>2
  <2>2. eff' = [eff EXCEPT ![x.r] = ws]
    BY <1>5 DEF Insert
  <2> HIDE DEF old
  <2>3. Sound(ws) /\ Kept(old, ws) /\ SameTargets(old, ws)
    <3>1. Latest(old).state \in Settled
      BY <2>1 DEF Latest
    <3> QED BY <1>3, <2>1, <3>1, AppendedVersion
  <2> HIDE DEF ws
  <2>4. Kept(vs, ws) /\ SameTargets(vs, ws)
    BY <1>2, <2>1, <2>3, KeptTransitive
  <2>5. StoreOK' /\ \A r \in Records : Kept(eff[r], eff'[r]) /\ SameTargets(eff[r], eff'[r])
    BY <1>2, <2>2, <2>3, <2>4, StoreStep
  <2> QED BY <1>1, <2>5, Leaves DEF IInv
<1> QED BY <1>4, <1>5

(* A command ends with at most a change of one version's state.             *)
LEMMA EndsWithState ==
    ASSUME IInv, NEW p \in Procs, Leave(p),
           NEW r \in Records, NEW n \in 1 .. Len(eff[r]), NEW state \in States,
           \/ eff' = eff
           \/ /\ eff' = [eff EXCEPT ![r][n].state = state]
              /\ eff[r][n].state \in Settled => state \in Settled
              /\ state = "compensation_pending" => eff[r][n].task # None
    PROVE  StoreOK' /\ ProcsOK' /\ LocksOK'
<1>1. CASE eff' = eff
  BY <1>1, LeavesAlone
<1>2. CASE eff' # eff
  BY <1>2, StoreStateChanged, Leaves
<1> QED BY <1>1, <1>2

LEMMA PreviewBuildOK ==
    ASSUME IInv, NEW p \in Procs, PreviewBuild(p)
    PROVE  IInv'
<1> DEFINE x == proc[p]
<1>1. SheetsOK' /\ eff' = eff /\ LocksOK' /\ lock' = lock
  BY DEF PreviewBuild, IInv, SheetsOK, LocksOK, sheets, store
<1>2. x \in Process /\ x.at = "pv_build" /\ holding \in Amounts
  BY InProcess DEF PreviewBuild
<1>3. x.r \in Records /\ x.n \in 1 .. Len(eff[x.r]) /\ eff[x.r] \in Seq(Versions)
  BY <1>2, InVersion DEF OnVersion
<1> DEFINE y(plan) == [x EXCEPT !.at = "pv_save", !.plan = plan]
           Saves   == \E plan \in Plans \cup {None} : proc' = [proc EXCEPT ![p] = y(plan)]
<1>4. Saves
  <2>1. ASSUME NEW choice \in ExternalActions,
               proc' = [proc EXCEPT ![p].at = "pv_save",
                          ![p].plan = Plan(eff[x.r], x.n, choice, prints, ext, holding)]
        PROVE  Saves
    <3>1. choice \in Actions \cup {"auto"}
      BY ExternalActionsAssumption
    <3>2. Plan(eff[x.r], x.n, choice, prints, ext, holding) \in Plans \cup {None}
      BY <1>2, <1>3, <3>1, PlanType
    <3> QED BY <2>1, <3>2
  <2>2. ASSUME Goto(p, "pv_save")
        PROVE  Saves
    <3>1. x.plan \in Plans \cup {None}
      BY <1>2 DEF Process
    <3>2. [x EXCEPT !.at = "pv_save"] = [x EXCEPT !.at = "pv_save", !.plan = x.plan]
      BY <1>2 DEF Process
    <3> QED BY <2>2, <3>1, <3>2 DEF Goto
  <2> QED BY <2>1, <2>2 DEF PreviewBuild
<1>5. PICK plan \in Plans \cup {None} : proc' = [proc EXCEPT ![p] = y(plan)]
  BY <1>4
<1> DEFINE z == y(plan)
<1>6. z \in Process /\ z.at = "pv_save" /\ z.r = x.r /\ z.n = x.n
  <2>1. plan \in Plans \cup {None}
    OBVIOUS
  <2>2. z = [x EXCEPT !.at = "pv_save", !.plan = plan]
    OBVIOUS
  <2>3. x \in Process
    BY <1>2
  <2>4. "pv_save" \in Stages
    BY DEF Stages
  <2> HIDE DEF z, y, x, Saves
  <2> QED BY <2>1, <2>2, <2>3, <2>4, ZenonT(30) DEF Process
<1>7. proc' = [proc EXCEPT ![p] = z]
  BY <1>5
<1> HIDE DEF z
<1>8. Hand(p)'
  BY <1>1, <1>3, <1>6, <1>7, Moved
  DEF Hand, InHand, Scanning, OnVersion, Confirms, Writes, Retries, Rewrites, Planning
<1> QED BY <1>1, <1>6, <1>7, <1>8, Moved, OneMovesAlone DEF IInv

LEMMA PreviewSaveOK ==
    ASSUME IInv, NEW p \in Procs, PreviewSave(p)
    PROVE  IInv'
<1> DEFINE x  == proc[p]
           vs == eff[x.r]
           w  == [vs[x.n] EXCEPT !.state = "previewed", !.plan = x.plan]
           ws == [vs EXCEPT ![x.n] = w]
<1>1. SheetsOK' /\ Leave(p)
  BY SheetsSame DEF PreviewSave
<1>2. /\ x.r \in Records /\ x.n \in 1 .. Len(vs) /\ Sound(vs) /\ vs \in Seq(Versions)
      /\ vs[x.n] \in Versions
  BY InVersion DEF PreviewSave, OnVersion
<1>3. "blocked" \in States /\ "previewed" \in States /\ Previewable \cap Settled = {}
  BY DEF States, Previewable, Settled, Unresolved, Terminal
<1>4. CASE \/ eff' = eff
           \/ vs[x.n].state \in Previewable /\ eff' = [eff EXCEPT ![x.r][x.n].state = "blocked"]
  <2>1. StoreOK' /\ ProcsOK' /\ LocksOK'
    BY <1>1, <1>2, <1>3, <1>4, EndsWithState
  <2> QED BY <1>1, <2>1 DEF IInv
<1>5. CASE /\ vs[x.n].state \in Previewable
           /\ eff' = [eff EXCEPT ![x.r][x.n].state = "previewed", ![x.r][x.n].plan = x.plan]
  <2>1. x.plan \in Plans \cup {None}
    BY InProcess DEF Process
  <2>2. w \in Versions /\ w.state = "previewed" /\ w.task = vs[x.n].task
    BY <1>2, <1>3, <2>1 DEF Versions
  <2>3. eff' = [eff EXCEPT ![x.r] = ws]
    BY <1>5
  <2> HIDE DEF w
  <2>4. SoundAt(vs, x.n)
    BY <1>2 DEF Sound
  <2>5. /\ Sound(ws) /\ Kept(vs, ws) /\ Len(ws) = Len(vs)
        /\ \A m \in 1 .. Len(vs) : ws[m] = IF m = x.n THEN w ELSE vs[m]
    <3> DEFINE n == x.n
    <3>1. /\ n \in 1 .. Len(vs) /\ Sound(vs) /\ w \in Versions
          /\ vs[n].state \notin Settled
          /\ vs[n].task # None => w.task # None
          /\ w.state # "compensation_pending"
          /\ w.task # None => Named(w.task.targets) # {}
      BY <1>2, <1>3, <1>5, <2>2, <2>4 DEF SoundAt
    <3> HIDE DEF vs, n
    <3>2. LET us == [vs EXCEPT ![n] = w]
          IN  /\ Sound(us) /\ Kept(vs, us) /\ Len(us) = Len(vs)
              /\ \A m \in 1 .. Len(vs) : us[m] = IF m = n THEN w ELSE vs[m]
      BY <3>1, ReplacedVersion
    <3> QED BY <3>2 DEF n
  <2> HIDE DEF ws
  <2>6. SameTargets(vs, ws)
    BY <2>2, <2>5 DEF SameTargets
  <2>7. StoreOK' /\ \A r \in Records : Kept(eff[r], eff'[r]) /\ SameTargets(eff[r], eff'[r])
    BY <1>2, <2>3, <2>5, <2>6, StoreStep
  <2> QED BY <1>1, <2>7, Leaves DEF IInv
<1> QED BY <1>4, <1>5 DEF PreviewSave

-----------------------------------------------------------------------------
(* The confirm.                                                             *)
LEMMA ConfirmStartOK ==
    ASSUME IInv, NEW p \in Procs, NEW r \in Records, ConfirmStart(p, r)
    PROVE  IInv'
<1> DEFINE y == [proc[p] EXCEPT !.at = "cf_source", !.job = "confirm", !.r = r,
                                !.n = Len(eff[r]), !.seen = Latest(eff[r]).state,
                                !.plan = Latest(eff[r]).plan]
<1>1. SheetsOK' /\ eff' = eff
  BY DEF ConfirmStart, IInv, SheetsOK, sheets, store
<1>2. LocksOK' /\ lock'.account = p /\ \A q \in Procs : lock.account # q
  BY DEF ConfirmStart, LocksOK
<1>3. /\ Len(eff[r]) \in 1 .. Len(eff[r]) /\ Len(eff[r]) \in Nat
      /\ Latest(eff[r]).state \in States /\ Latest(eff[r]).state # None
      /\ Latest(eff[r]).plan \in Plans /\ Latest(eff[r]).plan # None
  BY LatestAt DEF ConfirmStart
<1>4. /\ y \in Process /\ y.at = "cf_source" /\ y.r = r /\ y.n = Len(eff[r])
      /\ y.seen = Latest(eff[r]).state /\ y.plan = Latest(eff[r]).plan
  <2>1. proc[p] \in Process
    BY InProcess
  <2>2. "cf_source" \in Stages /\ "confirm" \in Works
    BY DEF Stages, Works
  <2> QED BY <1>3, <2>1, <2>2, Zenon DEF Process
<1>5. proc' = [proc EXCEPT ![p] = y]
  BY DEF ConfirmStart
<1> HIDE DEF y
<1>6. Hand(p)'
  <2>1. proc'[p] = y
    BY <1>4, <1>5, Moved
  <2>2. y.r \in Records /\ y.n \in 1 .. Len(eff'[y.r]) /\ y.seen # None /\ y.plan # None
    BY <1>1, <1>3, <1>4
  <2> QED BY <1>2, <1>4, <2>1, <2>2
          DEF Hand, InHand, Scanning, OnVersion, Confirms, Writes, Retries, Rewrites, Planning
<1> QED BY <1>1, <1>2, <1>4, <1>5, <1>6, Moved, OneMovesAlone DEF IInv

(* What a confirm knows.                                                    *)
LEMMA InConfirm ==
    ASSUME IInv, NEW p \in Procs, proc[p].at \in Confirms
    PROVE  LET x == proc[p]
           IN  /\ x \in Process /\ x.plan \in Plans /\ x.plan # None /\ lock.account = p
               /\ x.r \in Records /\ x.n \in 1 .. Len(eff[x.r])
               /\ Sound(eff[x.r]) /\ eff[x.r] \in Seq(Versions)
               /\ eff[x.r][x.n] \in Versions /\ eff[x.r][x.n].state \in States
               /\ x.at \in Planning => Named(x.plan.before) # {}
<1>1. proc[p] \in Process /\ Hand(p)
  BY InProcess
<1>2. proc[p].plan \in Plans \cup {None}
  BY <1>1 DEF Process
<1> QED BY <1>1, <1>2, InVersion DEF Hand, InHand, OnVersion

LEMMA GotoConfirm ==
    ASSUME IInv, NEW p \in Procs, proc[p].at \in Confirms, eff' = eff, lock' = lock,
           NEW stage \in {"cf_record", "cf_apply", "cf_put", "cf_read", "cf_task", "cf_applied"},
           Goto(p, stage),
           stage \in Planning => Named(proc[p].plan.before) # {},
           stage \in Writes => proc[p].at \in Writes
    PROVE  StoreOK' /\ ProcsOK' /\ LocksOK'
<1> DEFINE x == proc[p]
           y == [x EXCEPT !.at = stage]
<1>1. /\ x \in Process /\ x.plan # None /\ lock.account = p /\ x.r \in Records
      /\ x.n \in 1 .. Len(eff[x.r])
  BY InConfirm
<1>2. x.at \in Writes => x.todo # {} /\ x.todo \subseteq Named(x.plan.before)
  BY InProcess DEF Hand, InHand
<1>3. /\ y \in Process /\ y.at = stage /\ y.r = x.r /\ y.n = x.n /\ y.plan = x.plan
      /\ y.todo = x.todo
  <2>1. stage \in Stages
    BY DEF Stages
  <2> QED BY <1>1, <2>1, StageMoved
<1>4. proc' = [proc EXCEPT ![p] = y]
  BY DEF Goto
<1> HIDE DEF y
<1>5. Hand(p)'
  <2>1. proc'[p] = y
    BY <1>3, <1>4, Moved
  <2>2. stage \in Writes => y.todo # {} /\ y.todo \subseteq Named(y.plan.before)
    BY <1>2, <1>3
  <2>3. stage \in Planning => Named(y.plan.before) # {}
    BY <1>3
  <2>4. y.r \in Records /\ y.n \in 1 .. Len(eff'[y.r]) /\ y.plan # None /\ lock'.account = p
    BY <1>1, <1>3
  <2> HIDE DEF x
  <2> QED BY <1>3, <2>1, <2>2, <2>3, <2>4
          DEF Hand, InHand, Scanning, OnVersion, Confirms, Writes, Retries, Rewrites, Planning
<1>6. LocksOK'
  BY DEF IInv, LocksOK
<1> QED BY <1>3, <1>4, <1>5, <1>6, Moved, OneMovesAlone

LEMMA ConfirmBuildOK ==
    ASSUME IInv, NEW p \in Procs, ConfirmBuild(p)
    PROVE  IInv'
<1> DEFINE x   == proc[p]
           v   == eff[x.r][x.n]
           now == Plan(eff[x.r], x.n, x.plan.choice, prints, ext, holding)
<1>1. SheetsOK'
  BY SheetsSame DEF ConfirmBuild
<1>2. x.at = "cf_build" /\ x.at \in Confirms
  BY DEF ConfirmBuild, Confirms
<1>3. /\ x.r \in Records /\ x.n \in 1 .. Len(eff[x.r]) /\ eff[x.r] \in Seq(Versions)
      /\ x.plan \in Plans /\ x.plan # None
  BY <1>2, InConfirm
<1>4. CASE Leave(p) /\ (\/ eff' = eff
                        \/ /\ v.state \in Previewable
                           /\ eff' = [eff EXCEPT ![x.r][x.n].state = "stale"])
  <2>1. "stale" \in States /\ Previewable \cap Settled = {}
    BY DEF States, Previewable, Settled, Unresolved, Terminal
  <2>2. StoreOK' /\ ProcsOK' /\ LocksOK'
    BY <1>3, <1>4, <2>1, EndsWithState
  <2> QED BY <1>1, <2>2 DEF IInv
<1>5. CASE /\ now = x.plan /\ eff' = eff /\ lock' = lock
           /\ Goto(p, IF v.mode = "apply" THEN "cf_apply" ELSE "cf_record")
  <2> DEFINE stage == IF v.mode = "apply" THEN "cf_apply" ELSE "cf_record"
  <2>1. x.plan.choice \in Actions \cup {"auto"} /\ holding \in Amounts
    BY <1>3, InProcess DEF Plans
  <2>2. v.mode = "apply" /\ now # None => Named(now.before) # {}
    <3> DEFINE vs == eff[x.r]
               n  == x.n
               choice == x.plan.choice
    <3>1. vs \in Seq(Versions) /\ n \in 1 .. Len(vs) /\ choice \in Actions \cup {"auto"}
      BY <1>3, <2>1
    <3>2. Plan(vs, n, choice, prints, ext, holding) = now /\ vs[n] = v
      OBVIOUS
    <3> HIDE DEF vs, n, choice, now, v
    <3> QED BY <2>1, <3>1, <3>2, PlanType
  <2>3. stage \in Planning => Named(x.plan.before) # {}
    BY <1>3, <1>5, <2>2 DEF Planning, Writes
  <2>4. stage \in {"cf_record", "cf_apply", "cf_read", "cf_task", "cf_applied"}
        /\ stage \notin Writes
    BY DEF Writes
  <2>5. StoreOK' /\ ProcsOK' /\ LocksOK'
    BY <1>2, <1>5, <2>3, <2>4, GotoConfirm
  <2> QED BY <1>1, <2>5 DEF IInv
<1> QED BY <1>4, <1>5 DEF ConfirmBuild

LEMMA ConfirmRecordOnlyOK ==
    ASSUME IInv, NEW p \in Procs, ConfirmRecordOnly(p)
    PROVE  IInv'
<1> DEFINE x == proc[p]
<1>1. SheetsOK' /\ Leave(p)
  BY SheetsSame DEF ConfirmRecordOnly
<1>2. x.r \in Records /\ x.n \in 1 .. Len(eff[x.r])
  BY InConfirm DEF ConfirmRecordOnly, Confirms
<1>3. "record_only" \in States /\ "record_only" \in Settled
  BY DEF States, Settled, Terminal
<1>4. eff' \in {eff, [eff EXCEPT ![x.r][x.n].state = "record_only"]}
  BY DEF ConfirmRecordOnly
<1>5. StoreOK' /\ ProcsOK' /\ LocksOK'
  BY <1>1, <1>2, <1>3, <1>4, EndsWithState
<1> QED BY <1>1, <1>5 DEF IInv

LEMMA ConfirmApplyingOK ==
    ASSUME IInv, NEW p \in Procs, ConfirmApplying(p)
    PROVE  IInv'
<1> DEFINE x == proc[p]
           y == [x EXCEPT !.at = "cf_write", !.todo = Named(x.plan.before)]
<1>1. SheetsOK'
  BY SheetsSame DEF ConfirmApplying
<1>2. x.at = "cf_apply" /\ x.at \in Confirms /\ x.at \in Planning
  BY DEF ConfirmApplying, Confirms, Planning
<1>3. /\ x \in Process /\ x.plan # None /\ lock.account = p /\ x.r \in Records
      /\ x.n \in 1 .. Len(eff[x.r]) /\ Named(x.plan.before) # {}
  BY <1>2, InConfirm
<1>4. CASE Leave(p) /\ eff' = eff
  BY <1>1, <1>4, LeavesAlone DEF IInv
<1>5. CASE /\ eff[x.r][x.n].state = "previewed"
           /\ eff' = [eff EXCEPT ![x.r][x.n].state = "applying"]
           /\ proc' = [proc EXCEPT ![p] = y]
           /\ lock' = lock
  <2>1. /\ "applying" \in States /\ "applying" # "compensation_pending"
        /\ eff[x.r][x.n].state \notin Settled
        /\ eff' = [eff EXCEPT ![x.r][x.n].state = "applying"]
    BY <1>5 DEF States, Settled, Unresolved, Terminal
  <2>2. /\ StoreOK' /\ Len(eff'[x.r]) = Len(eff[x.r])
        /\ \A s \in Records : Kept(eff[s], eff'[s]) /\ SameTargets(eff[s], eff'[s])
    <3> DEFINE r == x.r
               n == x.n
               state == "applying"
    <3>1. /\ r \in Records /\ n \in 1 .. Len(eff[r]) /\ eff[r][n].state \notin Settled
          /\ eff' = [eff EXCEPT ![r][n].state = state]
          /\ state \in States /\ state # "compensation_pending"
      BY <1>3, <2>1
    <3> HIDE DEF r, n, state
    <3>2. /\ StoreOK' /\ Len(eff'[r]) = Len(eff[r])
          /\ \A s \in Records : Kept(eff[s], eff'[s]) /\ SameTargets(eff[s], eff'[s])
      BY <3>1, StoreStateChanged
    <3> QED BY <3>2 DEF r
  <2>3. /\ y \in Process /\ y.at = "cf_write" /\ y.r = x.r /\ y.n = x.n /\ y.plan = x.plan
        /\ y.todo = Named(x.plan.before)
    <3> DEFINE todo == Named(x.plan.before)
    <3>1. "cf_write" \in Stages /\ todo \in SUBSET Ids /\ x \in Process
      BY <1>3 DEF Stages, Named
    <3>2. y = [x EXCEPT !.at = "cf_write", !.todo = todo]
      OBVIOUS
    <3> HIDE DEF todo, x, y
    <3>3. /\ y \in Process /\ y.at = "cf_write" /\ y.r = x.r /\ y.n = x.n /\ y.plan = x.plan
          /\ y.todo = todo
      BY <3>1, <3>2, ZenonT(30) DEF Process
    <3> QED BY <3>3 DEF todo
  <2> HIDE DEF y
  <2>4. Hand(p)'
    <3>1. proc'[p] = y /\ lock'.account = p
      BY <1>3, <1>5, <2>3, Moved
    <3>2. y.r \in Records /\ y.n \in 1 .. Len(eff'[y.r]) /\ Named(y.plan.before) # {}
      BY <1>3, <2>2, <2>3
    <3>3. y.plan # None /\ y.todo = Named(y.plan.before)
      BY <1>3, <2>3
    <3> QED BY <2>3, <3>1, <3>2, <3>3
            DEF Hand, InHand, Scanning, OnVersion, Confirms, Writes, Retries, Rewrites, Planning
  <2>5. \A q \in Procs : proc[q].at \in Rewrites => SameTargets(eff[proc[q].r], eff'[proc[q].r])
    BY <2>2 DEF IInv, ProcsOK, Hand, InHand, OnVersion, Retries, Rewrites
  <2>6. LocksOK'
    BY <1>5 DEF IInv, LocksOK
  <2> QED BY <1>1, <1>5, <2>2, <2>3, <2>4, <2>5, <2>6, Moved, OneMoves DEF IInv
<1> QED BY <1>4, <1>5 DEF ConfirmApplying

LEMMA ConfirmTarget ==
    ASSUME IInv, NEW p \in Procs, proc[p].at \in Confirms,
           NEW i \in Named(proc[p].plan.before)
    PROVE  Target(eff[proc[p].r], proc[p].n, proc[p].plan, i) \in Int /\ i \in Ids
<1> DEFINE vs   == eff[proc[p].r]
           n    == proc[p].n
           plan == proc[p].plan
<1>1. vs \in Seq(Versions) /\ n \in 1 .. Len(vs) /\ plan \in Plans
  BY InConfirm
<1>2. i \in Named(plan.before)
  OBVIOUS
<1> HIDE DEF vs, n, plan
<1>3. Target(vs, n, plan, i) \in Int /\ i \in Ids
  BY <1>1, <1>2, TargetType DEF Named
<1> QED BY <1>3 DEF vs, n, plan

LEMMA PlannedType ==
    ASSUME IInv, NEW p \in Procs, proc[p].at \in Confirms
    PROVE  /\ Planned(proc[p]) \in SomeAmounts
           /\ Named(Planned(proc[p])) = Named(proc[p].plan.before)
<1> DEFINE x         == proc[p]
           target(i) == Target(eff[x.r], x.n, x.plan, i)
<1>1. \A i \in Named(x.plan.before) : target(i) \in Int
  BY ConfirmTarget
<1>2. Planned(x) = [i \in Ids |-> IF i \in Named(x.plan.before) THEN target(i) ELSE None]
  BY DEF Planned
<1> HIDE DEF target, x
<1>3. None \notin Int /\ Named(x.plan.before) \subseteq Ids
  BY NoneAssumption DEF Named
<1>4. Planned(x) \in SomeAmounts
  BY <1>1, <1>2 DEF SomeAmounts
<1>5. Named(Planned(x)) = Named(x.plan.before)
  <2>1. \A i \in Ids : Planned(x)[i] # None <=> i \in Named(x.plan.before)
    BY <1>1, <1>2, <1>3
  <2> QED BY <1>3, <2>1 DEF Named
<1> QED BY <1>4, <1>5 DEF x

(* A write of a typed amount.                                               *)
LEMMA WriteType ==
    ASSUME IInv, NEW r \in Records, NEW i \in Ids, NEW target \in Int, Write(r, i, target)
    PROVE  holding' \in Amounts /\ contrib' \in [Records -> Amounts]
<1>1. holding \in Amounts /\ contrib \in [Records -> Amounts]
  BY DEF IInv, SheetsOK
<1>2. holding[i] \in Int /\ contrib[r] \in [Ids -> Int] /\ contrib[r][i] \in Int
  BY <1>1 DEF Amounts
<1>3. [contrib[r] EXCEPT ![i] = contrib[r][i] + target - holding[i]] \in Amounts
  BY <1>2 DEF Amounts
<1>4. contrib' = [contrib EXCEPT ![r] = [contrib[r] EXCEPT ![i] = contrib[r][i] + target - holding[i]]]
  BY DEF Write
<1>5. contrib' \in [Records -> Amounts]
  BY <1>1, <1>3, <1>4
<1>6. holding' \in Amounts
  BY <1>1 DEF Write, Amounts
<1> QED BY <1>5, <1>6

LEMMA FirstTarget ==
    ASSUME NEW todo \in SUBSET Ids, todo # {}
    PROVE  Min(todo) \in todo
<1>1. todo \in SUBSET Nat
  BY IdsAssumption
<1> QED BY <1>1, MinOf

LEMMA SheetsWritten ==
    ASSUME IInv, holding' \in Amounts, contrib' \in [Records -> Amounts],
           UNCHANGED <<flow, raced, prints, ext, day>>, UNCHANGED used \/ Fault
    PROVE  SheetsOK'
<1>1. used' \in [{"edits", "hands", "faults", "navs"} -> Nat]
  BY DEF IInv, SheetsOK, Fault
<1> QED BY <1>1 DEF IInv, SheetsOK

LEMMA WriteTargetOK ==
    ASSUME IInv, NEW p \in Procs, WriteTarget(p)
    PROVE  IInv'
<1>1. /\ proc[p].at \in Confirms /\ proc[p].at \in Writes /\ proc[p].at \in Planning
  BY DEF WriteTarget, Confirms, Writes, Planning
<1>2. Named(proc[p].plan.before) # {}
  BY <1>1, InConfirm
<1>3. SheetsOK'
  BY SheetsWritten DEF WriteTarget, IInv, SheetsOK, sheets, store
<1>4. /\ eff' = eff /\ lock' = lock
      /\ Goto(p, "cf_read") \/ Goto(p, "cf_put") \/ Goto(p, "cf_task")
  BY DEF WriteTarget, store
<1>5. StoreOK' /\ ProcsOK' /\ LocksOK'
  BY <1>1, <1>2, <1>4, GotoConfirm
<1> QED BY <1>3, <1>5 DEF IInv

LEMMA PutTargetOK ==
    ASSUME IInv, NEW p \in Procs, PutTarget(p)
    PROVE  IInv'
<1> DEFINE x      == proc[p]
           i      == Min(x.todo)
           target == Target(eff[x.r], x.n, x.plan, i)
<1>1. x.at = "cf_put" /\ x.at \in Confirms /\ x.at \in Writes /\ x.at \in Planning
  BY DEF PutTarget, Confirms, Writes, Planning
<1>2. x.todo \in SUBSET Ids /\ x.todo # {} /\ x.todo \subseteq Named(x.plan.before)
  <2>1. x \in Process /\ Hand(p)
    BY InProcess
  <2> QED BY <1>1, <2>1 DEF Process, Hand, InHand
<1>3. i \in Named(x.plan.before)
  BY <1>2, FirstTarget
<1>4. target \in Int /\ i \in Ids
  BY <1>1, <1>3, ConfirmTarget
<1>5. x.r \in Records /\ Named(x.plan.before) # {}
  BY <1>1, InConfirm
<1> HIDE DEF i, target
<1>6. holding' \in Amounts /\ contrib' \in [Records -> Amounts]
  <2>1. CASE UNCHANGED <<holding, contrib>>
    BY <2>1 DEF IInv, SheetsOK
  <2>2. CASE Write(x.r, i, target)
    BY <1>4, <1>5, <2>2, WriteType
  <2> QED BY <2>1, <2>2 DEF PutTarget, i, target
<1>7. SheetsOK'
  BY <1>6, SheetsWritten DEF PutTarget, store
<1>8. eff' = eff /\ lock' = lock /\ (Goto(p, "cf_read") \/ Goto(p, "cf_task"))
  BY DEF PutTarget, store
<1>9. StoreOK' /\ ProcsOK' /\ LocksOK'
  BY <1>1, <1>5, <1>8, GotoConfirm
<1> QED BY <1>7, <1>9 DEF IInv

LEMMA ReadBackOK ==
    ASSUME IInv, NEW p \in Procs, ReadBack(p)
    PROVE  IInv'
<1> DEFINE x    == proc[p]
           rest == x.todo \ {Min(x.todo)}
           stage == IF rest = {} THEN "cf_prints" ELSE "cf_write"
           y    == [x EXCEPT !.at = stage, !.todo = rest]
<1>1. SheetsOK' /\ eff' = eff /\ LocksOK' /\ lock' = lock
  BY DEF ReadBack, IInv, SheetsOK, LocksOK, sheets, store
<1>2. x.at = "cf_read" /\ x.at \in Confirms /\ x.at \in Writes /\ x.at \in Planning
  BY DEF ReadBack, Confirms, Writes, Planning
<1>3. /\ x \in Process /\ x.r \in Records /\ x.n \in 1 .. Len(eff[x.r]) /\ x.plan # None
      /\ lock.account = p /\ Named(x.plan.before) # {}
  BY <1>2, InConfirm
<1>4. CASE Goto(p, "cf_task")
  <2>1. StoreOK' /\ ProcsOK' /\ LocksOK'
    BY <1>1, <1>2, <1>3, <1>4, GotoConfirm DEF Writes
  <2> QED BY <1>1, <2>1 DEF IInv
<1>5. CASE proc' = [proc EXCEPT ![p] = y]
  <2>1. rest \in SUBSET Ids /\ rest \subseteq Named(x.plan.before)
    <3>1. x.todo \in SUBSET Ids
      BY <1>3 DEF Process
    <3>2. x.todo \subseteq Named(x.plan.before)
      BY <1>2, InProcess DEF Hand, InHand
    <3> QED BY <3>1, <3>2
  <2> HIDE DEF rest
  <2>2. stage \in {"cf_prints", "cf_write"} /\ (stage = "cf_write" => rest # {})
    OBVIOUS
  <2> HIDE DEF stage
  <2>3. /\ y \in Process /\ y.at = stage
        /\ y.r = x.r /\ y.n = x.n /\ y.plan = x.plan /\ y.todo = rest
    <3>1. stage \in Stages /\ x \in Process /\ rest \in SUBSET Ids
      BY <1>3, <2>1, <2>2 DEF Stages
    <3>2. y = [x EXCEPT !.at = stage, !.todo = rest]
      OBVIOUS
    <3> HIDE DEF x, y
    <3> QED BY <3>1, <3>2, ZenonT(30) DEF Process
  <2> HIDE DEF y
  <2>4. Hand(p)'
    <3>1. proc'[p] = y
      BY <1>5, <2>3, Moved
    <3>2. lock'.account = p
      BY <1>1, <1>3
    <3>3. /\ y.r \in Records /\ y.n \in 1 .. Len(eff'[y.r]) /\ y.plan # None
          /\ Named(y.plan.before) # {} /\ y.todo \subseteq Named(y.plan.before)
      BY <1>1, <1>3, <2>1, <2>3
    <3> QED BY <2>2, <2>3, <3>1, <3>2, <3>3
            DEF Hand, InHand, Scanning, OnVersion, Confirms, Writes, Retries, Rewrites, Planning
  <2> QED BY <1>1, <1>5, <2>3, <2>4, Moved, OneMovesAlone DEF IInv
<1> QED BY <1>4, <1>5 DEF ReadBack

LEMMA RecordTaskOK ==
    ASSUME IInv, NEW p \in Procs, RecordTask(p)
    PROVE  IInv'
<1> DEFINE x    == proc[p]
           vs   == eff[x.r]
           task == [status |-> "open", before |-> x.plan.before, targets |-> Planned(x)]
           w    == [vs[x.n] EXCEPT !.task = task]
           ws   == [vs EXCEPT ![x.n] = w]
           y    == [x EXCEPT !.at = "cf_pend"]
<1>1. SheetsOK' /\ LocksOK' /\ lock' = lock
  BY SheetsSame DEF RecordTask, IInv, LocksOK
<1>2. x.at \in Confirms /\ x.at \in Planning
  BY DEF RecordTask, Confirms, Planning
<1>3. /\ x \in Process /\ x.plan \in Plans /\ x.plan # None /\ lock.account = p
      /\ x.r \in Records /\ x.n \in 1 .. Len(vs) /\ Sound(vs) /\ vs \in Seq(Versions)
      /\ vs[x.n] \in Versions /\ Named(x.plan.before) # {}
  BY <1>2, InConfirm
<1>4. task \in Tasks /\ Named(task.targets) # {}
  <2>1. x.plan.before \in SomeAmounts
    BY <1>3 DEF Plans
  <2>2. Planned(x) \in SomeAmounts /\ Named(Planned(x)) # {}
    BY <1>2, <1>3, PlannedType
  <2> QED BY <2>1, <2>2 DEF Tasks
<1> HIDE DEF task
<1>5. w \in Versions /\ w.state = vs[x.n].state /\ w.task = task /\ task # None
  <2>1. task # None
    BY <1>4, NoneAssumption
  <2> QED BY <1>3, <1>4, <2>1 DEF Versions
<1>6. eff' = [eff EXCEPT ![x.r] = ws]
  BY DEF RecordTask, task
<1> HIDE DEF w
<1>7. /\ Sound(ws) /\ Kept(vs, ws) /\ Len(ws) = Len(vs)
      /\ \A m \in 1 .. Len(vs) : ws[m] = IF m = x.n THEN w ELSE vs[m]
  <2> DEFINE n == x.n
  <2>1. /\ n \in 1 .. Len(vs) /\ Sound(vs) /\ w \in Versions
        /\ vs[n].state \in Settled => w.state \in Settled
        /\ w.task # None
        /\ Named(w.task.targets) # {}
    BY <1>3, <1>4, <1>5
  <2> HIDE DEF vs, n
  <2>2. LET us == [vs EXCEPT ![n] = w]
        IN  /\ Sound(us) /\ Kept(vs, us) /\ Len(us) = Len(vs)
            /\ \A m \in 1 .. Len(vs) : us[m] = IF m = n THEN w ELSE vs[m]
    BY <2>1, ReplacedVersion
  <2> QED BY <2>2 DEF n
<1> HIDE DEF ws
<1>8. StoreOK' /\ eff'[x.r] = ws /\ \A s \in Records : Kept(eff[s], eff'[s])
  BY <1>3, <1>6, <1>7, StoreStep
<1>9. proc' = [proc EXCEPT ![p] = y]
  BY DEF RecordTask, Goto
<1>10. y \in Process /\ y.at = "cf_pend" /\ y.r = x.r /\ y.n = x.n /\ y.plan = x.plan
  <2>1. "cf_pend" \in Stages
    BY DEF Stages
  <2> QED BY <1>3, <2>1, StageMoved
<1> HIDE DEF y
<1>11. Hand(p)'
  <2>1. proc'[p] = y
    BY <1>9, <1>10, Moved
  <2>2. lock'.account = p
    BY <1>1, <1>3
  <2>3. /\ y.r \in Records /\ y.n \in 1 .. Len(eff'[y.r]) /\ y.plan # None
        /\ eff'[y.r][y.n].task # None
    BY <1>3, <1>5, <1>7, <1>8, <1>10
  <2> QED BY <1>10, <2>1, <2>2, <2>3
          DEF Hand, InHand, Scanning, OnVersion, Confirms, Writes, Retries, Rewrites, Planning
<1>12. \A q \in Procs \ {p} : proc[q].at \notin Rewrites
  BY <1>3 DEF IInv, ProcsOK, Hand
<1> QED BY <1>1, <1>8, <1>9, <1>10, <1>11, <1>12, Moved, OneMoves DEF IInv

LEMMA ConfirmPendingOK ==
    ASSUME IInv, NEW p \in Procs, ConfirmPending(p)
    PROVE  IInv'
<1> DEFINE x == proc[p]
           state == "compensation_pending"
<1>1. SheetsOK' /\ Leave(p)
  BY SheetsSame DEF ConfirmPending
<1>2. x.r \in Records /\ x.n \in 1 .. Len(eff[x.r])
  BY InConfirm DEF ConfirmPending, Confirms
<1>3. eff[x.r][x.n].task # None
  BY InProcess DEF ConfirmPending, Hand, InHand, Retries, Rewrites
<1>4. state \in States
  BY DEF States, Unresolved
<1>5. \/ eff' = eff
      \/ /\ eff' = [eff EXCEPT ![x.r][x.n].state = state]
         /\ eff[x.r][x.n].state \notin Settled
  BY DEF ConfirmPending, Settled, Terminal
<1> HIDE DEF state
<1>6. StoreOK' /\ ProcsOK' /\ LocksOK'
  BY <1>1, <1>2, <1>3, <1>4, <1>5, EndsWithState
<1> QED BY <1>1, <1>6 DEF IInv

LEMMA PrintsType ==
    ASSUME IInv, NEW targets \in SomeAmounts, ConfirmPrints(targets)
    PROVE  SheetsOK' /\ eff' = eff
<1>1. prints \in Amounts
  BY DEF IInv, SheetsOK
<1>2. prints' \in Amounts
  BY <1>1 DEF ConfirmPrints, SomeAmounts, Named, Amounts
<1> QED BY <1>2 DEF ConfirmPrints, IInv, SheetsOK, sheets

LEMMA ConfirmPrintedOK ==
    ASSUME IInv, NEW p \in Procs, ConfirmPrinted(p)
    PROVE  IInv'
<1>1. proc[p].at \in Confirms
  BY DEF ConfirmPrinted, Confirms
<1>2. Planned(proc[p]) \in SomeAmounts
  BY <1>1, PlannedType
<1>3. SheetsOK' /\ eff' = eff
  BY <1>2, PrintsType DEF ConfirmPrinted
<1>4. StoreOK' /\ ProcsOK' /\ LocksOK'
  BY <1>1, <1>3, GotoConfirm DEF ConfirmPrinted, Planning, Writes
<1> QED BY <1>3, <1>4 DEF IInv

LEMMA MarkAppliedOK ==
    ASSUME IInv, NEW p \in Procs, NEW expected, proc[p].at \in {"cf_applied", "rt_applied"},
           MarkApplied(p, expected)
    PROVE  IInv'
<1> DEFINE x     == proc[p]
           state == "applied"
           y     == [x EXCEPT !.at = "recheck", !.seen = "applied"]
<1>1. SheetsOK'
  BY SheetsSame DEF MarkApplied
<1>2. x \in Process /\ x.r \in Records /\ x.n \in 1 .. Len(eff[x.r])
  BY InProcess, InVersion DEF OnVersion, Confirms
<1>3. CASE Leave(p) /\ eff' = eff
  BY <1>1, <1>3, LeavesAlone DEF IInv
<1>4. CASE /\ eff' = [eff EXCEPT ![x.r][x.n].state = "applied"]
           /\ proc' = [proc EXCEPT ![p] = y]
           /\ lock' = lock
  <2>1. /\ state \in States /\ state \in Settled /\ state # "compensation_pending" /\ state # None
    BY NoneAssumption DEF States, Settled, Terminal
  <2>2. /\ y \in Process /\ y.at = "recheck" /\ y.r = x.r /\ y.n = x.n /\ y.seen # None
    <3>1. "recheck" \in Stages
      BY DEF Stages
    <3> QED BY <1>2, <2>1, <3>1, Zenon DEF Process
  <2> HIDE DEF y
  <2>3. eff' = [eff EXCEPT ![x.r][x.n].state = state]
    BY <1>4
  <2> HIDE DEF state
  <2>4. /\ StoreOK' /\ Len(eff'[x.r]) = Len(eff[x.r])
        /\ \A s \in Records : Kept(eff[s], eff'[s]) /\ SameTargets(eff[s], eff'[s])
    BY <1>2, <2>1, <2>3, StoreStateChanged
  <2>5. Hand(p)'
    <3>1. proc'[p] = y
      BY <1>4, <2>2, Moved
    <3>2. y.r \in Records /\ y.n \in 1 .. Len(eff'[y.r])
      BY <1>2, <2>2, <2>4
    <3> QED BY <2>2, <3>1, <3>2
            DEF Hand, InHand, Scanning, OnVersion, Confirms, Writes, Retries, Rewrites, Planning
  <2>6. \A q \in Procs : proc[q].at \in Rewrites => SameTargets(eff[proc[q].r], eff'[proc[q].r])
    BY <2>4 DEF IInv, ProcsOK, Hand, InHand, OnVersion, Retries, Rewrites
  <2>7. LocksOK'
    BY <1>4 DEF IInv, LocksOK
  <2> QED BY <1>1, <1>4, <2>2, <2>4, <2>5, <2>6, <2>7, Moved, OneMoves DEF IInv
<1> QED BY <1>3, <1>4 DEF MarkApplied

-----------------------------------------------------------------------------
(* The compensation.                                                        *)
LEMMA TaskAt ==
    ASSUME IInv, NEW r \in Records, NEW n \in 1 .. Len(eff[r]), eff[r][n].task # None
    PROVE  /\ eff[r][n].task \in Tasks
           /\ eff[r][n].task.targets \in SomeAmounts
           /\ Named(eff[r][n].task.targets) # {}
<1>1. Sound(eff[r]) /\ eff[r] \in Seq(Versions)
  BY DEF IInv, StoreOK
<1>2. eff[r][n].task \in Tasks
  BY <1>1, VersionAt
<1>3. SoundAt(eff[r], n)
  BY <1>1 DEF Sound
<1> QED BY <1>2, <1>3 DEF SoundAt, Tasks

LEMMA RetryStartOK ==
    ASSUME IInv, NEW p \in Procs, NEW r \in Records, NEW job \in {"retry", "task"},
           NEW n \in 1 .. Len(eff[r]), RetryStart(p, r, n, job)
    PROVE  IInv'
<1> DEFINE task  == eff[r][n].task
           done  == task.status = "resolved"
           stage == IF done THEN "rt_resolve" ELSE "rt_apply"
           todo  == IF done THEN {} ELSE Named(task.targets)
           y     == [proc[p] EXCEPT !.at = stage, !.job = job, !.r = r, !.n = n, !.todo = todo]
<1>1. SheetsOK' /\ eff' = eff
  BY DEF RetryStart, IInv, SheetsOK, sheets, store
<1>2. LocksOK' /\ lock'.account = p /\ \A q \in Procs : lock.account # q
  BY DEF RetryStart, IInv, LocksOK
<1>3. task # None
  BY DEF RetryStart
<1>4. Named(task.targets) # {} /\ Named(task.targets) \in SUBSET Ids
  BY <1>3, TaskAt DEF Named
<1>5. proc' = [proc EXCEPT ![p] = y]
  BY DEF RetryStart
<1>6. /\ stage \in {"rt_resolve", "rt_apply"} /\ todo \in SUBSET Ids
      /\ stage = "rt_apply" => todo # {} /\ todo \subseteq Named(task.targets)
  BY <1>4
<1>7. n \in Nat
  BY DEF IInv, StoreOK, Sound
<1> HIDE DEF stage, todo, task
<1>8. y \in Process /\ y.at = stage /\ y.r = r /\ y.n = n /\ y.todo = todo
  <2>1. proc[p] \in Process
    BY InProcess
  <2>2. /\ stage \in Stages /\ todo \in SUBSET Ids /\ r \in Records \cup {None}
        /\ job \in Works
    BY <1>6 DEF Stages, Works
  <2> QED BY <1>7, <2>1, <2>2, Zenon DEF Process
<1> HIDE DEF y
<1>9. Hand(p)'
  <2>1. proc'[p] = y
    BY <1>5, <1>8, Moved
  <2>2. /\ y.r \in Records /\ y.n \in 1 .. Len(eff'[y.r]) /\ eff'[y.r][y.n].task = task
    BY <1>1, <1>8 DEF task
  <2> QED BY <1>2, <1>3, <1>6, <1>8, <2>1, <2>2
          DEF Hand, InHand, Scanning, OnVersion, Confirms, Writes, Retries, Rewrites, Planning
<1> QED BY <1>1, <1>2, <1>5, <1>8, <1>9, Moved, OneMovesAlone DEF IInv

(* What a retry knows while it works on its targets.                        *)
LEMMA InRewrite ==
    ASSUME IInv, NEW p \in Procs, proc[p].at \in Rewrites
    PROVE  LET x    == proc[p]
               task == eff[x.r][x.n].task
           IN  /\ x \in Process /\ lock.account = p
               /\ x.r \in Records /\ x.n \in 1 .. Len(eff[x.r])
               /\ task # None /\ x.todo # {} /\ x.todo \in SUBSET Ids
               /\ x.todo \subseteq Named(task.targets)
               /\ Min(x.todo) \in Ids /\ task.targets[Min(x.todo)] \in Int
<1> DEFINE x    == proc[p]
           task == eff[x.r][x.n].task
<1>1. x \in Process /\ Hand(p) /\ lock.account = p
  BY InProcess DEF Hand
<1>2. x.r \in Records /\ x.n \in 1 .. Len(eff[x.r])
  BY <1>1, InVersion DEF OnVersion, Retries, Rewrites
<1>3. task # None /\ x.todo # {} /\ x.todo \subseteq Named(task.targets) /\ x.todo \in SUBSET Ids
  BY <1>1 DEF Hand, InHand, Retries, Rewrites, Process
<1>4. Min(x.todo) \in Named(task.targets) /\ Min(x.todo) \in Ids
  BY <1>3, FirstTarget
<1>5. task.targets[Min(x.todo)] \in Int
  <2>1. task.targets \in SomeAmounts
    BY <1>2, <1>3, TaskAt
  <2> QED BY <1>4, <2>1 DEF SomeAmounts, Named
<1> QED BY <1>1, <1>2, <1>3, <1>4, <1>5

(* It goes from one call to the next for the same target.                   *)
LEMMA GotoRewrite ==
    ASSUME IInv, NEW p \in Procs, proc[p].at \in Rewrites, eff' = eff, lock' = lock,
           NEW stage \in Rewrites, Goto(p, stage)
    PROVE  StoreOK' /\ ProcsOK' /\ LocksOK'
<1> DEFINE x == proc[p]
           y == [x EXCEPT !.at = stage]
<1>1. /\ x \in Process /\ lock.account = p /\ x.r \in Records /\ x.n \in 1 .. Len(eff[x.r])
      /\ eff[x.r][x.n].task # None /\ x.todo # {}
      /\ x.todo \subseteq Named(eff[x.r][x.n].task.targets)
  BY InRewrite
<1>2. proc' = [proc EXCEPT ![p] = y]
  BY DEF Goto
<1>3. y \in Process /\ y.at = stage /\ y.r = x.r /\ y.n = x.n /\ y.todo = x.todo
  <2>1. stage \in Stages
    BY DEF Stages, Rewrites
  <2> QED BY <1>1, <2>1, StageMoved
<1> HIDE DEF y
<1>4. Hand(p)'
  <2>1. proc'[p] = y
    BY <1>2, <1>3, Moved
  <2>2. /\ y.r \in Records /\ y.n \in 1 .. Len(eff'[y.r]) /\ eff'[y.r][y.n].task # None
        /\ y.todo # {} /\ y.todo \subseteq Named(eff'[y.r][y.n].task.targets)
        /\ lock'.account = p
    BY <1>1, <1>3
  <2> HIDE DEF x
  <2> QED BY <1>3, <2>1, <2>2
          DEF Hand, InHand, Scanning, OnVersion, Confirms, Writes, Retries, Rewrites, Planning
<1>5. LocksOK'
  BY DEF IInv, LocksOK
<1> QED BY <1>2, <1>3, <1>4, <1>5, Moved, OneMovesAlone

(* It is done with a target.                                                *)
LEMMA RetryAdvanceOK ==
    ASSUME IInv, NEW p \in Procs, proc[p].at \in Rewrites, eff' = eff, RetryAdvance(p)
    PROVE  StoreOK' /\ ProcsOK' /\ LocksOK'
<1> DEFINE x     == proc[p]
           task  == eff[x.r][x.n].task
           rest  == x.todo \ {Min(x.todo)}
           stage == IF rest = {} THEN "rt_resolve" ELSE "rt_apply"
           y     == [x EXCEPT !.at = stage, !.todo = rest]
<1>1. /\ x \in Process /\ lock.account = p /\ x.r \in Records /\ x.n \in 1 .. Len(eff[x.r])
      /\ task # None /\ x.todo \in SUBSET Ids /\ x.todo \subseteq Named(task.targets)
  BY InRewrite
<1>2. proc' = [proc EXCEPT ![p] = y] /\ lock' = lock
  BY DEF RetryAdvance
<1> HIDE DEF task
<1>3. rest \in SUBSET Ids /\ rest \subseteq Named(task.targets)
  BY <1>1
<1> HIDE DEF rest
<1>4. stage \in {"rt_resolve", "rt_apply"} /\ (stage = "rt_apply" => rest # {})
  OBVIOUS
<1> HIDE DEF stage
<1>5. y \in Process /\ y.at = stage /\ y.r = x.r /\ y.n = x.n /\ y.todo = rest
  <2>1. stage \in Stages /\ x \in Process /\ rest \in SUBSET Ids
    BY <1>1, <1>3, <1>4 DEF Stages
  <2>2. y = [x EXCEPT !.at = stage, !.todo = rest]
    OBVIOUS
  <2> HIDE DEF x, y
  <2> QED BY <2>1, <2>2, ZenonT(30) DEF Process
<1> HIDE DEF y
<1>6. Hand(p)'
  <2>1. proc'[p] = y
    BY <1>2, <1>5, Moved
  <2>2. lock'.account = p
    BY <1>1, <1>2
  <2>3. y.r \in Records /\ y.n \in 1 .. Len(eff'[y.r]) /\ eff'[y.r][y.n].task = task
    BY <1>1, <1>5 DEF task
  <2> QED BY <1>1, <1>3, <1>4, <1>5, <2>1, <2>2, <2>3
          DEF Hand, InHand, Scanning, OnVersion, Confirms, Writes, Retries, Rewrites, Planning
<1>7. LocksOK'
  BY <1>2 DEF IInv, LocksOK
<1> QED BY <1>2, <1>5, <1>6, <1>7, Moved, OneMovesAlone

LEMMA RetryReadsOK ==
    ASSUME IInv, NEW p \in Procs, RetryTarget(p) \/ RetryBase(p) \/ RetryRead(p)
    PROVE  IInv'
<1>1. SheetsOK' /\ eff' = eff
  BY DEF RetryTarget, RetryBase, RetryRead, IInv, SheetsOK, sheets, store
<1>2. proc[p].at \in Rewrites
  BY DEF RetryTarget, RetryBase, RetryRead, Rewrites
<1>3. \/ \E stage \in Rewrites : Goto(p, stage) /\ lock' = lock
      \/ RetryAdvance(p)
      \/ Leave(p)
  BY DEF RetryTarget, RetryBase, RetryRead, Rewrites
<1>4. StoreOK' /\ ProcsOK' /\ LocksOK'
  BY <1>1, <1>2, <1>3, GotoRewrite, RetryAdvanceOK, LeavesAlone
<1> QED BY <1>1, <1>4 DEF IInv

LEMMA RetryPutOK ==
    ASSUME IInv, NEW p \in Procs, RetryPut(p)
    PROVE  IInv'
<1> DEFINE x      == proc[p]
           i      == Min(x.todo)
           target == eff[x.r][x.n].task.targets[i]
<1>1. x.at \in Rewrites
  BY DEF RetryPut, Rewrites
<1>2. x.r \in Records /\ i \in Ids /\ target \in Int
  BY <1>1, InRewrite
<1>3. Write(x.r, i, target)
  BY DEF RetryPut
<1> HIDE DEF i, target
<1>4. holding' \in Amounts /\ contrib' \in [Records -> Amounts]
  BY <1>2, <1>3, WriteType
<1>5. eff' = eff /\ UNCHANGED <<flow, raced, prints, ext, day>> /\ (UNCHANGED used \/ Fault)
  BY DEF RetryPut, store
<1>6. SheetsOK'
  BY <1>4, <1>5, SheetsWritten
<1>7. (Goto(p, "rt_read") /\ lock' = lock) \/ Leave(p)
  BY DEF RetryPut
<1>8. "rt_read" \in Rewrites
  BY DEF Rewrites
<1>9. StoreOK' /\ ProcsOK' /\ LocksOK'
  BY <1>1, <1>5, <1>7, <1>8, GotoRewrite, LeavesAlone
<1> QED BY <1>6, <1>9 DEF IInv

LEMMA RetryResolveOK ==
    ASSUME IInv, NEW p \in Procs, RetryResolve(p)
    PROVE  IInv'
<1> DEFINE x    == proc[p]
           n    == x.n
           vs   == eff[x.r]
           task == [vs[n].task EXCEPT !.status = "resolved"]
           w    == [vs[n] EXCEPT !.task = task]
           ws   == [vs EXCEPT ![n] = w]
           check == [x EXCEPT !.at = "rt_prints"]
<1>1. SheetsOK' /\ lock' = Released(p)
  BY SheetsSame DEF RetryResolve
<1>2. x \in Process /\ x.at = "rt_resolve"
  BY InProcess DEF RetryResolve
<1>3. /\ x.r \in Records /\ n \in 1 .. Len(vs) /\ Sound(vs) /\ vs \in Seq(Versions)
      /\ vs[n] \in Versions
  BY <1>2, InVersion DEF OnVersion, Retries, Rewrites
<1>4. vs[n].task # None
  BY <1>2, InProcess DEF Hand, InHand, Retries, Rewrites
<1>5. vs[n].task \in Tasks /\ Named(vs[n].task.targets) # {}
  BY <1>3, <1>4, TaskAt
<1>6. task \in Tasks /\ task.targets = vs[n].task.targets
  BY <1>5 DEF Tasks
<1>7. eff' = [eff EXCEPT ![x.r] = ws]
  BY DEF RetryResolve
<1> HIDE DEF task
<1>8. w \in Versions /\ w.state = vs[n].state /\ w.task = task /\ task # None
  <2>1. task # None
    BY <1>6, NoneAssumption
  <2> QED BY <1>3, <1>6, <2>1 DEF Versions
<1> HIDE DEF w
<1>9. /\ n \in 1 .. Len(vs) /\ Sound(vs) /\ w \in Versions
      /\ vs[n].state \in Settled => w.state \in Settled
      /\ w.task # None
      /\ Named(w.task.targets) # {}
      /\ w.task.targets = vs[n].task.targets
  BY <1>3, <1>5, <1>6, <1>8
<1>10. proc' = [proc EXCEPT ![p] = IF x.job = "retry" THEN check ELSE Idle]
  BY DEF RetryResolve
<1>11. check \in Process /\ check.at = "rt_prints" /\ check.r = x.r /\ check.n = n
  <2>1. "rt_prints" \in Stages
    BY DEF Stages
  <2> QED BY <1>2, <2>1, StageMoved
<1> HIDE DEF check
<1>12. /\ Sound(ws) /\ Kept(vs, ws) /\ Len(ws) = Len(vs)
       /\ \A m \in 1 .. Len(vs) : ws[m] = IF m = n THEN w ELSE vs[m]
  <2> HIDE DEF vs, n
  <2> QED BY <1>9, ReplacedVersion
<1> HIDE DEF ws
<1>13. SameTargets(vs, ws)
  BY <1>9, <1>12 DEF SameTargets
<1>14. /\ StoreOK' /\ eff'[x.r] = ws
       /\ \A s \in Records : Kept(eff[s], eff'[s]) /\ SameTargets(eff[s], eff'[s])
  BY <1>3, <1>7, <1>12, <1>13, StoreStep
<1>15. CASE x.job # "retry"
  <2>1. Leave(p)
    BY <1>1, <1>10, <1>15 DEF Leave
  <2> QED BY <1>1, <1>14, <2>1, Leaves DEF IInv
<1>16. CASE x.job = "retry"
  <2>1. proc' = [proc EXCEPT ![p] = check]
    BY <1>10, <1>16
  <2>2. Hand(p)'
    <3>1. proc'[p] = check
      BY <1>11, <2>1, Moved
    <3>2. /\ check.r \in Records /\ check.n \in 1 .. Len(eff'[check.r])
          /\ eff'[check.r][check.n].task # None
      BY <1>3, <1>9, <1>11, <1>12, <1>14
    <3> QED BY <1>11, <3>1, <3>2
            DEF Hand, InHand, Scanning, OnVersion, Confirms, Writes, Retries, Rewrites, Planning
  <2>3. LocksOK' /\ \A q \in Procs \ {p} : lock.account = q => lock'.account = q
    BY <1>1 DEF IInv, LocksOK, Released
  <2>4. \A q \in Procs : proc[q].at \in Rewrites => SameTargets(eff[proc[q].r], eff'[proc[q].r])
    BY <1>14 DEF IInv, ProcsOK, Hand, InHand, OnVersion, Retries, Rewrites
  <2> QED BY <1>1, <1>11, <1>14, <2>1, <2>2, <2>3, <2>4, Moved, OneMoves DEF IInv
<1> QED BY <1>15, <1>16

LEMMA AuditStartOK ==
    ASSUME IInv, NEW p \in Procs, NEW r \in Records, AuditStart(p, r)
    PROVE  IInv'
<1> DEFINE n == Len(eff[r])
           y == [proc[p] EXCEPT !.at = "rt_prints", !.job = "audit", !.r = r, !.n = n]
<1>1. SheetsOK' /\ eff' = eff /\ LocksOK' /\ lock' = lock
  BY DEF AuditStart, IInv, SheetsOK, LocksOK, sheets, store
<1>2. n \in 1 .. Len(eff[r]) /\ n \in Nat /\ eff[r][n].state = "compensation_pending"
  BY LatestAt DEF AuditStart
<1>3. eff[r][n].task # None
  <2>1. SoundAt(eff[r], n)
    BY <1>2 DEF IInv, StoreOK, Sound
  <2> QED BY <1>2, <2>1 DEF SoundAt
<1>4. proc' = [proc EXCEPT ![p] = y]
  BY DEF AuditStart
<1> HIDE DEF n
<1>5. y \in Process /\ y.at = "rt_prints" /\ y.r = r /\ y.n = n
  <2>1. proc[p] \in Process
    BY InProcess
  <2>2. "rt_prints" \in Stages /\ "audit" \in Works
    BY DEF Stages, Works
  <2> QED BY <1>2, <2>1, <2>2, Zenon DEF Process
<1> HIDE DEF y
<1>6. Hand(p)'
  BY <1>1, <1>2, <1>3, <1>4, <1>5, Moved
  DEF Hand, InHand, Scanning, OnVersion, Confirms, Writes, Retries, Rewrites, Planning
<1> QED BY <1>1, <1>4, <1>5, <1>6, Moved, OneMovesAlone DEF IInv

LEMMA FinalizePrintsOK ==
    ASSUME IInv, NEW p \in Procs, FinalizePrints(p)
    PROVE  IInv'
<1> DEFINE x       == proc[p]
           targets == eff[x.r][x.n].task.targets
           differ  == {i \in Named(targets) : holding[i] # targets[i]}
           proven  == {i \in Named(targets) : \A j \in differ : i < j}
           printed == [i \in Ids |-> IF i \in proven THEN targets[i] ELSE None]
           y       == [x EXCEPT !.at = "rt_applied"]
<1>1. x \in Process /\ x.at = "rt_prints"
  BY InProcess DEF FinalizePrints
<1>2. x.r \in Records /\ x.n \in 1 .. Len(eff[x.r])
  BY <1>1, InVersion DEF OnVersion, Retries, Rewrites
<1>3. eff[x.r][x.n].task # None
  BY <1>1, InProcess DEF Hand, InHand, Retries, Rewrites
<1>4. targets \in SomeAmounts
  BY <1>2, <1>3, TaskAt
<1>5. ConfirmPrints(printed) /\ ((Goto(p, "rt_applied") /\ lock' = lock) \/ Leave(p))
  BY DEF FinalizePrints
<1> HIDE DEF targets, proven
<1>6. printed \in SomeAmounts
  BY <1>4 DEF SomeAmounts
<1> HIDE DEF printed
<1>7. SheetsOK' /\ eff' = eff
  BY <1>5, <1>6, PrintsType
<1>8. CASE Leave(p)
  BY <1>7, <1>8, LeavesAlone DEF IInv
<1>9. CASE Goto(p, "rt_applied") /\ lock' = lock
  <2>1. proc' = [proc EXCEPT ![p] = y]
    BY <1>9 DEF Goto
  <2>2. y \in Process /\ y.at = "rt_applied" /\ y.r = x.r /\ y.n = x.n
    <3>1. "rt_applied" \in Stages
      BY DEF Stages
    <3> QED BY <1>1, <3>1, StageMoved
  <2> HIDE DEF y
  <2>3. Hand(p)'
    BY <1>2, <1>7, <2>1, <2>2, Moved
    DEF Hand, InHand, Scanning, OnVersion, Confirms, Writes, Retries, Rewrites, Planning
  <2>4. LocksOK'
    BY <1>9 DEF IInv, LocksOK
  <2> QED BY <1>7, <1>9, <2>1, <2>2, <2>3, <2>4, Moved, OneMovesAlone DEF IInv
<1> QED BY <1>5, <1>8, <1>9

LEMMA CrashOK ==
    ASSUME IInv, NEW p \in Procs, Crash(p)
    PROVE  IInv'
<1>1. SheetsOK'
  BY SheetsWritten DEF Crash, IInv, SheetsOK, sheets, store
<1>2. StoreOK' /\ ProcsOK' /\ LocksOK'
  BY LeavesAlone DEF Crash, store
<1> QED BY <1>1, <1>2 DEF IInv

-----------------------------------------------------------------------------
LEMMA NextOK == IInv /\ [Next]_vars => IInv'
<1> SUFFICES ASSUME IInv, [Next]_vars PROVE IInv'
  OBVIOUS
<1>1. CASE People
  BY <1>1, EditFlowOK, TypeInOK, TradeOK DEF People
<1>2. CASE DayPasses
  BY <1>2, DayPassesOK
<1>3. ASSUME NEW p \in Procs, Command(p) PROVE IInv'
  BY <1>3, ScanStartOK, NavStartOK, PreviewStartOK, ConfirmStartOK, AuditStartOK, RetryStartOK
  DEF Command
<1>4. ASSUME NEW p \in Procs, Continue(p) PROVE IInv'
  <2>1. CASE NavScan(p) \/ ScanHoldings(p) \/ CommitScan(p) \/ NavGate(p) \/ RecordNav(p)
    BY <2>1, NavScanOK, ScanHoldingsOK, CommitScanOK, NavGateOK, RecordNavOK
  <2>2. CASE \/ ReadSource(p) \/ Correct(p) \/ Insert(p) \/ PreviewBuild(p) \/ PreviewSave(p)
    BY <2>2, ReadSourceOK, CorrectOK, InsertOK, PreviewBuildOK, PreviewSaveOK
  <2>3. CASE \/ ConfirmBuild(p) \/ ConfirmRecordOnly(p) \/ ConfirmApplying(p)
             \/ WriteTarget(p) \/ PutTarget(p) \/ ReadBack(p) \/ RecordTask(p)
             \/ ConfirmPending(p) \/ ConfirmPrinted(p)
    BY <2>3, ConfirmBuildOK, ConfirmRecordOnlyOK, ConfirmApplyingOK, WriteTargetOK,
       PutTargetOK, ReadBackOK, RecordTaskOK, ConfirmPendingOK, ConfirmPrintedOK
  <2>4. CASE ConfirmApplied(p) \/ FinalizeApplied(p)
    BY <2>4, MarkAppliedOK DEF ConfirmApplied, FinalizeApplied
  <2>5. CASE \/ RetryTarget(p) \/ RetryBase(p) \/ RetryPut(p) \/ RetryRead(p)
             \/ RetryResolve(p) \/ FinalizePrints(p)
    BY <2>5, RetryReadsOK, RetryPutOK, RetryResolveOK, FinalizePrintsOK
  <2> QED BY <1>4, <2>1, <2>2, <2>3, <2>4, <2>5 DEF Continue
<1>5. ASSUME NEW p \in Procs, Crash(p) PROVE IInv'
  BY <1>5, CrashOK
<1>6. CASE UNCHANGED vars
  <2>1. SheetsOK'
    BY <1>6 DEF vars, IInv, SheetsOK
  <2> QED BY <1>6, <2>1, NobodyMoves DEF vars, IInv
<1> QED BY <1>1, <1>2, <1>3, <1>4, <1>5, <1>6 DEF Next

(* The inductive invariant.                                                 *)
THEOREM Inductive == Spec => []IInv
<1>1. Init => IInv
  BY InitOK
<1>2. IInv /\ [Next]_vars => IInv'
  BY NextOK
<1> QED BY <1>1, <1>2, PTL DEF Spec

(* What a command finds in hand when it goes on is always there: the rows   *)
(* of a scan, the version a command was started on, the plan of a confirm,  *)
(* the task of a retry, whatever others, crashes and people have done to    *)
(* the sheets and the store since it last looked.                           *)
THEOREM Typing == Spec => []TypeOK
<1>1. IInv => TypeOK
  BY IInvOK
<1> QED BY <1>1, Inductive, PTL

(* Only the latest version of a record is ever open, however stale the      *)
(* version a preview, confirm, retry or audit still works on: none of their *)
(* updates brings a superseded version back, and a version is inserted only *)
(* on top of a settled one.                                                 *)
THEOREM OneOpen == Spec => []OneOpenVersion
<1>1. IInv => OneOpenVersion
  BY IInvOK
<1> QED BY <1>1, Inductive, PTL

-----------------------------------------------------------------------------
(* The gate.  Whoever scans or confirms holds the scanner lock, and while   *)
(* a confirm writes, the latest version of its record is open, whatever     *)
(* version that is by now: it blocks, unless it waits for its date.         *)
HoldsScanner == Confirms \cup {"scan_hold", "scan_commit"}
Workable == Unresolved \ {"compensation_pending"}
Working(vs) == vs # <<>> /\ Latest(vs).state \in Workable

ScannersHold == \A p \in Procs : proc[p].at \in HoldsScanner => lock.scanner = p
WritersOpen == \A p \in Applying : Working(eff[proc[p].r])
GateInv == ScannersHold /\ WritersOpen

LEMMA StagesOf ==
    /\ Applying \subseteq Procs
    /\ \A p \in Applying : proc[p].at \in HoldsScanner /\ proc[p].at \in OnVersion /\ proc[p].at \in Confirms
BY DEF Applying, HoldsScanner, OnVersion, Confirms, Writes

(* A step of p, while which no other confirm writes, or none of the         *)
(* versions they rely on is closed.                                         *)
LEMMA GateStep ==
    ASSUME IInv, GateInv, NEW p \in Procs,
           proc' = [proc EXCEPT ![p] = proc'[p]],
           \A q \in Procs \ {p} : lock.scanner = q => lock'.scanner = q,
           proc'[p].at \in HoldsScanner => lock'.scanner = p,
           lock.scanner = p \/ \A r \in Records : Working(eff[r]) => Working(eff'[r]),
           p \in Applying' => Working(eff'[proc'[p].r])
    PROVE  GateInv'
<1>1. \A q \in Procs \ {p} : proc'[q] = proc[q]
  BY DEF IInv, ProcsOK
<1>2. ScannersHold'
  BY <1>1 DEF GateInv, ScannersHold
<1>3. ASSUME NEW q \in Applying', q # p PROVE Working(eff'[proc'[q].r])
  <2>1. q \in Procs /\ proc'[q] = proc[q] /\ q \in Applying
    BY <1>1, <1>3 DEF Applying
  <2>2. lock.scanner = q /\ proc[q].r \in Records /\ Working(eff[proc[q].r])
    BY <2>1, StagesOf DEF GateInv, ScannersHold, WritersOpen, IInv, ProcsOK, Hand, InHand
  <2> QED BY <1>3, <2>1, <2>2
<1>4. WritersOpen'
  BY <1>3 DEF WritersOpen
<1> QED BY <1>2, <1>4 DEF GateInv

(* The command ends.                                                        *)
LEMMA GateLeft ==
    ASSUME IInv, GateInv, NEW p \in Procs, Leave(p),
           lock.scanner = p \/ \A r \in Records : Working(eff[r]) => Working(eff'[r])
    PROVE  GateInv'
<1>1. proc' = [proc EXCEPT ![p] = proc'[p]] /\ proc'[p] = Idle
  BY DEF IInv, ProcsOK, Leave
<1>2. \A q \in Procs \ {p} : lock.scanner = q => lock'.scanner = q
  BY DEF IInv, LocksOK, Leave, Released
<1>3. proc'[p].at \notin HoldsScanner /\ p \notin Applying'
  BY <1>1, IdleType DEF HoldsScanner, Applying, Confirms, Writes
<1> QED BY <1>1, <1>2, <1>3, GateStep

(* It goes on, with its locks and the store as they are.                    *)
LEMMA GateGoes ==
    ASSUME IInv, GateInv, NEW p \in Procs, NEW y, proc' = [proc EXCEPT ![p] = y], lock' = lock, eff' = eff,
           y.at \in HoldsScanner => proc[p].at \in HoldsScanner,
           y.at \in {"cf_write", "cf_put", "cf_read", "cf_task", "cf_pend", "cf_prints", "cf_applied"} =>
             p \in Applying /\ y.r = proc[p].r
    PROVE  GateInv'
<1>1. proc' = [proc EXCEPT ![p] = proc'[p]] /\ proc'[p] = y
  BY DEF IInv, ProcsOK
<1>2. p \in Applying' => Working(eff'[proc'[p].r])
  BY <1>1 DEF Applying, GateInv, WritersOpen
<1>3. proc'[p].at \in HoldsScanner => lock'.scanner = p
  BY <1>1 DEF GateInv, ScannersHold
<1> QED BY <1>1, <1>2, <1>3, GateStep

LEMMA GateStands ==
    ASSUME GateInv, UNCHANGED <<eff, lock, proc>>
    PROVE  GateInv'
BY DEF GateInv, ScannersHold, WritersOpen, Applying

(* A version is replaced.                                                   *)
Replaces(r, n, w) ==
    /\ r \in Records /\ n \in 1 .. Len(eff[r])
    /\ eff' = [eff EXCEPT ![r] = [eff[r] EXCEPT ![n] = w]]

LEMMA ReplacedAt ==
    ASSUME IInv, NEW r, NEW n, NEW w, Replaces(r, n, w)
    PROVE  \A s \in Records :
             /\ eff[s] \in Seq(Versions) /\ Len(eff[s]) \in Nat /\ Len(eff'[s]) = Len(eff[s])
             /\ \A m \in 1 .. Len(eff[s]) : eff'[s][m] = IF s = r /\ m = n THEN w ELSE eff[s][m]
BY DEF IInv, StoreOK, Replaces

LEMMA StaysWorking ==
    ASSUME IInv, NEW r, NEW n, NEW w, Replaces(r, n, w),
           eff[r][n].state \in Workable => w.state \in Workable
    PROVE  \A s \in Records : Working(eff[s]) => Working(eff'[s])
<1> SUFFICES ASSUME NEW s \in Records, Working(eff[s]) PROVE Working(eff'[s])
  OBVIOUS
<1>1. /\ eff[s] \in Seq(Versions) /\ Len(eff[s]) \in Nat /\ Len(eff'[s]) = Len(eff[s])
      /\ \A m \in 1 .. Len(eff[s]) : eff'[s][m] = IF s = r /\ m = n THEN w ELSE eff[s][m]
  BY ReplacedAt
<1>2. Len(eff[s]) \in 1 .. Len(eff[s]) /\ eff[s][Len(eff[s])].state \in Workable
  BY <1>1 DEF Working, Latest
<1>3. eff'[s][Len(eff[s])].state \in Workable
  BY <1>1, <1>2
<1>4. eff'[s] # <<>>
  BY <1>1, <1>2
<1> QED BY <1>1, <1>3, <1>4 DEF Working, Latest

LEMMA ReplacesState ==
    ASSUME NEW r \in Records, NEW n \in 1 .. Len(eff[r]), NEW state,
           eff' = [eff EXCEPT ![r][n].state = state], NEW w, w = [eff[r][n] EXCEPT !.state = state],
           IInv
    PROVE  Replaces(r, n, w) /\ w.state = state
<1>1. eff[r][n] \in Versions
  BY VersionAt DEF IInv, StoreOK
<1>2. w.state = state
  BY <1>1 DEF Versions
<1> QED BY <1>2 DEF Replaces

LEMMA NobodyIs == \A q \in Procs : q # None
BY ProcsAssumption

(* A retry at work on its targets stays at that, resolves its task or ends. *)
Rewriting(p) == RetryTarget(p) \/ RetryBase(p) \/ RetryPut(p) \/ RetryRead(p)

LEMMA RewritingGoes ==
    ASSUME IInv, NEW p \in Procs, Rewriting(p)
    PROVE  /\ eff' = eff /\ day' = day
           /\ \/ Leave(p)
              \/ \E y : /\ proc' = [proc EXCEPT ![p] = y] /\ lock' = lock
                       /\ y.at \in Rewrites \cup {"rt_resolve"}
<1>1. proc \in [Procs -> Process] /\ proc[p] \in Process
  BY InProcess DEF IInv, ProcsOK
<1>2. eff' = eff /\ day' = day
  BY DEF Rewriting, RetryTarget, RetryBase, RetryPut, RetryRead, store
<1>3. \/ \E stage \in Rewrites : Goto(p, stage) /\ lock' = lock
      \/ RetryAdvance(p)
      \/ Leave(p)
  BY DEF Rewriting, RetryTarget, RetryBase, RetryPut, RetryRead, Rewrites
<1>4. ASSUME NEW stage \in Rewrites, Goto(p, stage), lock' = lock
      PROVE  \E y : proc' = [proc EXCEPT ![p] = y] /\ lock' = lock /\ y.at \in Rewrites
  <2>1. PICK y : y = [proc[p] EXCEPT !.at = stage]
    OBVIOUS
  <2>2. y.at = stage
    BY <1>1, <2>1 DEF Process
  <2>3. proc' = [proc EXCEPT ![p] = y]
    BY <1>1, <1>4, <2>1 DEF Goto
  <2> QED BY <1>4, <2>2, <2>3
<1>5. ASSUME RetryAdvance(p)
      PROVE  \E y : /\ proc' = [proc EXCEPT ![p] = y] /\ lock' = lock
                   /\ y.at \in Rewrites \cup {"rt_resolve"}
  <2> DEFINE rest == proc[p].todo \ {Min(proc[p].todo)}
             at   == IF rest = {} THEN "rt_resolve" ELSE "rt_apply"
  <2>1. at \in Rewrites \cup {"rt_resolve"}
    BY DEF Rewrites
  <2>2. lock' = lock /\ proc' = [proc EXCEPT ![p].at = at, ![p].todo = rest]
    BY <1>5 DEF RetryAdvance
  <2> HIDE DEF at, rest
  <2>3. PICK y : y = [proc[p] EXCEPT !.at = at, !.todo = rest]
    OBVIOUS
  <2>4. y.at = at
    BY <1>1, <2>3 DEF Process
  <2>5. proc' = [proc EXCEPT ![p] = y]
    BY <1>1, <2>2, <2>3
  <2> QED BY <2>1, <2>2, <2>4, <2>5
<1> QED BY <1>2, <1>3, <1>4, <1>5

LEMMA GateScan ==
    ASSUME IInv, GateInv, NEW p \in Procs,
           ScanStart(p) \/ NavStart(p) \/ NavScan(p) \/ ScanHoldings(p) \/ NavGate(p) \/ RecordNav(p)
    PROVE  GateInv'
<1>1. eff' = eff
  BY DEF ScanStart, NavStart, NavScan, ScanHoldings, NavGate, RecordNav, store
<1>2. proc' = [proc EXCEPT ![p] = proc'[p]]
  BY DEF IInv, ProcsOK, ScanStart, NavStart, NavScan, ScanHoldings, NavGate, RecordNav, Goto
<1>3. \A q \in Procs \ {p} : lock.scanner = q => lock'.scanner = q
  <2>1. CASE ScanStart(p) \/ NavScan(p)
    BY <2>1, NobodyIs DEF ScanStart, NavScan
  <2>2. CASE NavStart(p) \/ ScanHoldings(p) \/ NavGate(p) \/ RecordNav(p)
    BY <2>2 DEF NavStart, ScanHoldings, NavGate, RecordNav
  <2> QED BY <2>1, <2>2
<1>4. proc'[p].at \in HoldsScanner => lock'.scanner = p
  <2>1. CASE ScanStart(p) \/ NavScan(p)
    BY <2>1 DEF ScanStart, NavScan, IInv, LocksOK
  <2>2. CASE NavStart(p)
    BY <2>2 DEF NavStart, IInv, ProcsOK, Process, HoldsScanner, Confirms, Writes
  <2>3. CASE ScanHoldings(p)
    BY <2>3 DEF ScanHoldings, GateInv, ScannersHold, HoldsScanner
  <2>4. CASE NavGate(p) \/ RecordNav(p)
    BY <2>4, IdleType DEF NavGate, RecordNav, Goto, IInv, ProcsOK, Process, HoldsScanner, Confirms, Writes
  <2> QED BY <2>1, <2>2, <2>3, <2>4
<1>5. p \notin Applying'
  BY IdleType DEF ScanStart, NavStart, NavScan, ScanHoldings, NavGate, RecordNav, Goto, IInv, ProcsOK,
     Process, Applying
<1> QED BY <1>1, <1>2, <1>3, <1>4, <1>5, GateStep

LEMMA GateCommit ==
    ASSUME IInv, GateInv, NEW p \in Procs, CommitScan(p)
    PROVE  GateInv'
<1>1. lock.scanner = p
  BY DEF CommitScan, GateInv, ScannersHold, HoldsScanner
<1>2. PICK y : y = IF proc[p].job = "nav" THEN [Idle EXCEPT !.at = "nav_gate", !.job = "nav"] ELSE Idle
  OBVIOUS
<1>6. y.at \in {"nav_gate", "idle"}
  BY <1>2 DEF Idle
<1>7. proc' = [proc EXCEPT ![p] = IF proc[p].job = "nav" THEN [Idle EXCEPT !.at = "nav_gate", !.job = "nav"]
                                  ELSE Idle]
  BY DEF CommitScan
<1>8. proc' = [proc EXCEPT ![p] = y]
  BY <1>2, <1>7
<1>3. proc'[p] = y /\ proc' = [proc EXCEPT ![p] = proc'[p]]
  BY <1>8 DEF IInv, ProcsOK
<1>4. \A q \in Procs \ {p} : lock.scanner = q => lock'.scanner = q
  BY <1>1
<1>5. proc'[p].at \notin HoldsScanner /\ p \notin Applying'
  BY <1>3, <1>6 DEF HoldsScanner, Applying, Confirms, Writes
<1> QED BY <1>1, <1>3, <1>4, <1>5, GateStep

(* Commands start; those that take the account lock find no confirm.        *)
LEMMA GateStart ==
    ASSUME IInv, GateInv, NEW p \in Procs, NEW r \in Records,
           \/ PreviewStart(p, r) \/ ConfirmStart(p, r) \/ AuditStart(p, r)
           \/ \E job \in {"retry", "task"} : \E n \in 1 .. Len(eff[r]) : RetryStart(p, r, n, job)
    PROVE  GateInv'
<1>0. proc[p] \in Process
  BY InProcess
<1>1. CASE ConfirmStart(p, r)
  <2>1. eff' = eff /\ proc' = [proc EXCEPT ![p] = proc'[p]] /\ proc'[p].at = "cf_source"
    BY <1>0, <1>1 DEF ConfirmStart, store, IInv, ProcsOK, Process
  <2>2. lock.scanner = None /\ lock'.scanner = p
    BY <1>1 DEF ConfirmStart
  <2>3. \A q \in Procs \ {p} : lock.scanner = q => lock'.scanner = q
    BY <2>2, NobodyIs
  <2>4. p \notin Applying'
    BY <2>1 DEF Applying
  <2> QED BY <2>1, <2>2, <2>3, <2>4, GateStep
<1>2. CASE \/ PreviewStart(p, r) \/ AuditStart(p, r)
           \/ \E job \in {"retry", "task"} : \E n \in 1 .. Len(eff[r]) : RetryStart(p, r, n, job)
  <2>1. eff' = eff /\ proc' = [proc EXCEPT ![p] = proc'[p]]
    <3>1. CASE PreviewStart(p, r)
      BY <3>1 DEF PreviewStart, store, IInv, ProcsOK
    <3>2. CASE AuditStart(p, r)
      BY <3>2 DEF AuditStart, store, IInv, ProcsOK
    <3>3. ASSUME NEW job \in {"retry", "task"}, NEW n \in 1 .. Len(eff[r]), RetryStart(p, r, n, job)
          PROVE  eff' = eff /\ proc' = [proc EXCEPT ![p] = proc'[p]]
      <4>1. eff' = eff
        BY <3>3 DEF RetryStart, store
      <4>2. \E at, todo : proc' = [proc EXCEPT ![p].at = at, ![p].job = job, ![p].r = r, ![p].n = n,
                                              ![p].todo = todo]
        BY <3>3 DEF RetryStart
      <4> QED BY <4>1, <4>2 DEF IInv, ProcsOK
    <3> QED BY <1>2, <3>1, <3>2, <3>3
  <2>2. proc'[p].at \in {"pv_source", "rt_prints", "rt_resolve", "rt_apply"}
    <3>1. CASE PreviewStart(p, r)
      BY <1>0, <3>1 DEF PreviewStart, IInv, ProcsOK, Process
    <3>2. CASE AuditStart(p, r)
      BY <1>0, <3>2 DEF AuditStart, IInv, ProcsOK, Process
    <3>3. ASSUME NEW job \in {"retry", "task"}, NEW n \in 1 .. Len(eff[r]), RetryStart(p, r, n, job)
          PROVE  proc'[p].at \in {"rt_resolve", "rt_apply"}
      BY <1>0, <3>3 DEF RetryStart, IInv, ProcsOK, Process
    <3> QED BY <1>2, <3>1, <3>2, <3>3
  <2>3. lock'.scanner = lock.scanner
    BY <1>2 DEF PreviewStart, AuditStart, RetryStart, IInv, LocksOK
  <2>4. p \notin Applying' /\ proc'[p].at \notin HoldsScanner
    BY <2>2 DEF Applying, HoldsScanner, Confirms, Writes
  <2> QED BY <2>1, <2>3, <2>4, GateStep
<1> QED BY <1>1, <1>2

(* What reads and plans leaves the store alone.                             *)
LEMMA GateReads ==
    ASSUME IInv, GateInv, NEW p \in Procs,
           ReadSource(p) \/ Correct(p) \/ PreviewBuild(p) \/ WriteTarget(p) \/ PutTarget(p)
             \/ ReadBack(p) \/ ConfirmPrinted(p) \/ Rewriting(p) \/ FinalizePrints(p) \/ Crash(p)
    PROVE  GateInv'
<1>1. eff' = eff
  BY RewritingGoes DEF ReadSource, Correct, PreviewBuild, WriteTarget, PutTarget, ReadBack,
     ConfirmPrinted, ConfirmPrints, FinalizePrints, Crash, store
<1>2. CASE Leave(p)
  BY <1>1, <1>2, GateLeft
<1>3. ASSUME NEW y, proc' = [proc EXCEPT ![p] = y], lock' = lock,
             y.at \in HoldsScanner => proc[p].at \in HoldsScanner,
             y.at \in {"cf_write", "cf_put", "cf_read", "cf_task", "cf_pend", "cf_prints", "cf_applied"}
               => p \in Applying /\ y.r = proc[p].r
      PROVE  GateInv'
  BY <1>1, <1>3, GateGoes
<1>4. proc[p] \in Process
  BY InProcess
<1>5. ASSUME ReadSource(p), ~Leave(p) PROVE GateInv'
  <2>0. proc \in [Procs -> Process]
    BY DEF IInv, ProcsOK
  <2>1. PICK at : /\ at \in {"correct", "pv_build", "cf_build"}
                  /\ at = "cf_build" => proc[p].at = "cf_source"
                  /\ lock' = lock
                  /\ \/ proc' = [proc EXCEPT ![p].at = at, ![p].row = flow[proc[p].r]]
                     \/ proc' = [proc EXCEPT ![p].at = at]
    BY <1>5 DEF ReadSource, Goto
  <2>2. PICK y : proc' = [proc EXCEPT ![p] = y] /\ y.at = at
    <3>1. ASSUME proc' = [proc EXCEPT ![p].at = at, ![p].row = flow[proc[p].r]]
          PROVE  \E y : proc' = [proc EXCEPT ![p] = y] /\ y.at = at
      <4>1. PICK y : y = [proc[p] EXCEPT !.at = at, !.row = flow[proc[p].r]]
        OBVIOUS
      <4>2. y.at = at
        BY <1>4, <4>1 DEF Process
      <4>3. proc' = [proc EXCEPT ![p] = y]
        BY <2>0, <3>1, <4>1
      <4> QED BY <4>2, <4>3
    <3>2. ASSUME proc' = [proc EXCEPT ![p].at = at]
          PROVE  \E y : proc' = [proc EXCEPT ![p] = y] /\ y.at = at
      <4>1. PICK y : y = [proc[p] EXCEPT !.at = at]
        OBVIOUS
      <4>2. y.at = at
        BY <1>4, <4>1 DEF Process
      <4>3. proc' = [proc EXCEPT ![p] = y]
        BY <2>0, <3>2, <4>1
      <4> QED BY <4>2, <4>3
    <3> QED BY <2>1, <3>1, <3>2
  <2> QED BY <1>3, <2>1, <2>2 DEF HoldsScanner, Confirms, Writes
<1>6. ASSUME Correct(p), ~Leave(p) PROVE GateInv'
  <2>1. PICK y : proc' = [proc EXCEPT ![p] = y] /\ y.at = "insert" /\ lock' = lock
    BY <1>6 DEF Correct, Idle
  <2> QED BY <1>3, <2>1 DEF HoldsScanner, Confirms, Writes
<1>7. ASSUME PreviewBuild(p) PROVE GateInv'
  <2>1. PICK plan, y : /\ y = [proc[p] EXCEPT !.at = "pv_save", !.plan = plan]
                       /\ proc' = [proc EXCEPT ![p] = y] /\ lock' = lock
    <3>1. lock' = lock /\ \E plan : \/ proc' = [proc EXCEPT ![p].at = "pv_save", ![p].plan = plan]
                                    \/ proc' = [proc EXCEPT ![p].at = "pv_save"]
      BY <1>7 DEF PreviewBuild, Goto
    <3>2. [proc[p] EXCEPT !.at = "pv_save"] = [proc[p] EXCEPT !.at = "pv_save", !.plan = proc[p].plan]
      BY <1>4 DEF Process
    <3>3. PICK plan : proc' = [proc EXCEPT ![p] = [proc[p] EXCEPT !.at = "pv_save", !.plan = plan]]
      BY <3>1, <3>2 DEF IInv, ProcsOK
    <3> QED BY <3>1, <3>3
  <2>2. y.at = "pv_save"
    BY <1>4, <2>1 DEF Process
  <2> QED BY <1>3, <2>1, <2>2 DEF HoldsScanner, Confirms, Writes
<1>8. ASSUME WriteTarget(p) \/ PutTarget(p) \/ ReadBack(p) \/ ConfirmPrinted(p) PROVE GateInv'
  <2>1. proc[p].at \in {"cf_write", "cf_put", "cf_read", "cf_prints"} /\ lock' = lock
    BY <1>8 DEF WriteTarget, PutTarget, ReadBack, ConfirmPrinted
  <2>2. PICK at, todo : \/ proc' = [proc EXCEPT ![p].at = at, ![p].todo = todo]
                        \/ proc' = [proc EXCEPT ![p].at = at]
    <3>1. CASE WriteTarget(p) \/ PutTarget(p) \/ ConfirmPrinted(p)
      BY <3>1 DEF WriteTarget, PutTarget, ConfirmPrinted, Goto
    <3>2. CASE ReadBack(p)
      BY <3>2 DEF ReadBack, Goto
    <3> QED BY <1>8, <3>1, <3>2
  <2>3. PICK y : \/ y = [proc[p] EXCEPT !.at = at, !.todo = todo] /\ proc' = [proc EXCEPT ![p] = y]
                 \/ y = [proc[p] EXCEPT !.at = at] /\ proc' = [proc EXCEPT ![p] = y]
    BY <2>2 DEF IInv, ProcsOK
  <2>4. y.r = proc[p].r
    BY <1>4, <2>3 DEF Process
  <2> QED BY <1>3, <2>1, <2>3, <2>4 DEF HoldsScanner, Confirms, Writes, Applying
<1>9. ASSUME Rewriting(p), ~Leave(p) PROVE GateInv'
  <2>1. PICK y : /\ proc' = [proc EXCEPT ![p] = y] /\ lock' = lock
                 /\ y.at \in Rewrites \cup {"rt_resolve"}
    BY <1>9, RewritingGoes
  <2> QED BY <1>3, <2>1 DEF HoldsScanner, Confirms, Writes, Rewrites
<1>10. ASSUME FinalizePrints(p), ~Leave(p) PROVE GateInv'
  <2>1. PICK y : y = [proc[p] EXCEPT !.at = "rt_applied"]
    OBVIOUS
  <2>2. lock' = lock /\ proc' = [proc EXCEPT ![p] = y]
    BY <1>10, <2>1 DEF FinalizePrints, Goto, IInv, ProcsOK
  <2>3. y.at = "rt_applied"
    BY <1>4, <2>1 DEF Process
  <2> QED BY <1>3, <2>2, <2>3 DEF HoldsScanner, Confirms, Writes
<1> QED BY <1>2, <1>3, <1>5, <1>6, <1>7, <1>8, <1>9, <1>10 DEF Crash

LEMMA ScannersAt == ASSUME IInv, GateInv, NEW p \in Procs, proc[p].at \in HoldsScanner
    PROVE lock.scanner = p /\ \A q \in Procs \ {p} : lock.scanner = q => lock'.scanner = q
BY DEF GateInv, ScannersHold

(* The version that is superseded gives way to one that blocks as well.     *)
LEMMA GateInsert ==
    ASSUME IInv, GateInv, NEW p \in Procs, Insert(p)
    PROVE  GateInv'
<1>1. Leave(p)
  BY DEF Insert
<1>2. CASE eff' = eff
  BY <1>1, <1>2, GateLeft
<1>3. CASE eff' # eff
  <2>1. PICK r, n, w : r = proc[p].r /\ n = proc[p].n /\ w = proc[p].new
    OBVIOUS
  <2>2. r \in Records /\ n \in 1 .. Len(eff[r]) /\ eff[r] \in Seq(Versions)
    BY <2>1, InVersion DEF Insert, OnVersion
  <2>3. PICK old : old = IF proc[p].seen \in Unresolved
                         THEN [eff[r] EXCEPT ![n].state = "superseded"] ELSE eff[r]
    OBVIOUS
  <2>4. eff' = [eff EXCEPT ![r] = Append(old, w)]
    BY <1>3, <2>1, <2>3 DEF Insert
  <2>5. Fresh(w)
    BY <2>1 DEF IInv, ProcsOK, Hand, Insert
  <2>6. old \in Seq(Versions)
    <3>1. "superseded" \in States
      BY DEF States, Settled
    <3>2. [eff[r][n] EXCEPT !.state = "superseded"] \in Versions
      <4>1. eff[r][n] \in Versions
        BY <2>2, VersionAt
      <4> QED BY <3>1, <4>1 DEF Versions
    <3> QED BY <2>2, <2>3, <3>2
  <2>7. PICK ws : ws = Append(old, w)
    OBVIOUS
  <2>8. ws # <<>> /\ ws[Len(ws)] = w
    BY <2>5, <2>6, <2>7 DEF Fresh
  <2>9. w.state \in Workable
    BY <2>5 DEF Fresh, Workable, Unresolved
  <2>10. Working(ws)
    BY <2>8, <2>9 DEF Working, Latest
  <2>11. eff' = [eff EXCEPT ![r] = ws]
    BY <2>4, <2>7
  <2>12. \A s \in Records : Working(eff[s]) => Working(eff'[s])
    BY <2>2, <2>10, <2>11 DEF IInv, StoreOK
  <2> QED BY <1>1, <2>12, GateLeft
<1> QED BY <1>2, <1>3

LEMMA GatePreview ==
    ASSUME IInv, GateInv, NEW p \in Procs, PreviewSave(p)
    PROVE  GateInv'
<1>1. Leave(p)
  BY DEF PreviewSave
<1>2. CASE eff' = eff
  BY <1>1, <1>2, GateLeft
<1>3. CASE eff' # eff
  <2>1. PICK r, n : r = proc[p].r /\ n = proc[p].n
    OBVIOUS
  <2>2. r \in Records /\ n \in 1 .. Len(eff[r]) /\ eff[r][n] \in Versions
    BY <2>1, InVersion DEF PreviewSave, OnVersion
  <2>3. ASSUME NEW w, w.state \in {"blocked", "previewed"}, Replaces(r, n, w)
        PROVE  GateInv'
    <3>1. w.state \in Workable
      BY <2>3 DEF Workable, Unresolved
    <3>2. \A s \in Records : Working(eff[s]) => Working(eff'[s])
      BY <2>3, <3>1, StaysWorking
    <3> QED BY <1>1, <3>2, GateLeft
  <2>4. PICK plan : plan = proc[p].plan
    OBVIOUS
  <2>5. \/ eff' = [eff EXCEPT ![r][n].state = "blocked"]
        \/ eff' = [eff EXCEPT ![r][n].state = "previewed", ![r][n].plan = plan]
    BY <1>3, <2>1, <2>4 DEF PreviewSave
  <2>6. CASE eff' = [eff EXCEPT ![r][n].state = "blocked"]
    <3>1. PICK w : w = [eff[r][n] EXCEPT !.state = "blocked"]
      OBVIOUS
    <3>2. Replaces(r, n, w)
      BY <2>2, <2>6, <3>1 DEF Replaces
    <3>3. w.state = "blocked"
      BY <2>2, <3>1 DEF Versions
    <3> QED BY <2>3, <3>2, <3>3
  <2>7. CASE eff' = [eff EXCEPT ![r][n].state = "previewed", ![r][n].plan = plan]
    <3>1. PICK w : w = [eff[r][n] EXCEPT !.state = "previewed", !.plan = plan]
      OBVIOUS
    <3>2. Replaces(r, n, w)
      BY <2>2, <2>7, <3>1 DEF Replaces
    <3>3. w.state = "previewed"
      BY <2>2, <3>1 DEF Versions
    <3> QED BY <2>3, <3>2, <3>3
  <2> QED BY <2>5, <2>6, <2>7
<1> QED BY <1>2, <1>3

LEMMA GateConfirm ==
    ASSUME IInv, GateInv, NEW p \in Procs,
           ConfirmBuild(p) \/ ConfirmRecordOnly(p) \/ ConfirmPending(p) \/ ConfirmApplied(p)
    PROVE  GateInv'
<1>1. proc[p].at \in HoldsScanner /\ proc[p] \in Process
  BY InProcess DEF ConfirmBuild, ConfirmRecordOnly, ConfirmPending, ConfirmApplied, HoldsScanner, Confirms
<1>2. lock.scanner = p /\ \A q \in Procs \ {p} : lock.scanner = q => lock'.scanner = q
  BY <1>1, ScannersAt
<1>3. CASE Leave(p)
  BY <1>2, <1>3, GateLeft
<1>4. ASSUME NEW y, proc' = [proc EXCEPT ![p] = y], lock' = lock,
             y.at \in {"cf_apply", "cf_record", "recheck"}
      PROVE  GateInv'
  <2>1. proc'[p] = y /\ proc' = [proc EXCEPT ![p] = proc'[p]]
    BY <1>4 DEF IInv, ProcsOK
  <2>2. p \notin Applying' /\ lock'.scanner = p
    BY <1>2, <1>4, <2>1 DEF Applying
  <2> QED BY <1>2, <2>1, <2>2, GateStep
<1>5. ASSUME ConfirmBuild(p), ~Leave(p) PROVE GateInv'
  <2>1. PICK at : at \in {"cf_apply", "cf_record"} /\ Goto(p, at) /\ lock' = lock
    BY <1>5 DEF ConfirmBuild
  <2>2. PICK y : y = [proc[p] EXCEPT !.at = at]
    OBVIOUS
  <2>3. proc' = [proc EXCEPT ![p] = y] /\ y.at = at
    BY <1>1, <2>1, <2>2 DEF Goto, Process
  <2> QED BY <1>4, <2>1, <2>3
<1>6. ASSUME ConfirmApplied(p), ~Leave(p) PROVE GateInv'
  <2>1. PICK y : y = [proc[p] EXCEPT !.at = "recheck", !.seen = "applied"]
    OBVIOUS
  <2>2. proc' = [proc EXCEPT ![p] = y] /\ lock' = lock
    BY <1>6, <2>1 DEF ConfirmApplied, MarkApplied
  <2>3. y.at = "recheck"
    BY <1>1, <2>1 DEF Process
  <2> QED BY <1>4, <2>2, <2>3
<1>7. CASE ConfirmRecordOnly(p) \/ ConfirmPending(p)
  BY <1>3, <1>7 DEF ConfirmRecordOnly, ConfirmPending
<1> QED BY <1>3, <1>5, <1>6, <1>7

(* A confirm goes on to write with the latest version: no other is open.    *)
LEMMA GateApplying ==
    ASSUME IInv, GateInv, NEW p \in Procs, ConfirmApplying(p)
    PROVE  GateInv'
<1>1. proc[p].at \in HoldsScanner /\ proc[p].at \in Confirms
  BY DEF ConfirmApplying, HoldsScanner, Confirms
<1>2. lock.scanner = p /\ \A q \in Procs \ {p} : lock.scanner = q => lock'.scanner = q
  BY <1>1, ScannersAt
<1>3. CASE Leave(p)
  BY <1>2, <1>3, GateLeft
<1>4. ASSUME ~Leave(p) PROVE GateInv'
  <2>1. PICK r, n : r = proc[p].r /\ n = proc[p].n
    OBVIOUS
  <2>2. /\ proc[p] \in Process /\ r \in Records /\ n \in 1 .. Len(eff[r]) /\ Sound(eff[r])
        /\ eff[r] \in Seq(Versions)
    BY <1>1, <2>1, InConfirm
  <2>3. /\ eff[r][n].state = "previewed" /\ lock' = lock
        /\ eff' = [eff EXCEPT ![r][n].state = "applying"]
    BY <1>4, <2>1 DEF ConfirmApplying
  <2>4. PICK y : y = [proc[p] EXCEPT !.at = "cf_write", !.todo = Named(proc[p].plan.before)]
    OBVIOUS
  <2>5. proc' = [proc EXCEPT ![p] = y] /\ y.r = r
    <3>1. proc' = [proc EXCEPT ![p].at = "cf_write", ![p].todo = Named(proc[p].plan.before)]
      BY <1>4 DEF ConfirmApplying
    <3>2. proc' = [proc EXCEPT ![p] = y]
      BY <2>4, <3>1
    <3>3. y.r = r
      BY <2>1, <2>2, <2>4 DEF Process
    <3> QED BY <3>2, <3>3
  <2>6. PICK w : w = [eff[r][n] EXCEPT !.state = "applying"]
    OBVIOUS
  <2>7. Replaces(r, n, w) /\ w.state = "applying"
    <3>1. eff[r][n] \in Versions
      BY <2>2, VersionAt
    <3> QED BY <2>2, <2>3, <2>6, <3>1 DEF Replaces, Versions
  <2>8. n = Len(eff[r]) /\ Len(eff[r]) \in Nat
    BY <2>2, <2>3 DEF Sound, SoundAt, Settled, Terminal
  <2>9. Len(eff'[r]) = n /\ eff'[r][n] = w /\ n \in 1 .. Len(eff'[r])
    BY <2>2, <2>7, <2>8, ReplacedAt
  <2>10. Working(eff'[r])
    BY <2>7, <2>9 DEF Working, Latest, Workable, Unresolved
  <2>11. proc'[p] = y /\ proc' = [proc EXCEPT ![p] = proc'[p]]
    BY <2>5 DEF IInv, ProcsOK
  <2>12. lock'.scanner = p
    BY <1>2, <2>3
  <2> QED BY <1>2, <2>5, <2>10, <2>11, <2>12, GateStep
<1> QED BY <1>3, <1>4

LEMMA GateTask ==
    ASSUME IInv, GateInv, NEW p \in Procs, RecordTask(p)
    PROVE  GateInv'
<1>1. proc[p].at \in HoldsScanner /\ proc[p].at \in Confirms /\ p \in Applying
  BY DEF RecordTask, HoldsScanner, Confirms, Applying
<1>2. lock.scanner = p /\ \A q \in Procs \ {p} : lock.scanner = q => lock'.scanner = q
  BY <1>1, ScannersAt
<1>3. PICK r, n : r = proc[p].r /\ n = proc[p].n
  OBVIOUS
<1>4. /\ proc[p] \in Process /\ r \in Records /\ n \in 1 .. Len(eff[r]) /\ eff[r][n] \in Versions
  BY <1>1, <1>3, InConfirm
<1>5. PICK task : eff' = [eff EXCEPT ![r][n].task = task]
  BY <1>3 DEF RecordTask
<1>6. PICK w : w = [eff[r][n] EXCEPT !.task = task]
  OBVIOUS
<1>7. Replaces(r, n, w) /\ w.state = eff[r][n].state
  BY <1>4, <1>5, <1>6 DEF Replaces, Versions
<1>8. \A s \in Records : Working(eff[s]) => Working(eff'[s])
  BY <1>7, StaysWorking
<1>9. PICK y : y = [proc[p] EXCEPT !.at = "cf_pend"]
  OBVIOUS
<1>10. proc' = [proc EXCEPT ![p] = y] /\ lock' = lock /\ y.r = r
  BY <1>3, <1>4, <1>9 DEF RecordTask, Goto, Process
<1>11. proc'[p] = y /\ proc' = [proc EXCEPT ![p] = proc'[p]]
  BY <1>10 DEF IInv, ProcsOK
<1>12. Working(eff[r])
  BY <1>1, <1>3 DEF GateInv, WritersOpen
<1>13. Working(eff'[proc'[p].r])
  BY <1>4, <1>8, <1>10, <1>11, <1>12
<1> QED BY <1>2, <1>10, <1>11, <1>13, GateStep

(* A compensation ends: the version was not one a confirm relies on.        *)
LEMMA GateRetry ==
    ASSUME IInv, GateInv, NEW p \in Procs, RetryResolve(p) \/ FinalizeApplied(p)
    PROVE  GateInv'
<1>1. proc[p].at \in OnVersion /\ proc[p] \in Process
  BY InProcess DEF RetryResolve, FinalizeApplied, OnVersion, Retries, Rewrites
<1>2. PICK r, n : r = proc[p].r /\ n = proc[p].n
  OBVIOUS
<1>3. r \in Records /\ n \in 1 .. Len(eff[r]) /\ eff[r][n] \in Versions
  BY <1>1, <1>2, InVersion
<1>4. \A s \in Records : Working(eff[s]) => Working(eff'[s])
  <2>1. CASE RetryResolve(p)
    <3>1. PICK w : w = [eff[r][n] EXCEPT !.task.status = "resolved"]
      OBVIOUS
    <3>2. Replaces(r, n, w) /\ w.state = eff[r][n].state
      BY <1>2, <1>3, <2>1, <3>1 DEF RetryResolve, Replaces, Versions
    <3> QED BY <3>2, StaysWorking
  <2>2. CASE FinalizeApplied(p) /\ eff' # eff
    <3>1. eff[r][n].state = "compensation_pending" /\ eff' = [eff EXCEPT ![r][n].state = "applied"]
      BY <1>2, <2>2 DEF FinalizeApplied, MarkApplied
    <3>2. PICK w : w = [eff[r][n] EXCEPT !.state = "applied"]
      OBVIOUS
    <3>3. Replaces(r, n, w)
      BY <1>3, <3>1, <3>2, ReplacesState
    <3>4. eff[r][n].state \notin Workable
      BY <3>1 DEF Workable
    <3> QED BY <3>3, <3>4, StaysWorking
  <2> QED BY <2>1, <2>2
<1>5. CASE Leave(p)
  BY <1>4, <1>5, GateLeft
<1>6. ASSUME ~Leave(p) PROVE GateInv'
  <2>1. PICK y : /\ \/ y = [proc[p] EXCEPT !.at = "rt_prints"]
                    \/ y = [proc[p] EXCEPT !.at = "recheck", !.seen = "applied"]
                 /\ proc' = [proc EXCEPT ![p] = y]
    <3>1. CASE RetryResolve(p)
      BY <1>6, <3>1 DEF RetryResolve, Leave, IInv, ProcsOK
    <3>2. CASE FinalizeApplied(p)
      BY <1>6, <3>2 DEF FinalizeApplied, MarkApplied
    <3> QED BY <3>1, <3>2
  <2>2. y.at \in {"rt_prints", "recheck"}
    BY <1>1, <2>1 DEF Process
  <2>3. proc'[p] = y /\ proc' = [proc EXCEPT ![p] = proc'[p]]
    BY <2>1 DEF IInv, ProcsOK
  <2>4. p \notin Applying' /\ proc'[p].at \notin HoldsScanner
    BY <2>2, <2>3 DEF Applying, HoldsScanner, Confirms, Writes
  <2>5. \A q \in Procs \ {p} : lock.scanner = q => lock'.scanner = q
    BY <1>6 DEF RetryResolve, FinalizeApplied, MarkApplied, Released, IInv, LocksOK
  <2> QED BY <1>4, <2>3, <2>4, <2>5, GateStep
<1> QED BY <1>5, <1>6

LEMMA GateNext == IInv /\ GateInv /\ [Next]_vars => GateInv'
<1> SUFFICES ASSUME IInv, GateInv, [Next]_vars PROVE GateInv'
  OBVIOUS
<1>1. CASE People \/ DayPasses \/ UNCHANGED vars
  <2>1. UNCHANGED <<eff, lock, proc>>
    BY <1>1 DEF People, DayPasses, EditFlow, TypeIn, Trade, store, vars
  <2> QED BY <2>1, GateStands
<1>2. ASSUME NEW p \in Procs, Command(p) PROVE GateInv'
  BY <1>2, GateScan, GateStart DEF Command
<1>3. ASSUME NEW p \in Procs, Continue(p) PROVE GateInv'
  <2>1. CASE NavScan(p) \/ ScanHoldings(p) \/ CommitScan(p) \/ NavGate(p) \/ RecordNav(p)
    BY <2>1, GateScan, GateCommit
  <2>2. CASE \/ ReadSource(p) \/ Correct(p) \/ Insert(p) \/ PreviewBuild(p) \/ PreviewSave(p)
    BY <2>2, GateReads, GateInsert, GatePreview
  <2>3. CASE \/ ConfirmBuild(p) \/ ConfirmRecordOnly(p) \/ ConfirmApplying(p)
             \/ WriteTarget(p) \/ PutTarget(p) \/ ReadBack(p) \/ RecordTask(p)
             \/ ConfirmPending(p) \/ ConfirmPrinted(p)
    BY <2>3, GateConfirm, GateApplying, GateReads, GateTask
  <2>4. CASE \/ ConfirmApplied(p) \/ FinalizeApplied(p)
             \/ RetryTarget(p) \/ RetryBase(p) \/ RetryPut(p) \/ RetryRead(p)
             \/ RetryResolve(p) \/ FinalizePrints(p)
    BY <2>4, GateConfirm, GateReads, GateRetry DEF Rewriting
  <2> QED BY <1>3, <2>1, <2>2, <2>3, <2>4 DEF Continue
<1>4. ASSUME NEW p \in Procs, Crash(p) PROVE GateInv'
  BY <1>4, GateReads
<1> QED BY <1>1, <1>2, <1>3, <1>4 DEF Next

(* The premise: the dates rows are entered for have come.                   *)
Dateless == \A f \in Flows : f.when # "future"
DatesHaveCome == FirstDay # "before" \/ Dateless

NoneWaits == day # "before" \/ \A r \in Records : ~ (eff[r] # <<>> /\ Latest(eff[r]).state = "scheduled")

(* Nobody but the gate sends a NAV run on.                                  *)
SentOn(p) == proc[p].at = "nav_gate" /\ proc'[p].at = "nav_record"

LEMMA NoneSent ==
    ASSUME IInv, NEW p \in Procs, NEW q \in Procs,
           Command(q) \/ (Continue(q) /\ ~ NavGate(q)) \/ Crash(q)
    PROVE  ~ SentOn(p)
<1>1. proc \in [Procs -> Process] /\ proc[q] \in Process
  BY InProcess DEF IInv, ProcsOK
<1>2. CASE Leave(q)
  BY <1>1, <1>2, IdleType DEF Leave, SentOn
<1>3. ASSUME NEW stage, stage # "nav_record",
             \/ proc' = [proc EXCEPT ![q].at = stage]
             \/ \E todo : proc' = [proc EXCEPT ![q].at = stage, ![q].todo = todo]
      PROVE  ~ SentOn(p)
  BY <1>1, <1>3 DEF SentOn, Process
<1>4. CASE ScanStart(q) \/ NavStart(q) \/ NavScan(q) \/ ScanHoldings(q) \/ RecordNav(q)
  BY <1>1, <1>4, IdleType DEF ScanStart, NavStart, NavScan, ScanHoldings, RecordNav, Goto, SentOn, Process
<1>5. CASE CommitScan(q)
  BY <1>1, <1>5, IdleType DEF CommitScan, SentOn, Process
<1>6. ASSUME NEW r \in Records, PreviewStart(q, r) \/ ConfirmStart(q, r) \/ AuditStart(q, r)
      PROVE  ~ SentOn(p)
  BY <1>1, <1>6 DEF PreviewStart, ConfirmStart, AuditStart, SentOn, Process
<1>7. ASSUME NEW r \in Records, NEW job, NEW n, RetryStart(q, r, n, job) PROVE ~ SentOn(p)
  BY <1>1, <1>7 DEF RetryStart, SentOn, Process
<1>8. CASE ReadSource(q) \/ Insert(q) \/ PreviewBuild(q) \/ PreviewSave(q)
  BY <1>1, <1>2, <1>8 DEF ReadSource, Insert, PreviewBuild, PreviewSave, Goto, SentOn, Process
<1>9. CASE Correct(q)
  BY <1>1, <1>2, <1>9 DEF Correct, SentOn, Process
<1>10. CASE ConfirmBuild(q) \/ ConfirmRecordOnly(q) \/ ConfirmApplying(q)
  BY <1>1, <1>2, <1>10 DEF ConfirmBuild, ConfirmRecordOnly, ConfirmApplying, Goto, SentOn, Process
<1>11. CASE WriteTarget(q) \/ PutTarget(q) \/ ReadBack(q) \/ RecordTask(q)
  BY <1>1, <1>11 DEF WriteTarget, PutTarget, ReadBack, RecordTask, Goto, SentOn, Process
<1>12. CASE ConfirmPending(q) \/ ConfirmPrinted(q) \/ ConfirmApplied(q) \/ FinalizeApplied(q)
  BY <1>1, <1>2, <1>12
     DEF ConfirmPending, ConfirmPrinted, ConfirmApplied, FinalizeApplied, MarkApplied, Goto, SentOn, Process
<1>13. CASE RetryTarget(q) \/ RetryBase(q) \/ RetryPut(q) \/ RetryRead(q)
  <2>1. CASE \E y : /\ proc' = [proc EXCEPT ![q] = y] /\ lock' = lock
                   /\ y.at \in Rewrites \cup {"rt_resolve"}
    BY <1>1, <2>1 DEF SentOn, Rewrites
  <2> QED BY <1>2, <1>13, <2>1, RewritingGoes DEF Rewriting
<1>14. CASE FinalizePrints(q)
  <2>1. Leave(q) \/ Goto(q, "rt_applied")
    BY <1>14 DEF FinalizePrints
  <2> QED BY <1>1, <1>2, <2>1 DEF Goto, SentOn, Process
<1>15. CASE RetryResolve(q)
  <2>1. \/ proc' = [proc EXCEPT ![q] = Idle]
        \/ proc' = [proc EXCEPT ![q] = [proc[q] EXCEPT !.at = "rt_prints"]]
    BY <1>15 DEF RetryResolve
  <2> QED BY <1>1, <2>1, IdleType DEF SentOn, Process
<1> QED BY <1>2, <1>4, <1>5, <1>6, <1>7, <1>8, <1>9, <1>10, <1>11, <1>12, <1>13, <1>14, <1>15
        DEF Command, Continue, Crash

LEMMA GateHolds ==
    ASSUME IInv, GateInv, NoneWaits, [Next]_vars, NEW p \in Procs, SentOn(p)
    PROVE  Applying = {}
<1> SUFFICES ASSUME NEW q \in Applying PROVE FALSE
  OBVIOUS
<1>1. proc[q].r \in Records /\ Working(eff[proc[q].r])
  BY StagesOf DEF GateInv, WritersOpen, IInv, ProcsOK, Hand, InHand
<1>2. proc[q].r \in Blockers
  BY <1>1 DEF Blockers, OpenRecords, IsOpen, Working, Workable, NoneWaits
<1>3. CASE People \/ DayPasses \/ UNCHANGED vars
  BY <1>3 DEF People, DayPasses, EditFlow, TypeIn, Trade, vars, SentOn
<1>4. ASSUME NEW r \in Procs, Command(r) \/ Continue(r) \/ Crash(r) PROVE FALSE
  <2>1. CASE NavGate(r)
    BY <1>2, <2>1, IdleType DEF NavGate, SentOn, IInv, ProcsOK
  <2> QED BY <1>4, <2>1, NoneSent
<1> QED BY <1>3, <1>4 DEF Next

-----------------------------------------------------------------------------
(* Where no row is dated to the future, no version ever waits for its date. *)
Unscheduled(vs) == \A n \in 1 .. Len(vs) : vs[n].state # "scheduled"
NoneScheduled ==
    /\ \A r \in Records : Unscheduled(eff[r])
    /\ \A p \in Procs : proc[p].at = "insert" => proc[p].new.state # "scheduled"

LEMMA EnteredPending ==
    ASSUME Dateless, NEW f \in Flows, NEW today, NEW mode
    PROVE  Version(Live(f), InitialState(f, today), mode).state = "pending"
BY DEF Dateless, InitialState, Ready, Version

LEMMA CorrectionPending ==
    ASSUME Dateless, NEW vs, NEW n, NEW seen, NEW f \in Flows \cup {None}, NEW today
    PROVE  Correction(vs, n, seen, f, today).state = "pending"
<1>1. CASE f # None
  BY <1>1, EnteredPending DEF Correction
<1>2. CASE f = None
  BY <1>2 DEF Correction, Version
<1> QED BY <1>1, <1>2

LEMMA UnscheduledReplace ==
    ASSUME NEW vs \in Seq(Versions), NEW n, NEW state, state # "scheduled", Unscheduled(vs)
    PROVE  /\ Unscheduled([vs EXCEPT ![n].state = state])
           /\ n \in 1 .. Len(vs) /\ state \in States => [vs EXCEPT ![n].state = state] \in Seq(Versions)
<1>1. \A m \in 1 .. Len(vs) : vs[m] \in Versions
  BY VersionAt
<1>2. \A m \in 1 .. Len(vs) : [vs EXCEPT ![n].state = state][m] \in {vs[m], [vs[m] EXCEPT !.state = state]}
  OBVIOUS
<1>3. Len([vs EXCEPT ![n].state = state]) = Len(vs)
  OBVIOUS
<1>4. \A m \in 1 .. Len(vs) : [vs EXCEPT ![n].state = state][m].state # "scheduled"
  BY <1>1, <1>2 DEF Unscheduled, Versions
<1>5. ASSUME n \in 1 .. Len(vs), state \in States PROVE [vs EXCEPT ![n].state = state] \in Seq(Versions)
  <2>1. PICK w : w = [vs[n] EXCEPT !.state = state]
    OBVIOUS
  <2>2. w \in Versions
    BY <1>1, <1>5, <2>1 DEF Versions
  <2>3. [vs EXCEPT ![n] = w] \in Seq(Versions)
    BY <1>5, <2>2
  <2>4. [vs EXCEPT ![n].state = state] = [vs EXCEPT ![n] = w]
    BY <2>1
  <2> QED BY <2>3, <2>4
<1> QED BY <1>3, <1>4, <1>5 DEF Unscheduled

LEMMA UnscheduledAppend ==
    ASSUME NEW vs \in Seq(Versions), NEW w \in Versions, w.state # "scheduled", Unscheduled(vs)
    PROVE  Unscheduled(Append(vs, w))
BY DEF Unscheduled

LEMMA UnscheduledCreate ==
    ASSUME NEW vs \in Seq(Versions), NEW w \in Versions, w.state # "scheduled", Unscheduled(vs)
    PROVE  Unscheduled(CreateVersion(vs, w))
<1>1. "superseded" \in States
  BY DEF States, Settled
<1>2. Superseded(vs) \in Seq(Versions) /\ Unscheduled(Superseded(vs))
  <2>1. CASE vs = <<>>
    BY <2>1 DEF Superseded, IsOpen
  <2>2. CASE vs # <<>>
    <3>1. Len(vs) \in 1 .. Len(vs)
      BY <2>2
    <3> QED BY <1>1, <3>1, UnscheduledReplace DEF Superseded
  <2> QED BY <2>1, <2>2
<1>3. Unscheduled(Append(Superseded(vs), w))
  BY <1>2, UnscheduledAppend
<1> QED BY <1>3 DEF CreateVersion

LEMMA UnscheduledScan ==
    ASSUME Dateless, NEW hist \in [Records -> Seq(Versions)], NEW rows \in Rows, NEW today,
           \A r \in Records : Unscheduled(hist[r])
    PROVE  \A r \in Records : Unscheduled(Scanned(hist, rows, today)[r])
<1> SUFFICES ASSUME NEW r \in Records PROVE Unscheduled(Scanned(hist, rows, today)[r])
  OBVIOUS
<1>1. PICK vs : vs = hist[r]
  OBVIOUS
<1>2. vs \in Seq(Versions) /\ Unscheduled(vs)
  BY <1>1
<1>3. ASSUME NEW f \in Flows PROVE Unscheduled(ScannedRow(vs, f, today))
  <2>1. PICK w : w = Version(Live(f), InitialState(f, today), ModeOf(f))
    OBVIOUS
  <2>2. w \in Versions /\ w.state = "pending"
    BY <2>1, EnteredType, EnteredPending DEF Fresh
  <2>3. CASE vs = <<>>
    <3>1. ScannedRow(vs, f, today) = <<w>>
      BY <2>1, <2>3 DEF ScannedRow
    <3> QED BY <2>2, <3>1 DEF Unscheduled
  <2>4. Unscheduled([vs EXCEPT ![Len(vs)].state = "pending"])
    BY <1>2, UnscheduledReplace
  <2>5. Unscheduled(CreateVersion(vs, w))
    BY <1>2, <2>2, UnscheduledCreate
  <2>6. CASE vs # <<>>
    <3>1. \/ ScannedRow(vs, f, today) = vs
          \/ ScannedRow(vs, f, today) = [vs EXCEPT ![Len(vs)].state = "pending"]
          \/ ScannedRow(vs, f, today) = CreateVersion(vs, w)
      BY <2>1, <2>6 DEF ScannedRow
    <3> QED BY <1>2, <2>4, <2>5, <3>1
  <2> QED BY <2>3, <2>6
<1>4. Unscheduled(ScannedMissing(vs))
  <2>1. CASE vs = <<>>
    BY <1>2, <2>1 DEF ScannedMissing
  <2>2. CASE vs # <<>>
    <3>5. PICK mode : mode = IF Latest(vs).state = "applied" /\ Latest(vs).mode = "apply"
                             THEN "apply" ELSE "record_only"
      OBVIOUS
    <3>6. PICK w : w = Version(Deletion(Latest(vs).src), "pending", mode)
      OBVIOUS
    <3>1. mode \in {"apply", "record_only"} /\ ScannedMissing(vs) \in {vs, CreateVersion(vs, w)}
      BY <3>5, <3>6 DEF ScannedMissing
    <3>2. Latest(vs).src \in Sources
      BY <1>2, <2>2, VersionAt DEF Latest
    <3>3. w \in Versions /\ w.state = "pending"
      BY <3>1, <3>2, <3>6, DeletionType, VersionType DEF Fresh, Version
    <3>4. Unscheduled(CreateVersion(vs, w))
      BY <1>2, <3>3, UnscheduledCreate
    <3> QED BY <1>2, <3>1, <3>4
  <2> QED BY <2>1, <2>2
<1> QED BY <1>1, <1>3, <1>4 DEF Scanned, Rows

(* The store is left alone, or one version of it is given another state.    *)
LEMMA UnscheduledStore ==
    ASSUME IInv, NoneScheduled,
           \/ eff' = eff
           \/ \E r \in Records : \E n \in 1 .. Len(eff[r]) :
                \E w : Replaces(r, n, w) /\ (w.state # "scheduled" \/ w.state = eff[r][n].state)
    PROVE  \A r \in Records : Unscheduled(eff'[r])
<1>1. CASE eff' = eff
  BY <1>1 DEF NoneScheduled
<1>2. ASSUME NEW r \in Records, NEW n \in 1 .. Len(eff[r]), NEW w, Replaces(r, n, w),
             w.state # "scheduled" \/ w.state = eff[r][n].state
      PROVE  \A s \in Records : Unscheduled(eff'[s])
  <2> SUFFICES ASSUME NEW s \in Records PROVE Unscheduled(eff'[s])
    OBVIOUS
  <2>1. /\ Len(eff'[s]) = Len(eff[s])
        /\ \A m \in 1 .. Len(eff[s]) : eff'[s][m] = IF s = r /\ m = n THEN w ELSE eff[s][m]
    BY <1>2, ReplacedAt
  <2>2. Unscheduled(eff[s]) /\ Unscheduled(eff[r])
    BY DEF NoneScheduled
  <2> QED BY <1>2, <2>1, <2>2 DEF Unscheduled
<1> QED BY <1>1, <1>2

LEMMA UnscheduledPlaces ==
    ASSUME IInv, NoneScheduled, NEW p \in Procs,
           \/ PreviewSave(p) \/ ConfirmBuild(p) \/ ConfirmRecordOnly(p) \/ ConfirmApplying(p)
           \/ RecordTask(p) \/ ConfirmPending(p) \/ ConfirmApplied(p)
           \/ RetryResolve(p) \/ FinalizeApplied(p)
    PROVE  \A r \in Records : Unscheduled(eff'[r])
<1>1. PICK r, n : r = proc[p].r /\ n = proc[p].n
  OBVIOUS
<1>2. proc[p].at \in OnVersion
  BY DEF PreviewSave, ConfirmBuild, ConfirmRecordOnly, ConfirmApplying, RecordTask, ConfirmPending,
         ConfirmApplied, RetryResolve, FinalizeApplied, OnVersion, Confirms, Retries, Rewrites
<1>3. r \in Records /\ n \in 1 .. Len(eff[r]) /\ eff[r][n] \in Versions
  BY <1>1, <1>2, InVersion
<1>4. ASSUME NEW w, eff' = [eff EXCEPT ![r] = [eff[r] EXCEPT ![n] = w]],
             w.state # "scheduled" \/ w.state = eff[r][n].state
      PROVE  \A s \in Records : Unscheduled(eff'[s])
  <2>1. Replaces(r, n, w)
    BY <1>3, <1>4 DEF Replaces
  <2> QED BY <1>3, <1>4, <2>1, UnscheduledStore
<1>5. ASSUME NEW state, state # "scheduled", eff' = [eff EXCEPT ![r][n].state = state]
      PROVE  \A s \in Records : Unscheduled(eff'[s])
  <2>1. PICK w : w = [eff[r][n] EXCEPT !.state = state]
    OBVIOUS
  <2>2. w.state = state /\ eff' = [eff EXCEPT ![r] = [eff[r] EXCEPT ![n] = w]]
    BY <1>3, <1>5, <2>1 DEF Versions
  <2> QED BY <1>4, <1>5, <2>2
<1>6. ASSUME NEW task, eff' = [eff EXCEPT ![r][n].task = task]
      PROVE  \A s \in Records : Unscheduled(eff'[s])
  <2>1. PICK w : w = [eff[r][n] EXCEPT !.task = task]
    OBVIOUS
  <2>2. w.state = eff[r][n].state /\ eff' = [eff EXCEPT ![r] = [eff[r] EXCEPT ![n] = w]]
    BY <1>3, <1>6, <2>1 DEF Versions
  <2> QED BY <1>4, <2>2
<1>7. CASE eff' = eff
  BY <1>7, UnscheduledStore
<1>8. CASE PreviewSave(p)
  <2>1. CASE eff' = [eff EXCEPT ![r][n].state = "previewed", ![r][n].plan = proc[p].plan]
    <3>1. PICK plan : plan = proc[p].plan
      OBVIOUS
    <3>2. PICK w : w = [eff[r][n] EXCEPT !.state = "previewed", !.plan = plan]
      OBVIOUS
    <3>3. w.state = "previewed"
      BY <1>3, <3>2 DEF Versions
    <3>4. eff' = [eff EXCEPT ![r] = [eff[r] EXCEPT ![n] = w]]
      BY <2>1, <3>1, <3>2
    <3> QED BY <1>4, <3>3, <3>4
  <2> QED BY <1>1, <1>5, <1>7, <1>8, <2>1 DEF PreviewSave
<1>9. CASE ConfirmBuild(p)
  BY <1>1, <1>5, <1>7, <1>9 DEF ConfirmBuild
<1>10. CASE ConfirmRecordOnly(p) \/ ConfirmApplying(p) \/ ConfirmPending(p)
  BY <1>1, <1>5, <1>7, <1>10 DEF ConfirmRecordOnly, ConfirmApplying, ConfirmPending
<1>11. CASE ConfirmApplied(p) \/ FinalizeApplied(p)
  BY <1>1, <1>5, <1>7, <1>11 DEF ConfirmApplied, FinalizeApplied, MarkApplied
<1>12. CASE RecordTask(p)
  BY <1>1, <1>6, <1>12 DEF RecordTask
<1>13. CASE RetryResolve(p)
  <2>1. PICK task : task = [eff[r][n].task EXCEPT !.status = "resolved"]
    OBVIOUS
  <2>2. eff' = [eff EXCEPT ![r][n].task = task]
    BY <1>1, <1>13, <2>1 DEF RetryResolve
  <2> QED BY <1>6, <2>2
<1> QED BY <1>8, <1>9, <1>10, <1>11, <1>12, <1>13

LEMMA UnscheduledInsert ==
    ASSUME IInv, NoneScheduled, NEW p \in Procs, Insert(p)
    PROVE  \A r \in Records : Unscheduled(eff'[r])
<1>1. CASE eff' = eff
  BY <1>1, UnscheduledStore
<1>2. CASE eff' # eff
  <2>1. PICK r, n, w : r = proc[p].r /\ n = proc[p].n /\ w = proc[p].new
    OBVIOUS
  <2>2. r \in Records /\ n \in 1 .. Len(eff[r]) /\ eff[r] \in Seq(Versions) /\ Unscheduled(eff[r])
    BY <2>1, InVersion DEF Insert, OnVersion, NoneScheduled
  <2>3. PICK old : old = IF proc[p].seen \in Unresolved
                         THEN [eff[r] EXCEPT ![n].state = "superseded"] ELSE eff[r]
    OBVIOUS
  <2>4. eff' = [eff EXCEPT ![r] = Append(old, w)]
    BY <1>2, <2>1, <2>3 DEF Insert
  <2>5. w \in Versions /\ w.state # "scheduled"
    BY <2>1 DEF IInv, ProcsOK, Hand, Insert, Fresh, NoneScheduled
  <2>6. old \in Seq(Versions) /\ Unscheduled(old)
    <3>1. "superseded" \in States
      BY DEF States, Settled
    <3> QED BY <2>2, <2>3, <3>1, UnscheduledReplace
  <2>7. Unscheduled(Append(old, w))
    BY <2>5, <2>6, UnscheduledAppend
  <2> QED BY <2>2, <2>4, <2>7 DEF IInv, StoreOK, NoneScheduled
<1> QED BY <1>1, <1>2

LEMMA UnscheduledCommit ==
    ASSUME Dateless, IInv, NoneScheduled, NEW p \in Procs, CommitScan(p)
    PROVE  \A r \in Records : Unscheduled(eff'[r])
<1>1. PICK rows, today : rows = proc[p].rows /\ today = day
  OBVIOUS
<1>2. rows \in Rows
  BY <1>1, InProcess DEF CommitScan, Hand, InHand, Process, Scanning
<1>3. PICK hist : hist = eff
  OBVIOUS
<1>4. hist \in [Records -> Seq(Versions)] /\ \A r \in Records : Unscheduled(hist[r])
  BY <1>3 DEF IInv, StoreOK, NoneScheduled
<1>5. eff' = Scanned(hist, rows, today)
  BY <1>1, <1>3 DEF CommitScan
<1> QED BY <1>2, <1>4, <1>5, UnscheduledScan

LEMMA CommandStore ==
    ASSUME NEW q, Command(q) \/ Crash(q)
    PROVE  eff' = eff /\ day' = day
<1>1. CASE ScanStart(q) \/ NavStart(q)
  BY <1>1 DEF ScanStart, NavStart, store
<1>2. ASSUME NEW r, PreviewStart(q, r) \/ ConfirmStart(q, r) \/ AuditStart(q, r)
      PROVE  eff' = eff /\ day' = day
  BY <1>2 DEF PreviewStart, ConfirmStart, AuditStart, store
<1>3. ASSUME NEW r, NEW n, NEW job, RetryStart(q, r, n, job)
      PROVE  eff' = eff /\ day' = day
  BY <1>3 DEF RetryStart, store
<1>4. CASE Crash(q)
  BY <1>4 DEF Crash, store
<1> QED BY <1>1, <1>2, <1>3, <1>4 DEF Command

(* Only a correction leaves a version to insert.                            *)
NewInsert(p) == proc'[p].at = "insert" /\ proc'[p] # proc[p]

LEMMA NoneInserts ==
    ASSUME IInv, NEW p \in Procs, NEW q \in Procs,
           Command(q) \/ (Continue(q) /\ ~ Correct(q)) \/ Crash(q)
    PROVE  ~ NewInsert(p)
<1>1. proc \in [Procs -> Process] /\ proc[q] \in Process
  BY InProcess DEF IInv, ProcsOK
<1>2. CASE Leave(q)
  BY <1>1, <1>2, IdleType DEF Leave, NewInsert
<1>4. CASE ScanStart(q) \/ NavStart(q) \/ NavScan(q) \/ ScanHoldings(q) \/ NavGate(q) \/ RecordNav(q)
  BY <1>1, <1>4, IdleType
     DEF ScanStart, NavStart, NavScan, ScanHoldings, NavGate, RecordNav, Goto, NewInsert, Process
<1>5. CASE CommitScan(q)
  BY <1>1, <1>5, IdleType DEF CommitScan, NewInsert, Process
<1>6. ASSUME NEW r \in Records, PreviewStart(q, r) \/ ConfirmStart(q, r) \/ AuditStart(q, r)
      PROVE  ~ NewInsert(p)
  BY <1>1, <1>6 DEF PreviewStart, ConfirmStart, AuditStart, NewInsert, Process
<1>7. ASSUME NEW r \in Records, NEW job, NEW n, RetryStart(q, r, n, job) PROVE ~ NewInsert(p)
  BY <1>1, <1>7 DEF RetryStart, NewInsert, Process
<1>8. CASE ReadSource(q) \/ Insert(q) \/ PreviewBuild(q) \/ PreviewSave(q)
  BY <1>1, <1>2, <1>8 DEF ReadSource, Insert, PreviewBuild, PreviewSave, Goto, NewInsert, Process
<1>10. CASE ConfirmBuild(q) \/ ConfirmRecordOnly(q) \/ ConfirmApplying(q)
  BY <1>1, <1>2, <1>10 DEF ConfirmBuild, ConfirmRecordOnly, ConfirmApplying, Goto, NewInsert, Process
<1>11. CASE WriteTarget(q) \/ PutTarget(q) \/ ReadBack(q) \/ RecordTask(q)
  BY <1>1, <1>11 DEF WriteTarget, PutTarget, ReadBack, RecordTask, Goto, NewInsert, Process
<1>12. CASE ConfirmPending(q) \/ ConfirmPrinted(q) \/ ConfirmApplied(q) \/ FinalizeApplied(q)
  BY <1>1, <1>2, <1>12
     DEF ConfirmPending, ConfirmPrinted, ConfirmApplied, FinalizeApplied, MarkApplied, Goto, NewInsert, Process
<1>13. CASE RetryTarget(q) \/ RetryBase(q) \/ RetryPut(q) \/ RetryRead(q)
  <2>1. CASE \E y : /\ proc' = [proc EXCEPT ![q] = y] /\ lock' = lock
                   /\ y.at \in Rewrites \cup {"rt_resolve"}
    BY <1>1, <2>1 DEF NewInsert, Rewrites
  <2> QED BY <1>2, <1>13, <2>1, RewritingGoes DEF Rewriting
<1>14. CASE FinalizePrints(q)
  <2>1. Leave(q) \/ Goto(q, "rt_applied")
    BY <1>14 DEF FinalizePrints
  <2> QED BY <1>1, <1>2, <2>1 DEF Goto, NewInsert, Process
<1>15. CASE RetryResolve(q)
  <2>1. \/ proc' = [proc EXCEPT ![q] = Idle]
        \/ proc' = [proc EXCEPT ![q] = [proc[q] EXCEPT !.at = "rt_prints"]]
    BY <1>15 DEF RetryResolve
  <2> QED BY <1>1, <2>1, IdleType DEF NewInsert, Process
<1> QED BY <1>2, <1>4, <1>5, <1>6, <1>7, <1>8, <1>10, <1>11, <1>12, <1>13, <1>14, <1>15
        DEF Command, Continue, Crash

LEMMA CorrectInserts ==
    ASSUME Dateless, IInv, NoneScheduled, NEW q \in Procs, Correct(q)
    PROVE  \A p \in Procs : proc'[p].at = "insert" => proc'[p].new.state # "scheduled"
<1>1. proc \in [Procs -> Process] /\ proc[q] \in Process
  BY InProcess DEF IInv, ProcsOK
<1>2. CASE Leave(q)
  BY <1>1, <1>2, IdleType DEF Leave, NoneScheduled
<1>3. CASE ~ Leave(q)
  <2>1. PICK vs, n, seen : vs = eff[proc[q].r] /\ n = proc[q].n /\ seen = proc[q].seen
    OBVIOUS
  <2>2. PICK row : row = proc[q].row /\ row \in Flows \cup {None}
    BY <1>1 DEF Process
  <2>3. PICK w : w = Correction(vs, n, seen, row, day)
    OBVIOUS
  <2>4. w.state = "pending"
    BY <2>2, <2>3, CorrectionPending
  <2>5. PICK y : y = [Idle EXCEPT !.at = "insert", !.r = proc[q].r, !.n = Len(vs),
                                  !.seen = Latest(vs).state, !.new = w]
    OBVIOUS
  <2>6. proc' = [proc EXCEPT ![q] = y]
    BY <1>3, <2>1, <2>2, <2>3, <2>5 DEF Correct
  <2>7. y.new = w
    BY <2>5 DEF Idle
  <2> QED BY <1>1, <2>4, <2>6, <2>7 DEF NoneScheduled
<1> QED BY <1>2, <1>3

LEMMA UnscheduledNext ==
    ASSUME Dateless, IInv, NoneScheduled, [Next]_vars
    PROVE  NoneScheduled'
<1>1. CASE People \/ DayPasses \/ UNCHANGED vars
  <2>1. UNCHANGED <<eff, proc>>
    BY <1>1 DEF People, DayPasses, EditFlow, TypeIn, Trade, store, vars
  <2> QED BY <2>1 DEF NoneScheduled
<1>2. ASSUME NEW q \in Procs, Command(q) \/ Continue(q) \/ Crash(q) PROVE NoneScheduled'
  <2>1. \A p \in Procs : proc'[p].at = "insert" => proc'[p].new.state # "scheduled"
    <3>1. CASE Correct(q)
      BY <3>1, CorrectInserts
    <3>2. CASE ~ Correct(q)
      <4> SUFFICES ASSUME NEW p \in Procs, proc'[p].at = "insert" PROVE proc'[p].new.state # "scheduled"
        OBVIOUS
      <4>1. proc'[p] = proc[p]
        BY <1>2, <3>2, NoneInserts DEF NewInsert
      <4> QED BY <4>1 DEF NoneScheduled
    <3> QED BY <3>1, <3>2
  <2>2. \A r \in Records : Unscheduled(eff'[r])
    <3>1. CASE eff' = eff
      BY <3>1, UnscheduledStore
    <3>2. CASE CommitScan(q) \/ Insert(q)
      BY <3>2, UnscheduledCommit, UnscheduledInsert
    <3>3. CASE \/ PreviewSave(q) \/ ConfirmBuild(q) \/ ConfirmRecordOnly(q) \/ ConfirmApplying(q)
               \/ RecordTask(q) \/ ConfirmPending(q) \/ ConfirmApplied(q)
               \/ RetryResolve(q) \/ FinalizeApplied(q)
      BY <3>3, UnscheduledPlaces
    <3>4. CASE \/ Command(q) \/ Crash(q)
               \/ NavScan(q) \/ ScanHoldings(q) \/ NavGate(q) \/ RecordNav(q) \/ ReadSource(q) \/ Correct(q)
               \/ PreviewBuild(q) \/ WriteTarget(q) \/ PutTarget(q) \/ ReadBack(q)
               \/ ConfirmPrinted(q) \/ Rewriting(q) \/ FinalizePrints(q)
      <4>1. CASE Command(q) \/ Crash(q)
        BY <3>1, <4>1, CommandStore
      <4>2. CASE NavScan(q) \/ ScanHoldings(q) \/ NavGate(q) \/ RecordNav(q) \/ ReadSource(q) \/ Correct(q)
        BY <3>1, <4>2 DEF NavScan, ScanHoldings, NavGate, RecordNav, ReadSource, Correct, store
      <4>3. CASE PreviewBuild(q) \/ WriteTarget(q) \/ PutTarget(q) \/ ReadBack(q)
        BY <3>1, <4>3 DEF PreviewBuild, WriteTarget, PutTarget, ReadBack, store
      <4>4. CASE ConfirmPrinted(q) \/ Rewriting(q) \/ FinalizePrints(q)
        BY <3>1, <4>4, RewritingGoes DEF ConfirmPrinted, ConfirmPrints, FinalizePrints, store
      <4> QED BY <3>4, <4>1, <4>2, <4>3, <4>4
    <3> QED BY <1>2, <3>2, <3>3, <3>4 DEF Continue, Rewriting
  <2> QED BY <2>1, <2>2 DEF NoneScheduled
<1> QED BY <1>1, <1>2 DEF Next

(* A date that has come does not go.                                        *)
LEMMA DateStays ==
    ASSUME [Next]_vars, day # "before"
    PROVE  day' # "before"
<1>1. CASE People \/ DayPasses \/ UNCHANGED vars
  BY <1>1 DEF People, DayPasses, EditFlow, TypeIn, Trade, vars
<1>2. ASSUME NEW q \in Procs, Command(q) \/ Crash(q) PROVE day' = day
  BY <1>2, CommandStore
<1>3. ASSUME NEW q \in Procs, Continue(q) PROVE day' = day
  <2>1. CASE NavScan(q) \/ ScanHoldings(q) \/ CommitScan(q) \/ NavGate(q) \/ RecordNav(q)
    BY <2>1 DEF NavScan, ScanHoldings, CommitScan, NavGate, RecordNav
  <2>2. CASE ReadSource(q) \/ Correct(q) \/ Insert(q) \/ PreviewBuild(q) \/ PreviewSave(q)
    BY <2>2 DEF ReadSource, Correct, Insert, PreviewBuild, PreviewSave
  <2>3. CASE \/ ConfirmBuild(q) \/ ConfirmRecordOnly(q) \/ ConfirmApplying(q)
             \/ RecordTask(q) \/ ConfirmPending(q)
    BY <2>3 DEF ConfirmBuild, ConfirmRecordOnly, ConfirmApplying, RecordTask, ConfirmPending
  <2>4. CASE WriteTarget(q) \/ PutTarget(q) \/ ReadBack(q) \/ ConfirmPrinted(q)
    BY <2>4 DEF WriteTarget, PutTarget, ReadBack, ConfirmPrinted, ConfirmPrints
  <2>5. CASE \/ ConfirmApplied(q) \/ FinalizeApplied(q)
             \/ RetryTarget(q) \/ RetryBase(q) \/ RetryPut(q) \/ RetryRead(q)
             \/ RetryResolve(q) \/ FinalizePrints(q)
    BY <2>5 DEF ConfirmApplied, FinalizeApplied, MarkApplied, RetryTarget, RetryBase, RetryPut,
                RetryRead, RetryResolve, FinalizePrints, ConfirmPrints
  <2> QED BY <1>3, <2>1, <2>2, <2>3, <2>4, <2>5 DEF Continue
<1> QED BY <1>1, <1>2, <1>3 DEF Next

-----------------------------------------------------------------------------
(* The gate evaluates without a lock, and yet it lets no NAV run through    *)
(* while a confirm is between its first and its last write: the version     *)
(* the confirm works on may be superseded under it by a preview that found  *)
(* the row edited, but what replaces it blocks just as well, unless it is   *)
(* dated to a day that has not come.  Where rows are dated so before their  *)
(* day, the gate does let a run through.                                    *)
LEMMA GateInit == Init => GateInv
<1> SUFFICES ASSUME Init PROVE GateInv
  OBVIOUS
<1>1. \A p \in Procs : proc[p].at = "idle"
  BY IdleType DEF Init
<1> QED BY <1>1 DEF GateInv, ScannersHold, WritersOpen, HoldsScanner, Confirms, Writes, Applying

THEOREM GateBlocks == DatesHaveCome => (Spec => GateBlocksWhileApplying)
<1> SUFFICES ASSUME DatesHaveCome PROVE Spec => GateBlocksWhileApplying
  OBVIOUS
<1> DEFINE Waits == IF FirstDay # "before" THEN day # "before" ELSE NoneScheduled
           Inv   == IInv /\ GateInv /\ Waits
<1>1. Init => Inv
  <2> SUFFICES ASSUME Init PROVE Waits
    BY InitOK, GateInit
  <2>1. FirstDay # "before" => day # "before"
    BY DEF Init
  <2>2. NoneScheduled
    BY IdleType DEF Init, NoneScheduled, Unscheduled
  <2> QED BY <2>1, <2>2
<1>2. Inv /\ [Next]_vars => Inv'
  <2> SUFFICES ASSUME Inv, [Next]_vars PROVE Inv'
    OBVIOUS
  <2>1. IInv' /\ GateInv'
    BY NextOK, GateNext
  <2>2. FirstDay = "before" => NoneScheduled'
    BY UnscheduledNext DEF DatesHaveCome, Dateless
  <2>3. day # "before" => day' # "before"
    BY DateStays
  <2> QED BY <2>1, <2>2, <2>3
<1>3. Inv /\ [Next]_vars => \A p \in Procs :
         proc[p].at = "nav_gate" /\ proc'[p].at = "nav_record" => Applying = {}
  <2> SUFFICES ASSUME Inv, [Next]_vars, NEW p \in Procs,
                      proc[p].at = "nav_gate" /\ proc'[p].at = "nav_record"
               PROVE  Applying = {}
    OBVIOUS
  <2>1. NoneWaits
    BY LatestAt DEF NoneWaits, NoneScheduled, Unscheduled
  <2> QED BY <2>1, GateHolds DEF SentOn
<1> HIDE DEF Inv
<1> QED BY <1>1, <1>2, <1>3, PTL DEF Spec, GateBlocksWhileApplying
=============================================================================
