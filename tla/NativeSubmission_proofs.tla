---------------------- MODULE NativeSubmission_proofs ----------------------
(***************************************************************************)
(* That an operation's machine is started once, that a worker goes on with *)
(* the mesh of its own payload, and that nothing is released unread.  The  *)
(* argument: an inserted claim is never free again and keeps its payload,  *)
(* one worker at most is between the insert and the start, and whoever     *)
(* waits, waits for an operation whose claim carries its own payload.      *)
(***************************************************************************)
EXTENDS NativeSubmission, TLAPS

Starting == {"acquired", "uploading", "uploaded"}

ClaimsInv ==
  \A k \in Key : /\ claim[k].state = "none" => starts[k] = 0
                 /\ input[k] \in {None, claim[k].payload}

UnclaimedIsEmpty == \A k \in Key : claim[k].state = "none" => input[k] = None

StartingInv ==
  /\ \A w \in Worker :
       worker[w].at \in Starting =>
         /\ gen[w] \in Key
         /\ claim[gen[w]].state # "none"
         /\ claim[gen[w]].payload = payload[w]
         /\ starts[gen[w]] = 0
  /\ \A w, v \in Worker :
       worker[w].at \in Starting /\ worker[v].at \in Starting /\ w # v
         => gen[w] # gen[v]

WaitsRight(w) ==
  /\ worker[w].at # "absent" => gen[w] \in Key
  /\ worker[w].at = "absent" => worker[w].brought = None
  /\ worker[w].at \in Waits =>
       /\ worker[w].key \in Key
       /\ claim[worker[w].key].state # "none"
       /\ claim[worker[w].key].payload = payload[w]
  /\ worker[w].at = "uploaded" => worker[w].key = gen[w]
  /\ worker[w].at = "home" => worker[w].key \in home

WaitingInv == \A w \in Worker : WaitsRight(w)

NativeInv ==
  /\ NativeTypeOK /\ ClaimsInv /\ UnclaimedIsEmpty /\ StartingInv /\ WaitingInv
  /\ StartedOnce /\ BringsItsOwnMesh /\ KeptUntilHome

\* A step of a worker that leaves the claims, the exchanges and the machines'
\* starts alone, and takes it nowhere it has not earned (Gone, Abandon, Die).
LEMMA WorkerMoves ==
  ASSUME NativeInv, NEW w \in Worker, NEW to \in Place, Goes(w, to),
         worker[w].at # "absent", to # "absent",
         to \in Starting => worker[w].at \in Starting /\ to # "uploaded",
         to \in Waits => worker[w].at \in Waits /\ to # "home",
         UNCHANGED <<payload, gen, claim, input, exchange, starts, home>>,
         NativeTypeOK'
  PROVE  NativeInv'
<1>1. ClaimsInv' /\ UnclaimedIsEmpty' /\ StartedOnce' /\ KeptUntilHome'
  BY DEF NativeInv, ClaimsInv, UnclaimedIsEmpty, StartedOnce, KeptUntilHome
<1>2. /\ \A v \in Worker : v # w => worker'[v] = worker[v]
      /\ worker'[w].at = to
      /\ to \in Waits => worker'[w].key = worker[w].key
      /\ worker'[w].brought = worker[w].brought
  BY DEF NativeInv, NativeTypeOK, Goes
<1>3. StartingInv' BY <1>1, <1>2 DEF NativeInv, StartingInv
<1>4. WaitingInv'
  <2> SUFFICES ASSUME NEW v \in Worker PROVE WaitsRight(v)'
    BY DEF WaitingInv
  <2>1. CASE v # w BY <1>2, <2>1 DEF NativeInv, WaitingInv, WaitsRight
  <2>2. CASE v = w
    <3>1. to # "home" /\ to # "uploaded"
      BY DEF Waits, Place, Recorded, Starting
    <3> QED BY <1>2, <2>2, <3>1 DEF NativeInv, WaitingInv, WaitsRight
  <2> QED BY <2>1, <2>2
<1>5. BringsItsOwnMesh' BY <1>2 DEF NativeInv, BringsItsOwnMesh
<1> QED BY <1>1, <1>3, <1>4, <1>5 DEF NativeInv

\* A step of the job, the sweep or a machine changes no worker, claim or input.
LEMMA OthersMove ==
  ASSUME NativeInv,
         UNCHANGED <<payload, gen, claim, worker, input, starts, home>>,
         \A k \in Key : exchange'[k] \in {"deleted", "hollow"}
                          => exchange[k] \in {"deleted", "hollow"},
         NativeTypeOK'
  PROVE  NativeInv'
BY DEF NativeInv, ClaimsInv, UnclaimedIsEmpty, StartingInv, WaitingInv, WaitsRight,
       StartedOnce, BringsItsOwnMesh, KeptUntilHome

\* The rest of a step's types, once its worker's is known.
LEMMA GoesTyped ==
  ASSUME NativeTypeOK, NEW w \in Worker, NEW to \in Place, Goes(w, to)
  PROVE  worker' \in [Worker -> [at : Place, key : 0..MaxWorkers,
                                 mine : BOOLEAN, brought : Payload \cup {None}]]
<1>1. worker[w] \in [at : Place, key : 0..MaxWorkers, mine : BOOLEAN,
                    brought : Payload \cup {None}]
  BY DEF NativeTypeOK
<1>2. [at |-> to, key |-> 0, mine |-> FALSE, brought |-> worker[w].brought]
        \in [at : Place, key : 0..MaxWorkers, mine : BOOLEAN,
             brought : Payload \cup {None}]
  BY <1>1, SubmissionAssumption
<1>3. [worker[w] EXCEPT !.at = to]
        \in [at : Place, key : 0..MaxWorkers, mine : BOOLEAN,
             brought : Payload \cup {None}]
  BY <1>1
<1> QED BY <1>2, <1>3 DEF NativeTypeOK, Goes

\* What a worker that ends its wait records, or does instead (_exchange).
LEMMA OutcomeEnds ==
  ASSUME NEW w \in Worker, NEW b \in BOOLEAN
  PROVE  Outcome(w, b) \in Place \ (Starting \cup Waits \cup {"absent"})
BY DEF Outcome, Place, Recorded, Waits, Starting

\* Types of the machine's variables when it may have been deleted (_stop).
LEMMA EndedTyped ==
  ASSUME NativeTypeOK, NEW k \in Key,
         Ended(k) \/ UNCHANGED machine
  PROVE  machine' \in [Key -> {"none", "booting", "working", "stopped", "gone"}]
BY DEF NativeTypeOK, Ended

\* The job's own steps, the machines' and the sweep's.
LEMMA OthersKept ==
  ASSUME NativeInv,
         \/ Cancel \/ Reap
         \/ \E k \in Key : \/ Machine(k)
                           \/ \E b \in BOOLEAN : SweepJudges(k, b)
                                                   \/ SweepDeletes(k, b)
  PROVE  NativeInv'
<1> USE DEF NativeInv, jobVars, runVars, remoteVars, pastVars
<1>1. CASE Cancel
  BY <1>1, OthersMove, SubmissionAssumption DEF Cancel, NativeTypeOK
<1>2. CASE Reap
  BY <1>2, OthersMove DEF Reap, NativeTypeOK
<1>3. ASSUME NEW k \in Key, Machine(k) PROVE NativeInv'
  <2> USE DEF MachineOnly, Becomes
  <2>1. CASE Boots(k) BY <2>1, OthersMove DEF Boots, NativeTypeOK
  <2>2. CASE Returns(k) BY <2>2, OthersMove DEF Returns, NativeTypeOK
  <2>3. CASE Ends(k) BY <2>3, OthersMove DEF Ends, NativeTypeOK
  <2>4. CASE FallsSilent(k) BY <2>4, OthersMove DEF FallsSilent, NativeTypeOK
  <2>5. CASE Ages(k) BY <2>5, OthersMove DEF Ages, NativeTypeOK
  <2> QED BY <1>3, <2>1, <2>2, <2>3, <2>4, <2>5 DEF Machine
<1>4. ASSUME NEW k \in Key, NEW b \in BOOLEAN, SweepJudges(k, b)
      PROVE  NativeInv'
  <2>1. sweep' \in 0..MaxWorkers /\ misjudged' \subseteq Key
    BY <1>4, SubmissionAssumption DEF SweepJudges, NativeTypeOK, Key, Worker
  <2>2. NativeTypeOK' BY <1>4, <2>1 DEF SweepJudges, NativeTypeOK
  <2> QED BY <1>4, <2>2, OthersMove DEF SweepJudges
<1>5. ASSUME NEW k \in Key, NEW b \in BOOLEAN, SweepDeletes(k, b)
      PROVE  NativeInv'
  <2>1. machine' \in [Key -> {"none", "booting", "working", "stopped", "gone"}]
    BY <1>5, EndedTyped DEF SweepDeletes
  <2> QED
    BY <1>5, <2>1, OthersMove, SubmissionAssumption
       DEF SweepDeletes, NativeTypeOK
<1> QED BY <1>1, <1>2, <1>3, <1>4, <1>5

\* Await: the polls, the ways out of the wait, the collection and the release.
LEMMA AwaitKept ==
  ASSUME NativeInv, NEW w \in Worker, Await(w)
  PROVE  NativeInv'
<1> USE DEF NativeInv, jobVars, runVars, remoteVars, pastVars
<1>w. worker[w].at \in Waits => worker[w].key \in Key
  BY DEF WaitingInv, WaitsRight
<1>o. \A b \in BOOLEAN :
        Outcome(w, b) \in Place \ (Starting \cup Waits \cup {"absent"})
  BY OutcomeEnds
<1>p. /\ {"waiting", "stopping", "timing out", "collecting", "home"} \subseteq Waits
      /\ Waits \subseteq Place
      /\ "indeterminate" \in Place \ (Starting \cup Waits \cup {"absent"})
      /\ "uploaded" \in Waits
  BY DEF Waits, Place, Recorded, Starting
<1>1. CASE SeeResult(w)
  <2>1. Goes(w, "collecting") /\ worker[w].at = "waiting"
    BY <1>1 DEF SeeResult
  <2>2. NativeTypeOK'
    BY <1>1, <2>1, <1>p, GoesTyped DEF SeeResult, NativeTypeOK
  <2> QED
    BY <1>1, <2>1, <2>2, <1>p, WorkerMoves DEF SeeResult, Starting
<1>2. CASE Gone(w)
  <2>1. PICK to \in Place \ (Starting \cup {"absent", "home"}) :
          Goes(w, to) /\ worker[w].at = "waiting"
    BY <1>2, <1>o, <1>p DEF Gone, NoResult, GivesUp, Starting
  <2>2. NativeTypeOK'
    BY <1>2, <2>1, GoesTyped DEF Gone, NativeTypeOK
  <2> QED
    BY <1>2, <2>1, <2>2, <1>p, WorkerMoves DEF Gone, Starting
<1>3. ASSUME NEW b \in BOOLEAN, NeverHeard(w, b) PROVE NativeInv'
  <2>1. PICK to \in Place \ (Starting \cup {"absent", "home"}) :
          Goes(w, to) /\ worker[w].at = "waiting"
    BY <1>3, <1>o, <1>p DEF NeverHeard, NoResult, GivesUp, Starting
  <2>2. NativeTypeOK'
    BY <1>3, <2>1, <1>w, <1>p, GoesTyped DEF NeverHeard, NativeTypeOK
  <2> QED
    BY <1>3, <2>1, <2>2, <1>p, WorkerMoves DEF NeverHeard, Starting
<1>4. ASSUME NEW b \in BOOLEAN, Abandon(w, b) PROVE NativeInv'
  <2>1. PICK to \in Place \ (Starting \cup {"absent", "home"}) :
          Goes(w, to) /\ worker[w].at \in {"uploaded", "waiting"}
    BY <1>4, <1>o, <1>p DEF Abandon, Starting
  <2>2. NativeTypeOK'
    BY <1>4, <2>1, GoesTyped DEF Abandon, NativeTypeOK
  <2> QED
    BY <1>4, <2>1, <2>2, <1>p, WorkerMoves DEF Abandon, Starting
<1>5. ASSUME NEW b \in BOOLEAN, Stop(w, b) PROVE NativeInv'
  <2>1. PICK to \in Place \ (Starting \cup Waits \cup {"absent"}) :
          Goes(w, to) /\ worker[w].at \in {"stopping", "timing out"}
    BY <1>5, <1>o DEF Stop
  <2>2. machine' \in [Key -> {"none", "booting", "working", "stopped", "gone"}]
    BY <1>5, <2>1, <1>w, <1>p, EndedTyped DEF Stop
  <2>3. NativeTypeOK'
    BY <1>5, <2>1, <2>2, GoesTyped DEF Stop, NativeTypeOK
  <2> QED
    BY <1>5, <2>1, <2>3, <1>p, WorkerMoves DEF Stop
<1>6. ASSUME NEW b \in BOOLEAN, Leave(w, b) PROVE NativeInv'
  <2>1. PICK to \in Place \ (Starting \cup Waits \cup {"absent"}) :
          Goes(w, to) /\ worker[w].at = "home"
    BY <1>6, <1>o DEF Leave
  <2>2. NativeTypeOK'
    BY <1>6, <2>1, GoesTyped DEF Leave, NativeTypeOK
  <2> QED
    BY <1>6, <2>1, <2>2, <1>p, WorkerMoves DEF Leave
<1>7. ASSUME NEW whole \in BOOLEAN, NEW b \in BOOLEAN, Collect(w, whole, b)
      PROVE  NativeInv'
  <2>1. machine' \in [Key -> {"none", "booting", "working", "stopped", "gone"}]
    BY <1>7, <1>w, <1>p, EndedTyped DEF Collect
  <2>2. CASE ~whole
    <3>1. PICK to \in Place \ (Starting \cup Waits \cup {"absent"}) :
            Goes(w, to) /\ worker[w].at = "collecting" /\ UNCHANGED home
      BY <1>7, <2>2, <1>o DEF Collect, Bring
    <3>2. NativeTypeOK'
      BY <1>7, <2>1, <3>1, GoesTyped DEF Collect, NativeTypeOK
    <3> QED
      BY <1>7, <3>1, <3>2, <1>p, WorkerMoves DEF Collect
  <2>3. CASE whole
    <3> DEFINE k == worker[w].key
    <3>1. /\ k \in Key /\ worker[w].at = "collecting" /\ home' = home \cup {k}
          /\ worker' = [worker EXCEPT ![w].at = "home", ![w].brought = input[k]]
      BY <1>7, <2>3, <1>w, <1>p DEF Collect, Bring
    <3>2. input[k] \in {None, payload[w]}
      BY <3>1, <1>p DEF ClaimsInv, WaitingInv, WaitsRight
    <3>3. NativeTypeOK'
      <4>1. input[k] \in Payload \cup {None}
        BY <3>1 DEF NativeTypeOK
      <4>2. [worker[w] EXCEPT !.at = "home", !.brought = input[k]]
              \in [at : Place, key : 0..MaxWorkers, mine : BOOLEAN,
                   brought : Payload \cup {None}]
        <5>1. "home" \in Place BY <1>p
        <5>2. worker[w] \in [at : Place, key : 0..MaxWorkers, mine : BOOLEAN,
                            brought : Payload \cup {None}]
          BY DEF NativeTypeOK
        <5> QED BY <4>1, <5>1, <5>2
      <4>3. worker' = [worker EXCEPT ![w] =
                         [worker[w] EXCEPT !.at = "home", !.brought = input[k]]]
        BY <3>1 DEF NativeTypeOK
      <4> QED BY <1>7, <2>1, <3>1, <4>2, <4>3 DEF Collect, NativeTypeOK
    <3>4. /\ \A v \in Worker : v # w => worker'[v] = worker[v]
          /\ worker'[w].at = "home" /\ worker'[w].key = k
          /\ worker'[w].brought = input[k]
      BY <3>1 DEF NativeTypeOK
    <3>5. ClaimsInv' /\ UnclaimedIsEmpty' /\ StartedOnce' /\ KeptUntilHome'
      BY <1>7, <3>1 DEF Collect, ClaimsInv, UnclaimedIsEmpty, StartedOnce, KeptUntilHome
    <3>6. StartingInv'
      BY <1>7, <3>4 DEF Collect, StartingInv, Starting
    <3>7. WaitingInv'
      <4>u. UNCHANGED <<payload, gen, claim>>
        BY <1>7 DEF Collect
      <4>h. home \subseteq home' /\ k \in home' /\ worker[w].at = "collecting"
        BY <3>1
      <4> SUFFICES ASSUME NEW v \in Worker PROVE WaitsRight(v)'
        BY DEF WaitingInv
      <4>1. WaitsRight(v) BY DEF WaitingInv
      <4>2. CASE v # w
        BY <4>u, <4>h, <3>4, <4>1, <4>2 DEF WaitsRight
      <4>3. CASE v = w
        BY <4>u, <4>h, <3>4, <4>1, <4>3, <1>p DEF WaitsRight
      <4> QED BY <4>2, <4>3
    <3>8. BringsItsOwnMesh'
      BY <1>7, <3>2, <3>4 DEF Collect, BringsItsOwnMesh
    <3> QED BY <3>3, <3>5, <3>6, <3>7, <3>8
  <2> QED BY <2>2, <2>3
<1>8. ASSUME NEW to \in {"deleted", "hollow", "result"}, Release(w, to)
      PROVE  NativeInv'
  <2>1. PICK pl \in Place \ (Starting \cup Waits \cup {"absent"}) :
          Goes(w, pl) /\ worker[w].at = "home"
    BY <1>8, <1>o DEF Release
  <2>2. NativeTypeOK'
    BY <1>8, <2>1, GoesTyped DEF Release, NativeTypeOK
  <2>3. /\ \A v \in Worker : v # w => worker'[v] = worker[v]
        /\ worker'[w].at = pl /\ worker'[w].brought = worker[w].brought
    BY <2>1 DEF NativeTypeOK, Goes
  <2>4. worker[w].key \in home
    BY <2>1 DEF WaitingInv, WaitsRight
  <2>5. ClaimsInv' /\ UnclaimedIsEmpty' /\ StartedOnce' /\ KeptUntilHome'
    BY <1>8, <2>4 DEF Release, ClaimsInv, UnclaimedIsEmpty, StartedOnce, KeptUntilHome, NativeTypeOK
  <2>6. StartingInv'
    BY <1>8, <2>1, <2>3 DEF Release, StartingInv
  <2>7. WaitingInv'
    BY <1>8, <2>1, <2>3, <1>p DEF Release, WaitingInv, WaitsRight
  <2>8. BringsItsOwnMesh'
    BY <1>8, <2>3 DEF Release, BringsItsOwnMesh
  <2> QED BY <2>2, <2>5, <2>6, <2>7, <2>8
<1> QED
  BY <1>1, <1>2, <1>3, <1>4, <1>5, <1>6, <1>7, <1>8 DEF Await, Poll

\* A step that takes one worker out of its start, or into a wait, and at most
\* counts the start (Start, Adopt).
LEMMA WorkerStands ==
  ASSUME NativeInv, NEW w \in Worker,
         \A v \in Worker : v # w => worker'[v] = worker[v],
         worker'[w].brought = worker[w].brought,
         worker'[w].at \notin Starting,
         WaitsRight(w)',
         UNCHANGED <<payload, gen, claim, input, exchange, home>>,
         \A j \in Key : /\ starts'[j] <= 1
                        /\ claim[j].state = "none" => starts'[j] = 0,
         \A v \in Worker : v # w /\ worker[v].at \in Starting
                             => starts'[gen[v]] = 0,
         NativeTypeOK'
  PROVE  NativeInv'
<1>1. ClaimsInv' /\ UnclaimedIsEmpty' /\ StartedOnce' /\ KeptUntilHome'
  <2>1. ClaimsInv' BY DEF NativeInv, ClaimsInv
  <2>2. UnclaimedIsEmpty' BY DEF NativeInv, UnclaimedIsEmpty
  <2>3. StartedOnce' BY DEF StartedOnce
  <2>4. KeptUntilHome' BY DEF NativeInv, KeptUntilHome
  <2> QED BY <2>1, <2>2, <2>3, <2>4
<1>2. StartingInv' BY DEF NativeInv, StartingInv
<1>3. WaitingInv'
  <2> SUFFICES ASSUME NEW v \in Worker PROVE WaitsRight(v)' BY DEF WaitingInv
  <2>1. CASE v # w BY <2>1 DEF NativeInv, WaitingInv, WaitsRight
  <2> QED BY <2>1
<1>4. BringsItsOwnMesh' BY DEF NativeInv, BringsItsOwnMesh
<1> QED BY <1>1, <1>2, <1>3, <1>4 DEF NativeInv

\* A worker begins to wait for a run of its own payload (Start, _adopt, replay).
LEMMA WorkerWaits ==
  ASSUME NativeInv, NEW w \in Worker, NEW k \in Key, NEW mine \in BOOLEAN,
         WaitsFor(w, k, mine), worker[w].at # "absent",
         claim[k].state # "none", claim[k].payload = payload[w],
         UNCHANGED <<jobVars, claim, input, exchange, beacon, aged, sweep, pastVars>>,
         starts' \in [Key -> Nat],
         machine' \in [Key -> {"none", "booting", "working", "stopped", "gone"}],
         \A j \in Key : /\ starts'[j] <= 1
                        /\ claim[j].state = "none" => starts'[j] = 0,
         \A v \in Worker : v # w /\ worker[v].at \in Starting
                             => starts'[gen[v]] = 0
  PROVE  NativeInv'
<1> DEFINE now == [worker[w] EXCEPT !.at = "waiting", !.key = k, !.mine = mine]
<1>1. worker[w] \in [at : Place, key : 0..MaxWorkers, mine : BOOLEAN,
                    brought : Payload \cup {None}]
  BY DEF NativeInv, NativeTypeOK
<1>2. "waiting" \in Waits /\ "waiting" \in Place /\ "waiting" \notin Starting
  BY DEF Waits, Place, Recorded, Starting
<1>3. now \in [at : Place, key : 0..MaxWorkers, mine : BOOLEAN,
              brought : Payload \cup {None}]
  <2>1. k \in 0..MaxWorkers BY SubmissionAssumption DEF Key, Worker
  <2> QED BY <1>1, <1>2, <2>1
<1>4. /\ now.at = "waiting" /\ now.key = k /\ now.brought = worker[w].brought
      /\ worker' = [worker EXCEPT ![w] = now]
  BY <1>1 DEF WaitsFor, NativeInv, NativeTypeOK
<1> HIDE DEF now
<1>5. /\ worker'[w] = now
      /\ \A v \in Worker : v # w => worker'[v] = worker[v]
  BY <1>4 DEF NativeInv, NativeTypeOK
<1>6. NativeTypeOK'
  BY <1>3, <1>4 DEF NativeInv, NativeTypeOK, jobVars, pastVars
<1>7. WaitsRight(w)'
  BY <1>2, <1>4, <1>5 DEF NativeInv, WaitingInv, WaitsRight, jobVars, pastVars
<1> QED
  BY <1>2, <1>4, <1>5, <1>6, <1>7, WorkerStands DEF jobVars, pastVars

\* Submit: the claim of the job, of the operation, the start and the record.
LEMMA SubmitKept ==
  ASSUME NativeInv, NEW w \in Worker, Submit(w)
  PROVE  NativeInv'
<1> USE DEF NativeInv, jobVars, runVars, remoteVars, pastVars
<1>p. /\ {"uploaded", "waiting"} \subseteq Waits
      /\ {"absent", "claiming", "acquired", "uploading", "over"} \cup Waits
           \cup Recorded \subseteq Place
      /\ "over" \notin Starting \cup Waits
      /\ Recorded \cap (Starting \cup Waits \cup {"absent"}) = {}
      /\ {"absent", "claiming", "acquired", "uploading"} \cap Waits = {}
  BY DEF Waits, Place, Recorded, Starting
<1>q. {"failed", "indeterminate"} \subseteq Recorded
  BY DEF Recorded
<1>r. worker[w] \in [at : Place, key : 0..MaxWorkers, mine : BOOLEAN,
                    brought : Payload \cup {None}]
  BY DEF NativeTypeOK
<1>s. WaitsRight(w) BY DEF WaitingInv
<1>1. CASE Die(w)
  <2>1. Goes(w, "over") /\ worker[w].at # "absent"
    BY <1>1 DEF Die
  <2>2. NativeTypeOK'
    BY <1>1, <2>1, <1>p, GoesTyped DEF Die, NativeTypeOK
  <2> QED BY <1>1, <2>1, <2>2, <1>p, WorkerMoves DEF Die
<1>2. CASE UploadFails(w)
  <2>1. PICK to \in Recorded : Goes(w, to) /\ worker[w].at = "uploading"
    BY <1>2, <1>q DEF UploadFails
  <2>2. NativeTypeOK'
    BY <1>2, <2>1, <1>p, GoesTyped DEF UploadFails, NativeTypeOK
  <2> QED BY <1>2, <2>1, <2>2, <1>p, WorkerMoves DEF UploadFails
<1>3. CASE StartFails(w)
  <2>1. Goes(w, "indeterminate") /\ worker[w].at = "uploaded"
    BY <1>3 DEF StartFails
  <2>2. NativeTypeOK'
    BY <1>3, <2>1, <1>p, <1>q, GoesTyped DEF StartFails, NativeTypeOK
  <2> QED BY <1>3, <2>1, <2>2, <1>p, <1>q, WorkerMoves DEF StartFails
<1>4. ASSUME NEW g \in Key, NEW p \in Payload, Takes(w, g, p)
      PROVE  NativeInv'
  <2>1. /\ Goes(w, "claiming") /\ worker[w].at = "absent"
        /\ gen' = [gen EXCEPT ![w] = g] /\ payload' = [payload EXCEPT ![w] = p]
        /\ owner' = w
        /\ UNCHANGED <<status, claim, runVars, remoteVars, sweep, pastVars>>
    BY <1>4 DEF Takes
  <2>2. NativeTypeOK'
    <3>1. /\ gen' \in [Worker -> 0..MaxWorkers] /\ owner' \in 0..MaxWorkers
          /\ payload' \in [Worker -> Payload \cup {None}]
      BY <2>1, SubmissionAssumption DEF NativeTypeOK, Key, Worker
    <3> QED BY <2>1, <3>1, <1>p, GoesTyped DEF NativeTypeOK
  <2>3. /\ \A v \in Worker : v # w => /\ worker'[v] = worker[v]
                                      /\ gen'[v] = gen[v]
                                      /\ payload'[v] = payload[v]
        /\ worker'[w].at = "claiming" /\ gen'[w] = g
        /\ worker'[w].brought = None
    BY <2>1, <1>p, <1>s DEF NativeTypeOK, Goes, WaitsRight
  <2>4. ClaimsInv' /\ UnclaimedIsEmpty' /\ StartedOnce' /\ KeptUntilHome'
    BY <2>1 DEF ClaimsInv, UnclaimedIsEmpty, StartedOnce, KeptUntilHome
  <2>5. StartingInv'
    BY <2>1, <2>3 DEF StartingInv, Starting
  <2>6. WaitingInv'
    BY <2>1, <2>3, <1>p DEF WaitingInv, WaitsRight
  <2>7. BringsItsOwnMesh' BY <2>3 DEF BringsItsOwnMesh
  <2> QED BY <2>2, <2>4, <2>5, <2>6, <2>7
<1>5. CASE Upload(w)
  <2>1. /\ worker[w].at = "uploading"
        /\ input' = [input EXCEPT ![gen[w]] = payload[w]]
        /\ worker' = [worker EXCEPT ![w].at = "uploaded", ![w].key = gen[w]]
        /\ UNCHANGED <<jobVars, claim, exchange, starts, remoteVars, sweep, pastVars>>
    BY <1>5 DEF Upload
  <2>2. /\ gen[w] \in Key /\ claim[gen[w]].state # "none"
        /\ claim[gen[w]].payload = payload[w] /\ starts[gen[w]] = 0
    BY <2>1 DEF StartingInv, Starting
  <2>3. /\ \A v \in Worker : v # w => worker'[v] = worker[v]
        /\ worker'[w].at = "uploaded" /\ worker'[w].key = gen[w]
        /\ worker'[w].brought = worker[w].brought
    BY <2>1, <1>r DEF NativeTypeOK
  <2>4. NativeTypeOK'
    <3>1. [worker[w] EXCEPT !.at = "uploaded", !.key = gen[w]]
            \in [at : Place, key : 0..MaxWorkers, mine : BOOLEAN,
                 brought : Payload \cup {None}]
      BY <1>r, <1>p DEF NativeTypeOK
    <3>2. worker' = [worker EXCEPT ![w] =
                       [worker[w] EXCEPT !.at = "uploaded", !.key = gen[w]]]
      BY <2>1 DEF NativeTypeOK
    <3> QED BY <2>1, <2>2, <3>1, <3>2 DEF NativeTypeOK
  <2>5. ClaimsInv' /\ UnclaimedIsEmpty' /\ StartedOnce' /\ KeptUntilHome'
    BY <2>1, <2>2 DEF ClaimsInv, UnclaimedIsEmpty, StartedOnce, KeptUntilHome, NativeTypeOK
  <2>u. UNCHANGED <<payload, gen, claim, starts, home>> BY <2>1
  <2>6. StartingInv'
    <3>1. worker[w].at \in Starting /\ worker'[w].at \in Starting
      BY <2>1, <2>3 DEF Starting
    <3> QED BY <2>u, <2>2, <2>3, <3>1 DEF StartingInv
  <2>7. WaitingInv'
    <3> SUFFICES ASSUME NEW v \in Worker PROVE WaitsRight(v)' BY DEF WaitingInv
    <3>1. WaitsRight(v) BY DEF WaitingInv
    <3>2. CASE v # w BY <2>u, <2>3, <3>1, <3>2 DEF WaitsRight
    <3>3. CASE v = w BY <2>u, <2>2, <2>3, <3>3 DEF WaitsRight
    <3> QED BY <3>2, <3>3
  <2>8. BringsItsOwnMesh' BY <2>u, <2>3 DEF BringsItsOwnMesh
  <2> QED BY <2>4, <2>5, <2>6, <2>7, <2>8
<1>t. /\ starts \in [Key -> Nat]
      /\ machine \in [Key -> {"none", "booting", "working", "stopped", "gone"}]
      /\ \A j \in Key : /\ starts[j] <= 1
                        /\ claim[j].state = "none" => starts[j] = 0
      /\ \A v \in Worker : v # w /\ worker[v].at \in Starting
                           => starts[gen[v]] = 0
  BY DEF NativeTypeOK, StartedOnce, ClaimsInv, StartingInv
<1>6. ASSUME NEW unread \in SUBSET Key, Adopt(w, unread) PROVE NativeInv'
  <2>1. /\ worker[w].at = "acquired"
        /\ UNCHANGED <<jobVars, claim, runVars, remoteVars, sweep, pastVars>>
    BY <1>6 DEF Adopt
  <2>2. CASE Goes(w, "uploading")
    <3>1. NativeTypeOK'
      BY <2>1, <2>2, <1>p, GoesTyped DEF NativeTypeOK
    <3> QED BY <2>1, <2>2, <3>1, <1>p, WorkerMoves DEF Starting
  <2>3. CASE \E k \in Earlier(w) : WaitsFor(w, k, FALSE)
    <3>1. PICK k \in Earlier(w) : WaitsFor(w, k, FALSE) BY <2>3
    <3>2. /\ k \in Key /\ claim[k].state # "none"
          /\ claim[k].payload = payload[w]
      BY DEF Earlier
    <3> QED BY <2>1, <3>1, <3>2, <1>t, WorkerWaits
  <2> QED
    <3> DEFINE alive == {k \in Earlier(w) : Alive(k)} \ unread
    <3>1. \/ Goes(w, "uploading")
          \/ \E k \in alive : WaitsFor(w, k, FALSE)
      BY <1>6 DEF Adopt
    <3>2. alive \subseteq Earlier(w) OBVIOUS
    <3> HIDE DEF alive
    <3> QED BY <3>1, <3>2, <2>2, <2>3
<1>7. ASSUME NEW answered \in BOOLEAN, Start(w, answered) PROVE NativeInv'
  <2> DEFINE k == gen[w]
  <2>1. /\ worker[w].at = "uploaded"
        /\ starts' = [starts EXCEPT ![k] = @ + 1]
        /\ machine' = [machine EXCEPT ![k] = "booting"]
        /\ UNCHANGED <<jobVars, claim, input, exchange, beacon, aged, sweep, pastVars>>
    BY <1>7 DEF Start
  <2>2. /\ k \in Key /\ claim[k].state # "none"
        /\ claim[k].payload = payload[w] /\ starts[k] = 0
    BY <2>1 DEF StartingInv, Starting
  <2>3. /\ \A j \in Key : j # k => starts'[j] = starts[j]
        /\ starts'[k] = 1 /\ starts' \in [Key -> Nat]
        /\ machine' \in [Key -> {"none", "booting", "working", "stopped", "gone"}]
    BY <2>1, <2>2 DEF NativeTypeOK
  <2>4. \A j \in Key : /\ starts'[j] <= 1
                       /\ claim[j].state = "none" => starts'[j] = 0
    BY <2>2, <2>3 DEF StartedOnce, ClaimsInv
  <2>5. \A v \in Worker : v # w /\ worker[v].at \in Starting
                            => starts'[gen[v]] = 0
    BY <2>1, <2>2, <2>3 DEF StartingInv, Starting
  <2>6. CASE WaitsFor(w, k, TRUE)
    BY <2>1, <2>2, <2>3, <2>4, <2>5, <2>6, WorkerWaits
  <2>7. CASE Goes(w, "indeterminate")
    <3>1. NativeTypeOK'
      BY <2>1, <2>3, <2>7, <1>p, <1>q, GoesTyped DEF NativeTypeOK
    <3>2. /\ worker'[w].at = "indeterminate"
          /\ worker'[w].brought = worker[w].brought
          /\ \A v \in Worker : v # w => worker'[v] = worker[v]
      BY <2>7, <1>p, <1>q DEF NativeTypeOK, Goes
    <3>3. WaitsRight(w)'
      BY <2>1, <2>2, <3>2, <1>p, <1>q DEF WaitsRight
    <3> QED
      BY <2>1, <2>4, <2>5, <3>1, <3>2, <3>3, <1>p, <1>q, WorkerStands
  <2> QED BY <1>7, <2>6, <2>7 DEF Start
<1>8. CASE ClaimOperation(w)
  <2> DEFINE k == gen[w]
  <2>1. /\ worker[w].at = "claiming" /\ k \in Key
        /\ UNCHANGED <<jobVars, runVars, remoteVars, sweep, pastVars>>
    BY <1>8, <1>s DEF ClaimOperation, WaitsRight
  <2>2. CASE claim[k].state = "none" /\ Goes(w, "acquired")
               /\ claim' = [claim EXCEPT ![k].state = "claimed",
                                        ![k].payload = payload[w]]
    <3>1. /\ \A j \in Key : j # k => claim'[j] = claim[j]
          /\ claim'[k].state = "claimed" /\ claim'[k].payload = payload[w]
          /\ claim' \in [Key -> Claim]
      <4> DEFINE new == [claim[k] EXCEPT !.state = "claimed", !.payload = payload[w]]
      <4>1. claim[k] \in Claim /\ payload[w] \in Payload \cup {None}
        BY <2>1 DEF NativeTypeOK
      <4>2. new \in Claim /\ new.state = "claimed" /\ new.payload = payload[w]
        BY <4>1 DEF Claim
      <4>3. claim' = [claim EXCEPT ![k] = new]
        BY <2>1, <2>2, <4>1 DEF NativeTypeOK, Claim
      <4> HIDE DEF new
      <4> QED BY <2>1, <4>2, <4>3 DEF NativeTypeOK
    <3>2. /\ worker'[w].at = "acquired"
          /\ worker'[w].brought = worker[w].brought
          /\ \A v \in Worker : v # w => worker'[v] = worker[v]
      BY <2>2, <1>p DEF NativeTypeOK, Goes
    <3>3. NativeTypeOK'
      BY <2>1, <2>2, <3>1, <1>p, GoesTyped DEF NativeTypeOK
    <3>4. input[k] = None
      BY <2>1, <2>2 DEF UnclaimedIsEmpty
    <3>5. ClaimsInv' /\ StartedOnce' /\ KeptUntilHome' /\ UnclaimedIsEmpty'
      BY <2>1, <3>1, <3>4
         DEF ClaimsInv, StartedOnce, KeptUntilHome, UnclaimedIsEmpty
    <3>6. \A v \in Worker : worker[v].at \in Starting => gen[v] # k
      BY <2>2 DEF StartingInv
    <3>7. StartingInv'
      BY <2>1, <2>2, <3>1, <3>2, <3>6 DEF StartingInv, ClaimsInv
    <3>8. WaitingInv'
      BY <2>1, <2>2, <3>1, <3>2, <1>p DEF WaitingInv, WaitsRight
    <3>9. BringsItsOwnMesh' BY <2>1, <3>2 DEF BringsItsOwnMesh
    <3> QED BY <3>3, <3>5, <3>7, <3>8, <3>9
  <2>3. CASE claim' = claim /\ claim[k].payload = payload[w]
               /\ claim[k].state = "accepted" /\ WaitsFor(w, k, FALSE)
    BY <2>1, <2>3, <1>t, WorkerWaits
  <2>4. CASE claim' = claim /\ Goes(w, "over")
    <3>1. NativeTypeOK'
      BY <2>1, <2>4, <1>p, GoesTyped DEF NativeTypeOK
    <3> QED BY <2>1, <2>4, <3>1, <1>p, WorkerMoves
  <2> QED BY <1>8, <2>2, <2>3, <2>4 DEF ClaimOperation, Insertable
<1>9. CASE Record(w)
  <2> DEFINE k == gen[w]
  <2>1. /\ worker[w].at \in Recorded /\ Goes(w, "over")
        /\ UNCHANGED <<jobVars, runVars, remoteVars, sweep, pastVars>>
    BY <1>9 DEF Record
  <2>2. k \in Key BY <2>1, <1>p, <1>s DEF WaitsRight
  <2>3. /\ \A j \in Key : /\ claim'[j].payload = claim[j].payload
                          /\ claim'[j].state = "none" <=> claim[j].state = "none"
        /\ claim' \in [Key -> Claim]
    <3>1. CASE ~MayRecord(w)
      BY <1>9, <3>1 DEF Record, NativeTypeOK
    <3>2. CASE MayRecord(w)
      <4> DEFINE to == IF worker[w].at = "adopted" THEN "accepted" ELSE worker[w].at
                 new == [claim[k] EXCEPT !.state = to,
                                         !.names = (worker[w].at = "accepted")]
      <4>1. claim[k] \in Claim /\ claim[k].state = "claimed"
        BY <2>2, <3>2 DEF MayRecord, NativeTypeOK
      <4>2. to \in {"accepted", "failed", "indeterminate"}
        BY <2>1 DEF Recorded
      <4>3. claim' = [claim EXCEPT ![k] = new]
        BY <1>9, <2>2, <3>2, <4>1 DEF Record, NativeTypeOK, Claim
      <4> HIDE DEF to
      <4>4. new \in Claim
        <5> DEFINE b == (worker[w].at = "accepted")
        <5>1. b \in BOOLEAN OBVIOUS
        <5> HIDE DEF b
        <5> QED BY <4>1, <4>2, <5>1 DEF Claim
      <4>5. new.state # "none" /\ new.payload = claim[k].payload
        BY <4>1, <4>2 DEF Claim
      <4> HIDE DEF new
      <4> QED BY <2>2, <4>1, <4>3, <4>4, <4>5 DEF NativeTypeOK
    <3> QED BY <3>1, <3>2
  <2>4. NativeTypeOK'
    BY <2>1, <2>3, <1>p, GoesTyped DEF NativeTypeOK
  <2>5. /\ worker'[w].at = "over"
        /\ worker'[w].brought = worker[w].brought
        /\ \A v \in Worker : v # w => worker'[v] = worker[v]
    BY <2>1, <1>p DEF NativeTypeOK, Goes
  <2>u. UNCHANGED <<payload, gen, input, exchange, starts, home>> BY <2>1
  <2>6. ClaimsInv' /\ StartedOnce' /\ KeptUntilHome' /\ UnclaimedIsEmpty'
    BY <2>u, <2>3 DEF ClaimsInv, StartedOnce, KeptUntilHome, UnclaimedIsEmpty
  <2>7. StartingInv'
    <3>1. \A v \in Worker : worker'[v].at \in Starting
                            => v # w /\ worker[v].at \in Starting
      BY <2>5, <1>p
    <3> QED BY <2>u, <2>3, <3>1 DEF StartingInv
  <2>8. WaitingInv'
    <3> SUFFICES ASSUME NEW v \in Worker PROVE WaitsRight(v)' BY DEF WaitingInv
    <3>1. WaitsRight(v) BY DEF WaitingInv
    <3>2. CASE v # w BY <2>u, <2>3, <2>5, <3>1, <3>2 DEF WaitsRight
    <3>3. CASE v = w BY <2>u, <2>2, <2>5, <3>3, <1>p DEF WaitsRight
    <3> QED BY <3>2, <3>3
  <2>9. BringsItsOwnMesh' BY <2>u, <2>5 DEF BringsItsOwnMesh
  <2> QED BY <2>4, <2>6, <2>7, <2>8, <2>9
<1> QED
  BY <1>1, <1>2, <1>3, <1>4, <1>5, <1>6, <1>7, <1>8, <1>9 DEF Submit

\* Every step keeps the invariant.
LEMMA NativeStep == NativeInv /\ [Next]_vars => NativeInv'
<1> SUFFICES ASSUME NativeInv, [Next]_vars PROVE NativeInv' OBVIOUS
<1>1. CASE UNCHANGED vars
  BY <1>1, OthersMove
     DEF vars, jobVars, runVars, remoteVars, pastVars, NativeInv, NativeTypeOK
<1>2. ASSUME NEW w \in Worker, Submit(w) PROVE NativeInv' BY <1>2, SubmitKept
<1>3. ASSUME NEW w \in Worker, Await(w) PROVE NativeInv' BY <1>3, AwaitKept
<1>4. CASE Next BY <1>2, <1>3, <1>4, OthersKept DEF Next
<1> QED BY <1>1, <1>4

\* Nothing has been submitted yet.
LEMMA NativeInit == Init => NativeInv
<1> SUFFICES ASSUME Init PROVE NativeInv OBVIOUS
<1>1. NativeTypeOK
  BY SubmissionAssumption DEF Init, NativeTypeOK, Claim, Place, Key, Worker
<1>2. ClaimsInv /\ UnclaimedIsEmpty /\ StartedOnce /\ KeptUntilHome
  BY DEF Init, ClaimsInv, UnclaimedIsEmpty, StartedOnce, KeptUntilHome
<1>3. \A w \in Worker : worker[w].at = "absent" /\ worker[w].brought = None
  BY DEF Init
<1>4. StartingInv BY <1>3 DEF StartingInv, Starting
<1>5. WaitingInv BY <1>3 DEF WaitingInv, WaitsRight, Waits
<1>6. BringsItsOwnMesh BY <1>3 DEF BringsItsOwnMesh
<1> QED BY <1>1, <1>2, <1>4, <1>5, <1>6 DEF NativeInv

\* The inductive invariant of the submission holds of every reachable state.
THEOREM SubmissionInvariant == Spec => []NativeInv
BY NativeInit, NativeStep, PTL DEF Spec

\* Every variable keeps its type.
THEOREM SubmissionTyped == Spec => []NativeTypeOK
<1>1. NativeInv => NativeTypeOK BY DEF NativeInv
<1> QED BY <1>1, SubmissionInvariant, PTL

\* claim, still_owned: an operation's machine is started once, for any number
\* of claims, replays, retries and lost answers, and as long as the platform is
\* not being updated under it (see StartedOnce).
THEOREM OneStartPerOperation == Spec => []StartedOnce
<1>1. NativeInv => StartedOnce BY DEF NativeInv
<1> QED BY <1>1, SubmissionInvariant, PTL

\* earlier_runs, _adopt: no worker goes on with another payload's mesh.
THEOREM MeshOfItsPayload == Spec => []BringsItsOwnMesh
<1>1. NativeInv => BringsItsOwnMesh BY DEF NativeInv
<1> QED BY <1>1, SubmissionInvariant, PTL

\* _exchange: what leaves an exchange has been brought home.
THEOREM ReleasedWasBroughtHome == Spec => []KeptUntilHome
<1>1. NativeInv => KeptUntilHome BY DEF NativeInv
<1> QED BY <1>1, SubmissionInvariant, PTL
----------------------------------------------------------------------------
(* That no machine still at work is ended for nothing.  The judgement and  *)
(* the deletion are two steps, and everything else may happen in between:  *)
(* the argument is that a reason, once there is one, does not go away.     *)

Dead(k) == machine[k] \in {"stopped", "gone"}

\* A reason to end the run of an operation, or nothing left of it to end.
Discharged(k) ==
  \/ Dead(k) \/ exchange[k] \notin {"empty", "output"}
  \/ k \in misjudged \/ status = "cancelled"

\* A beacon is first heard when the container starts, and silent only after
\* the machine stopped working; one operation has one machine.
MachineInv ==
  \A k \in Key : /\ starts[k] = 0 => machine[k] = "none"
                 /\ machine[k] \in {"none", "booting"} => beacon[k] = "never"
                 /\ beacon[k] = "stale" => Dead(k)

JudgedInv ==
  /\ sweep \in Key => Discharged(sweep)
  /\ \A w \in Worker :
       worker[w].at \in {"stopping", "timing out", "collecting", "home"}
         => Discharged(worker[w].key)

\* What a step may do to machines, exchanges and the judgement of them.
ReasonsStay ==
  /\ \A k \in Key : Dead(k) => Dead(k)'
  /\ \A k \in Key : exchange[k] \notin {"empty", "output"}
                      => exchange'[k] \notin {"empty", "output"}
  /\ misjudged \subseteq misjudged'
  /\ status = "cancelled" => status' = "cancelled"

\* A step that leaves the machines, their beacons and the exchanges alone.
LEMMA ReasonsKept ==
  ASSUME MachineInv, UNCHANGED <<starts, machine, beacon, exchange>>,
         misjudged \subseteq misjudged',
         status = "cancelled" => status' = "cancelled"
  PROVE  MachineInv' /\ ReasonsStay
BY DEF MachineInv, ReasonsStay, Dead

\* A step that ends a machine, or tries to (_stop, the sweep's deletion).
LEMMA EndedReasons ==
  ASSUME NativeTypeOK, MachineInv, NEW k \in Key,
         Ended(k) \/ UNCHANGED machine,
         UNCHANGED <<starts, beacon, exchange, misjudged, status>>
  PROVE  MachineInv' /\ ReasonsStay
<1>1. \A j \in Key : \/ machine'[j] = machine[j]
                     \/ machine[j] # "none" /\ machine'[j] = "gone"
  <2>1. CASE UNCHANGED machine BY <2>1
  <2>2. CASE Ended(k) BY <2>2 DEF Ended, NativeTypeOK
  <2> QED BY <2>1, <2>2
<1>2. MachineInv' BY <1>1 DEF MachineInv, Dead
<1>3. ReasonsStay BY <1>1 DEF ReasonsStay, Dead
<1> QED BY <1>2, <1>3

\* Reasons stay whatever a delivery does: a start is the first of its machine.
LEMMA SubmitReasons ==
  ASSUME NativeInv, MachineInv, NEW w \in Worker, Submit(w)
  PROVE  MachineInv' /\ ReasonsStay
<1> USE DEF jobVars, runVars, remoteVars, pastVars
<1>1. CASE \/ \E g \in Key, p \in Payload : Takes(w, g, p)
           \/ ClaimOperation(w) \/ \E unread \in SUBSET Key : Adopt(w, unread)
           \/ Upload(w) \/ UploadFails(w) \/ StartFails(w) \/ Record(w) \/ Die(w)
  <2>1. UNCHANGED <<starts, machine, beacon, exchange, misjudged, status>>
    BY <1>1 DEF Takes, ClaimOperation, Adopt, Upload, UploadFails, StartFails,
       Record, Die
  <2> QED BY <2>1, ReasonsKept
<1>2. ASSUME NEW answered \in BOOLEAN, Start(w, answered)
      PROVE  MachineInv' /\ ReasonsStay
  <2> DEFINE k == gen[w]
  <2>1. /\ starts' = [starts EXCEPT ![k] = @ + 1]
        /\ machine' = [machine EXCEPT ![k] = "booting"]
        /\ UNCHANGED <<beacon, exchange, misjudged, status>>
        /\ worker[w].at = "uploaded"
    BY <1>2 DEF Start
  <2>2. k \in Key /\ starts[k] = 0
    BY <2>1 DEF NativeInv, StartingInv, Starting
  <2>3. machine[k] = "none" /\ beacon[k] = "never"
    BY <2>2 DEF MachineInv
  <2>4. /\ \A j \in Key : j # k => starts'[j] = starts[j] /\ machine'[j] = machine[j]
        /\ machine'[k] = "booting" /\ starts'[k] = 1
    BY <2>1, <2>2 DEF NativeInv, NativeTypeOK
  <2>5. MachineInv'
    BY <2>1, <2>3, <2>4 DEF MachineInv, Dead
  <2>6. ReasonsStay
    BY <2>1, <2>3, <2>4 DEF ReasonsStay, Dead
  <2> QED BY <2>5, <2>6
<1> QED BY <1>1, <1>2 DEF Submit

\* Whatever a wait, a collection and a release do.
LEMMA AwaitReasons ==
  ASSUME NativeInv, MachineInv, NEW w \in Worker, Await(w)
  PROVE  MachineInv' /\ ReasonsStay
<1> USE DEF jobVars, runVars, remoteVars, pastVars
<1>w. worker[w].at \in Waits => worker[w].key \in Key
  BY DEF NativeInv, WaitingInv, WaitsRight
<1>1. CASE \/ SeeResult(w) \/ Gone(w)
           \/ \E b \in BOOLEAN : NeverHeard(w, b) \/ Abandon(w, b) \/ Leave(w, b)
  <2>1. /\ UNCHANGED <<starts, machine, beacon, exchange, status>>
        /\ misjudged \subseteq misjudged'
    BY <1>1 DEF SeeResult, Gone, NeverHeard, Abandon, Leave
  <2> QED BY <2>1, ReasonsKept
<1>2. ASSUME NEW b \in BOOLEAN, Stop(w, b) PROVE MachineInv' /\ ReasonsStay
  <2>1. worker[w].key \in Key BY <1>2, <1>w DEF Stop, Waits, Place, Recorded
  <2> QED BY <1>2, <2>1, EndedReasons DEF Stop, NativeInv
<1>3. ASSUME NEW whole \in BOOLEAN, NEW b \in BOOLEAN, Collect(w, whole, b)
      PROVE  MachineInv' /\ ReasonsStay
  <2>1. worker[w].key \in Key BY <1>3, <1>w DEF Collect, Waits, Place, Recorded
  <2> QED BY <1>3, <2>1, EndedReasons DEF Collect, NativeInv
<1>4. ASSUME NEW to \in {"deleted", "hollow", "result"}, Release(w, to)
      PROVE  MachineInv' /\ ReasonsStay
  <2>1. UNCHANGED <<starts, machine, beacon, misjudged, status>>
    BY <1>4 DEF Release
  <2>2. \A k \in Key : exchange[k] \notin {"empty", "output"}
                      => exchange'[k] \notin {"empty", "output"}
    BY <1>4 DEF Release, NativeInv, NativeTypeOK
  <2> QED BY <2>1, <2>2 DEF MachineInv, ReasonsStay, Dead
<1> QED BY <1>1, <1>2, <1>3, <1>4 DEF Await, Poll

\* And whatever the job's owner, the machine and the sweep do.
LEMMA OthersReasons ==
  ASSUME NativeInv, MachineInv,
         \/ Cancel \/ Reap
         \/ \E k \in Key : \/ Machine(k)
                           \/ \E b \in BOOLEAN : SweepJudges(k, b)
                                                   \/ SweepDeletes(k, b)
  PROVE  MachineInv' /\ ReasonsStay
<1> USE DEF jobVars, runVars, remoteVars, pastVars
<1>1. CASE Cancel \/ Reap
  BY <1>1, ReasonsKept DEF Cancel, Reap
<1>2. ASSUME NEW k \in Key, NEW b \in BOOLEAN, SweepJudges(k, b)
      PROVE  MachineInv' /\ ReasonsStay
  BY <1>2, ReasonsKept DEF SweepJudges
<1>3. ASSUME NEW k \in Key, NEW b \in BOOLEAN, SweepDeletes(k, b)
      PROVE  MachineInv' /\ ReasonsStay
  BY <1>3, EndedReasons DEF SweepDeletes, NativeInv
<1>4. ASSUME NEW k \in Key, Machine(k) PROVE MachineInv' /\ ReasonsStay
  <2>1. UNCHANGED <<starts, misjudged, status>>
    BY <1>4 DEF Machine, Boots, Returns, Ends, FallsSilent, Ages, MachineOnly
  <2>2. \A j \in Key : j # k => /\ machine'[j] = machine[j] /\ beacon'[j] = beacon[j]
                               /\ exchange'[j] = exchange[j]
    BY <1>4 DEF Machine, Boots, Returns, Ends, FallsSilent, Ages, Becomes, NativeInv,
       NativeTypeOK
  <2>3. /\ machine \in [Key -> {"none", "booting", "working", "stopped", "gone"}]
        /\ beacon \in [Key -> {"never", "fresh", "stale"}]
        /\ exchange \in [Key -> {"empty", "output", "result", "hollow", "deleted"}]
    BY DEF NativeInv, NativeTypeOK
  <2>4. /\ Dead(k) => Dead(k)'
        /\ exchange[k] \notin {"empty", "output"} => exchange'[k] = exchange[k]
        /\ machine'[k] = "none" => machine[k] = "none"
        /\ machine[k] = "none" => machine'[k] = "none"
        /\ machine'[k] \in {"none", "booting"} => beacon'[k] = "never"
        /\ beacon'[k] = "stale" => Dead(k)'
    <3>1. CASE Boots(k)
      BY <3>1, <2>3 DEF Boots, Becomes, Dead, MachineInv
    <3>2. CASE Returns(k)
      BY <3>2, <2>3 DEF Returns, Dead, MachineInv
    <3>3. CASE Ends(k)
      BY <3>3, <2>3 DEF Ends, Becomes, Dead, MachineInv
    <3>4. CASE FallsSilent(k)
      BY <3>4, <2>3 DEF FallsSilent, Dead, MachineInv
    <3>5. CASE Ages(k)
      BY <3>5, <2>3 DEF Ages, Dead, MachineInv
    <3> QED BY <1>4, <3>1, <3>2, <3>3, <3>4, <3>5 DEF Machine
  <2>5. MachineInv' BY <2>1, <2>2, <2>4 DEF MachineInv, Dead
  <2>6. ReasonsStay BY <2>1, <2>2, <2>4 DEF ReasonsStay, Dead
  <2> QED BY <2>5, <2>6
<1> QED BY <1>1, <1>2, <1>3, <1>4

\* Waiting, reading and bringing home: where a machine's end may be asked for.
Ending == {"stopping", "timing out", "collecting", "home"}

JudgedRight(w) ==
  worker[w].at \in Ending => worker[w].key \in Key /\ Discharged(worker[w].key)

\* A worker's step asks for an end with a reason.
LEMMA WorkerJudges ==
  ASSUME NativeInv, MachineInv, JudgedInv, ReasonsStay,
         NEW w \in Worker, Submit(w) \/ Await(w)
  PROVE  JudgedRight(w)'
<1> USE DEF jobVars, runVars, remoteVars, pastVars
<1>t. worker \in [Worker -> [at : Place, key : 0..MaxWorkers, mine : BOOLEAN,
                            brought : Payload \cup {None}]]
  BY DEF NativeInv, NativeTypeOK
<1>p. /\ Ending \cup {"waiting"} \subseteq Waits /\ Waits \subseteq Place
      /\ Recorded \cap Waits = {} /\ "over" \notin Waits
      /\ {"claiming", "acquired", "uploading"} \cap Waits = {}
  BY DEF Ending, Waits, Place, Recorded
<1>o. \A b \in BOOLEAN : Outcome(w, b) \in Place /\ Outcome(w, b) \notin Ending
  BY OutcomeEnds DEF Ending, Waits, Place, Recorded
<1>w. worker[w].at \in Waits => worker[w].key \in Key
  BY DEF NativeInv, WaitingInv, WaitsRight
<1>g. \A to \in Place : Goes(w, to) =>
        /\ worker'[w].at = to
        /\ to \in Waits => worker'[w].key = worker[w].key
  BY <1>t DEF Goes
<1>v. ASSUME NEW k, NEW mine, WaitsFor(w, k, mine) PROVE worker'[w].at = "waiting"
  BY <1>t, <1>v DEF WaitsFor
<1>q. {"claiming", "acquired", "uploading", "over"} \cup Recorded \subseteq Place
  BY DEF Place
<1> SUFFICES ASSUME worker'[w].at \in Ending
            PROVE  (worker[w].key \in Key /\ Discharged(worker[w].key))'
  BY DEF JudgedRight
<1>1. CASE Submit(w)
  <2>1. \E to \in {"claiming", "acquired", "uploading", "uploaded", "waiting", "over"}
                    \cup Recorded : worker'[w].at = to
    <3>1. CASE \E g \in Key, p \in Payload : Takes(w, g, p)
      BY <3>1, <1>g, <1>q DEF Takes
    <3>2. CASE ClaimOperation(w)
      <4>1. \/ Goes(w, "acquired") \/ Goes(w, "over")
            \/ WaitsFor(w, gen[w], FALSE)
        BY <3>2 DEF ClaimOperation
      <4> QED BY <4>1, <1>g, <1>v, <1>q
    <3>3. CASE \E unread \in SUBSET Key : Adopt(w, unread)
      <4>1. Goes(w, "uploading") \/ \E k \in Key : WaitsFor(w, k, FALSE)
        <5>1. Earlier(w) \subseteq Key BY DEF Earlier
        <5> QED BY <3>3, <5>1 DEF Adopt
      <4> QED BY <4>1, <1>g, <1>v, <1>q
    <3>4. CASE Upload(w)
      BY <3>4, <1>t DEF Upload
    <3>5. CASE UploadFails(w) \/ StartFails(w)
      BY <3>5, <1>g, <1>q DEF UploadFails, StartFails, Recorded
    <3>6. CASE \E b \in BOOLEAN : Start(w, b)
      <4>1. Goes(w, "indeterminate") \/ WaitsFor(w, gen[w], TRUE)
        BY <3>6 DEF Start
      <4> QED BY <4>1, <1>g, <1>v, <1>q DEF Recorded
    <3>7. CASE Record(w) \/ Die(w)
      BY <3>7, <1>g, <1>q DEF Record, Die
    <3> QED BY <1>1, <3>1, <3>2, <3>3, <3>4, <3>5, <3>6, <3>7 DEF Submit
  <2>2. worker'[w].at \notin Ending
    BY <2>1 DEF Ending, Recorded
  <2> QED BY <2>2
<1>2. CASE SeeResult(w)
  <2>1. Goes(w, "collecting") /\ worker[w].at = "waiting" /\ ~NoResult(w)
        /\ exchange' = exchange
    BY <1>2 DEF SeeResult
  <2>2. worker'[w].key = worker[w].key /\ worker[w].key \in Key
    BY <2>1, <1>g, <1>w, <1>p DEF Ending
  <2> QED BY <2>1, <2>2 DEF NoResult, Discharged
<1>3. ASSUME NEW b \in BOOLEAN, NeverHeard(w, b)
      PROVE  (worker[w].key \in Key /\ Discharged(worker[w].key))'
  <2>1. worker[w].mine /\ worker[w].key \in misjudged' /\ worker[w].at = "waiting"
        /\ \E to \in {"timing out", "stopping"} : Goes(w, to)
    BY <1>3, <1>g, <1>o DEF NeverHeard, GivesUp, NoResult
  <2>2. worker'[w].key = worker[w].key /\ worker[w].key \in Key
    BY <2>1, <1>g, <1>w, <1>p DEF Ending
  <2> QED BY <2>1, <2>2 DEF Discharged
<1>4. CASE Gone(w)
  <2>1. beacon[worker[w].key] = "stale" /\ worker[w].at = "waiting"
        /\ Goes(w, "stopping")
    BY <1>4, <1>g, <1>o DEF Gone, GivesUp, NoResult
  <2>2. worker'[w].key = worker[w].key /\ worker[w].key \in Key
    BY <2>1, <1>g, <1>w, <1>p DEF Ending
  <2>3. Discharged(worker[w].key)
    BY <2>1, <2>2 DEF MachineInv, Discharged
  <2> QED BY <2>2, <2>3 DEF ReasonsStay, Discharged
<1>5. ASSUME NEW b \in BOOLEAN, Abandon(w, b)
      PROVE  (worker[w].key \in Key /\ Discharged(worker[w].key))'
  <2>1. /\ ~LeftToFinish(worker[w].key) /\ Goes(w, "stopping")
        /\ worker[w].at \in {"uploaded", "waiting"}
    <3>1. \/ ~LeftToFinish(worker[w].key) /\ Goes(w, "stopping")
          \/ Goes(w, "indeterminate") \/ Goes(w, Outcome(w, FALSE))
      BY <1>5 DEF Abandon
    <3>2. "indeterminate" \in Recorded BY DEF Recorded
    <3>3. ~Goes(w, "indeterminate") /\ ~Goes(w, Outcome(w, FALSE))
      BY <3>2, <1>g, <1>o, <1>p, <1>q
    <3> QED BY <1>5, <3>1, <3>3 DEF Abandon
  <2>2. worker'[w].key = worker[w].key /\ worker[w].key \in Key
    BY <2>1, <1>g, <1>w, <1>p DEF Ending, Waits, Place, Recorded
  <2>3. Discharged(worker[w].key)
    BY <2>1 DEF LeftToFinish, Discharged
  <2> QED BY <2>2, <2>3 DEF ReasonsStay, Discharged
<1>6. ASSUME NEW b \in BOOLEAN, Stop(w, b) \/ Leave(w, b)
      PROVE  (worker[w].key \in Key /\ Discharged(worker[w].key))'
  <2>1. \E c \in BOOLEAN : Goes(w, Outcome(w, c))
    BY <1>6 DEF Stop, Leave
  <2> QED BY <2>1, <1>g, <1>o
<1>7. ASSUME NEW to \in {"deleted", "hollow", "result"}, Release(w, to)
      PROVE  (worker[w].key \in Key /\ Discharged(worker[w].key))'
  <2>1. Goes(w, Outcome(w, TRUE))
    BY <1>7 DEF Release
  <2> QED BY <2>1, <1>g, <1>o
<1>8. ASSUME NEW whole \in BOOLEAN, NEW b \in BOOLEAN, Collect(w, whole, b)
      PROVE  (worker[w].key \in Key /\ Discharged(worker[w].key))'
  <2>1. worker[w].at = "collecting" /\ Bring(w, whole)
    BY <1>8 DEF Collect
  <2>2. whole
    BY <2>1, <1>g, <1>o DEF Bring
  <2>3. worker'[w].key = worker[w].key /\ worker[w].key \in Key
    <3>1. worker' = [worker EXCEPT ![w].at = "home", ![w].brought = input[worker[w].key]]
      BY <2>1, <2>2 DEF Bring
    <3>2. worker'[w].key = worker[w].key BY <3>1, <1>t
    <3> QED BY <2>1, <3>2, <1>w, <1>p DEF Ending
  <2>4. Discharged(worker[w].key)
    BY <2>1 DEF JudgedInv
  <2> QED BY <2>3, <2>4 DEF ReasonsStay, Discharged
<1> QED
  BY <1>1, <1>2, <1>3, <1>4, <1>5, <1>6, <1>7, <1>8 DEF Await, Poll

\* The sweep's judgement has a reason, whatever it could not read.
LEMMA SweepRight ==
  ASSUME NativeInv, MachineInv, JudgedInv, ReasonsStay, Next
  PROVE  (sweep \in Key => Discharged(sweep))'
<1> USE DEF jobVars, runVars, remoteVars, pastVars
<1>1. \/ sweep' = sweep \/ sweep' = 0
      \/ \E k \in Key, b \in BOOLEAN : SweepJudges(k, b)
  BY DEF Next, Submit, Await, Poll, Machine, Cancel, Reap, SweepDeletes,
     Takes, ClaimOperation, Adopt, Upload, UploadFails, StartFails, Start, Record, Die,
     SeeResult, Gone, NeverHeard, Abandon, Stop, Leave, Collect, Release,
     Boots, Returns, Ends, FallsSilent, Ages, MachineOnly
<1>2. CASE sweep' = sweep
  BY <1>2 DEF JudgedInv, ReasonsStay, Discharged
<1>3. CASE sweep' = 0
  BY <1>3 DEF Key, Worker
<1>4. ASSUME NEW k \in Key, NEW b \in BOOLEAN, SweepJudges(k, b)
      PROVE  Discharged(sweep)'
  <2>1. sweep' = k /\ Spent(k, b)
        /\ (b \/ beacon[k] = "never" => k \in misjudged')
    BY <1>4 DEF SweepJudges
  <2>2. CASE b \/ beacon[k] = "never"
    BY <2>1, <2>2 DEF Discharged
  <2>3. CASE ~b /\ beacon[k] # "never"
    <3>1. beacon[k] \in {"never", "fresh", "stale"}
      BY DEF NativeInv, NativeTypeOK
    <3>2. Dead(k) \/ exchange[k] \notin {"empty", "output"}
      BY <2>1, <2>3, <3>1 DEF Spent, Dead, MachineInv
    <3> QED BY <2>1, <3>2 DEF ReasonsStay, Discharged
  <2> QED BY <2>2, <2>3
<1> QED BY <1>1, <1>2, <1>3, <1>4

\* A step of one worker leaves the others where they are; a step of anybody
\* else, all of them.
LEMMA OneWorkerMoves ==
  ASSUME NativeInv, Next
  PROVE  \A v \in Worker : worker'[v] = worker[v] \/ Submit(v) \/ Await(v)
<1> USE DEF jobVars, runVars, remoteVars, pastVars
<1>t. worker \in [Worker -> [at : Place, key : 0..MaxWorkers, mine : BOOLEAN,
                            brought : Payload \cup {None}]]
  BY DEF NativeInv, NativeTypeOK
<1>g. ASSUME NEW w \in Worker, NEW v \in Worker \ {w}, NEW to, Goes(w, to)
      PROVE  worker'[v] = worker[v]
  BY <1>t, <1>g DEF Goes
<1>v. ASSUME NEW w \in Worker, NEW v \in Worker \ {w}, NEW k, NEW mine,
             WaitsFor(w, k, mine)
      PROVE  worker'[v] = worker[v]
  BY <1>t, <1>v DEF WaitsFor
<1>1. ASSUME NEW w \in Worker, NEW v \in Worker \ {w}, Submit(w)
      PROVE  worker'[v] = worker[v]
  <2>1. CASE \/ \E g \in Key, p \in Payload : Takes(w, g, p)
             \/ UploadFails(w) \/ StartFails(w) \/ Record(w) \/ Die(w)
    <3>1. \E to : Goes(w, to)
      BY <2>1 DEF Takes, UploadFails, StartFails, Record, Die
    <3> QED BY <3>1, <1>g
  <2>2. CASE ClaimOperation(w)
    <3>1. \/ Goes(w, "acquired") \/ Goes(w, "over") \/ WaitsFor(w, gen[w], FALSE)
      BY <2>2 DEF ClaimOperation
    <3> QED BY <3>1, <1>g, <1>v
  <2>3. CASE \E unread \in SUBSET Key : Adopt(w, unread)
    <3>1. Goes(w, "uploading") \/ \E k : WaitsFor(w, k, FALSE)
      BY <2>3 DEF Adopt
    <3> QED BY <3>1, <1>g, <1>v
  <2>4. CASE Upload(w)
    BY <2>4, <1>t DEF Upload
  <2>5. CASE \E b \in BOOLEAN : Start(w, b)
    <3>1. Goes(w, "indeterminate") \/ WaitsFor(w, gen[w], TRUE)
      BY <2>5 DEF Start
    <3> QED BY <3>1, <1>g, <1>v
  <2> QED BY <1>1, <2>1, <2>2, <2>3, <2>4, <2>5 DEF Submit
<1>2. ASSUME NEW w \in Worker, NEW v \in Worker \ {w}, Await(w)
      PROVE  worker'[v] = worker[v]
  <2>1. CASE \/ Poll(w) \/ \E b \in BOOLEAN : Abandon(w, b) \/ Stop(w, b) \/ Leave(w, b)
             \/ \E to \in {"deleted", "hollow", "result"} : Release(w, to)
    <3>1. \E to : Goes(w, to)
      BY <2>1 DEF Poll, SeeResult, Gone, NeverHeard, GivesUp, Abandon, Stop, Leave, Release
    <3> QED BY <3>1, <1>g
  <2>2. CASE \E whole, stopped \in BOOLEAN : Collect(w, whole, stopped)
    <3>1. \/ \E to : Goes(w, to)
          \/ worker' = [worker EXCEPT ![w].at = "home",
                                     ![w].brought = input[worker[w].key]]
      BY <2>2 DEF Collect, Bring
    <3> QED BY <3>1, <1>g, <1>t
  <2> QED BY <1>2, <2>1, <2>2 DEF Await
<1>3. CASE Cancel \/ Reap \/ \E k \in Key : \/ Machine(k)
                                           \/ \E b \in BOOLEAN : SweepJudges(k, b)
                                                                   \/ SweepDeletes(k, b)
  BY <1>3 DEF Cancel, Reap, Machine, Boots, Returns, Ends, FallsSilent, Ages, MachineOnly,
     SweepJudges, SweepDeletes
<1> QED BY <1>1, <1>2, <1>3 DEF Next

\* Every step keeps the reasons of whoever is about to end a machine.
LEMMA JudgedStep ==
  ASSUME NativeInv, MachineInv, JudgedInv, [Next]_vars
  PROVE  MachineInv' /\ JudgedInv'
<1>1. CASE Next
  <2>1. MachineInv' /\ ReasonsStay
    BY <1>1, SubmitReasons, AwaitReasons, OthersReasons DEF Next
  <2>2. ASSUME NEW v \in Worker PROVE JudgedRight(v)'
    <3>1. CASE worker'[v] = worker[v]
      <4>1. worker[v].at \in Ending => worker[v].key \in Key
        BY DEF NativeInv, WaitingInv, WaitsRight, Ending, Waits, Place, Recorded
      <4> QED
        BY <2>1, <3>1, <4>1 DEF JudgedInv, JudgedRight, Ending, ReasonsStay, Discharged
    <3>2. CASE Submit(v) \/ Await(v)
      BY <2>1, <3>2, WorkerJudges
    <3> QED BY <1>1, <3>1, <3>2, OneWorkerMoves
  <2> QED
    BY <1>1, <2>1, <2>2, SweepRight DEF JudgedInv, JudgedRight, Ending
<1>2. CASE UNCHANGED vars
  BY <1>2 DEF vars, jobVars, runVars, remoteVars, pastVars, MachineInv, JudgedInv,
     Discharged, Dead
<1> QED BY <1>1, <1>2

\* remote_left_running, _stop, vm_sweep.decide: a machine at work, its result
\* not written, is ended by a worker or the sweep only for a cancelled job or
\* one misjudged - whatever happened between the judgement and the deletion.
THEOREM NoWorkThrownAway == Spec => WorkIsNotThrownAway
<1> DEFINE Act == \A k \in Key :
       (/\ machine[k] = "working" /\ machine'[k] = "gone"
        /\ exchange[k] \in {"empty", "output"})
         => \/ status = "cancelled" \/ k \in misjudged
            \/ UNCHANGED <<worker, sweep>>
<1>1. Init => MachineInv /\ JudgedInv
  <2> SUFFICES ASSUME Init PROVE MachineInv /\ JudgedInv OBVIOUS
  <2>1. MachineInv BY DEF Init, MachineInv
  <2>2. sweep \notin Key BY DEF Init, Key, Worker
  <2>3. \A w \in Worker : worker[w].at = "absent" BY DEF Init
  <2> QED BY <2>1, <2>2, <2>3 DEF JudgedInv
<1>2. ASSUME NativeInv, JudgedInv, Next PROVE Act
  <2> SUFFICES ASSUME NEW k \in Key, machine[k] = "working", machine'[k] = "gone",
                      exchange[k] \in {"empty", "output"},
                      status # "cancelled", k \notin misjudged
               PROVE  UNCHANGED <<worker, sweep>>
    OBVIOUS
  <2> USE DEF jobVars, runVars, remoteVars, pastVars
  <2>0. ~Discharged(k)
    BY DEF Discharged, Dead
  <2>m. machine \in [Key -> {"none", "booting", "working", "stopped", "gone"}]
    BY <1>2 DEF NativeInv, NativeTypeOK
  <2>u. machine' # machine
    OBVIOUS
  <2>e. ASSUME NEW j, Ended(j) PROVE j = k
    BY <2>e, <2>m DEF Ended
  <2>1. ASSUME NEW w \in Worker, Submit(w) PROVE FALSE
    <3>1. machine' = machine \/ \E j \in Key : machine' = [machine EXCEPT ![j] = "booting"]
      <4>1. CASE \E b \in BOOLEAN : Start(w, b)
        BY <1>2, <4>1 DEF Start, NativeInv, StartingInv, Starting
      <4>2. CASE ~ \E b \in BOOLEAN : Start(w, b)
        BY <2>1, <4>2 DEF Submit, Takes, ClaimOperation, Adopt, Upload, UploadFails,
           StartFails, Record, Die
      <4> QED BY <4>1, <4>2
    <3> QED BY <3>1, <2>m, <2>u
  <2>2. ASSUME NEW w \in Worker, Await(w) PROVE FALSE
    <3>1. \/ UNCHANGED machine
          \/ /\ worker[w].at \in {"stopping", "timing out", "collecting"}
             /\ Ended(worker[w].key)
      BY <2>2 DEF Await, Poll, SeeResult, Gone, NeverHeard, Abandon, Stop, Leave, Collect,
         Release
    <3> QED BY <1>2, <3>1, <2>e, <2>u, <2>0 DEF JudgedInv
  <2>3. ASSUME NEW j \in Key, NEW b \in BOOLEAN, SweepDeletes(j, b) PROVE FALSE
    <3>1. sweep = j /\ (Ended(j) \/ UNCHANGED machine)
      BY <2>3 DEF SweepDeletes
    <3> QED BY <1>2, <3>1, <2>e, <2>u, <2>0 DEF JudgedInv
  <2>4. CASE \/ Cancel \/ Reap
             \/ \E j \in Key : Machine(j) \/ \E b \in BOOLEAN : SweepJudges(j, b)
    BY <2>4, <2>u DEF Cancel, Reap, SweepJudges, Machine, Boots, Returns, Ends,
       FallsSilent, Ages, MachineOnly
  <2> QED BY <1>2, <2>1, <2>2, <2>3, <2>4 DEF Next
<1>3. NativeInv /\ MachineInv /\ JudgedInv /\ [Next]_vars
        => MachineInv' /\ JudgedInv' /\ [Act]_vars
  BY <1>2, JudgedStep
<1> HIDE DEF Act
<1>4. WorkIsNotThrownAway <=> [][Act]_vars
  BY DEF WorkIsNotThrownAway, Act
<1> QED BY <1>1, <1>3, <1>4, SubmissionInvariant, PTL DEF Spec
=============================================================================
