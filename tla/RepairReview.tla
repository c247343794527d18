---------------------------- MODULE RepairReview ----------------------------
(***************************************************************************)
(* The review of a parked run: the questions put to the engineer, the      *)
(* answers, and the re-run that carries them.                              *)
(*                                                                         *)
(* An answer is a request of its own.  It reads the open park and its      *)
(* items, may wait for the model that interprets a redirect, and only then *)
(* takes the park's row lock and writes.  The run route holds that lock    *)
(* from reading the answers to closing the park, and needs the job's row   *)
(* on the way; cancel takes the two rows in the other order.  After its    *)
(* commit the run route dispatches, and undoes itself when that fails.     *)
(***************************************************************************)
EXTENDS Integers

CONSTANTS
  Item,        \* the defects of one group, each an entity and a problem
  Sample,      \* the members the engineer is shown first
  Client,      \* decision requests that can be under way at once
  Runner,      \* run requests that can be under way at once
  None,        \* nobody; no item
  MaxParks,    \* bound: reviews in a behaviour
  MaxAnswers   \* bound: decision requests in a behaviour

ASSUME ReviewAssumption ==
  /\ Sample \subseteq Item /\ None \notin Item \cup Client \cup Runner
  /\ MaxParks \in Nat \ {0} /\ MaxAnswers \in Nat

Park == 1..MaxParks

VARIABLES
  status,      \* the job's status
  parked,      \* how many parks the job has had
  open,        \* the parks whose status is open
  item,        \* per park, the answer on each of its items
  paired,      \* the defects with a pairing key
  history,     \* per defect, its decisions in order: <<m, n>> when park m's is
               \* dated, and no later than park n's
  blind,       \* TRUE when the newest park was written without that history
  parkLock,    \* the request that holds the open park's row lock
  jobLock,     \* TRUE while cancel's transaction holds the job's row
  asks,        \* how many decision requests there have been
  request,     \* per client: the decision under way and what it read
  run,         \* per runner: how far its request is, and what it would undo
  payload,     \* the row's dispatch payload: the park it answers, directives
  mark,        \* the release mark: the run request that left it
  queued       \* TRUE while a message of the job is on the queue

reviewVars == <<parked, open, item, paired, history, blind>>
lockVars == <<parkLock, jobLock>>
sendVars == <<payload, mark, queued>>
askVars == <<asks, request>>
vars == <<status, reviewVars, lockVars, askVars, run, sendVars>>

Decided == {"accepted", "redirected", "left", "unreviewed"}
All == "all"                       \* answered by "apply to all"
Answer == [state : {"absent", "open"} \cup Decided,
           by : Item \cup {None, All}, aims : SUBSET Item]
Absent == [state |-> "absent", by |-> None, aims |-> {}]
Open == [Absent EXCEPT !.state = "open"]
Idle == [at |-> "idle", on |-> None, park |-> 0, covers |-> {}, frees |-> {}]
NoRun == [at |-> "idle", park |-> 0, undo |-> {}]
Kind == {"accept", "leave", "redirect", "group", "all:left", "all:accepted",
         "all:redirected"}

\* The parks that hold a decision on the defect.
Decisions(i) == {n \in Park : <<n, n>> \in history[i]}

\* Type correctness; the rows with a decision are the dated ones and are in one
\* order, and the lock is held on an open park.
ReviewTypeOK ==
  /\ status \in {"running", "pending_review", "pending", "succeeded", "failed",
                 "cancelled"}
  /\ parked \in 0..MaxParks /\ open \subseteq 1..parked
  /\ item \in [Park -> [Item -> Answer]]
  /\ paired \subseteq Item
  /\ history \in [Item -> SUBSET (Park \X Park)] /\ blind \in BOOLEAN
  /\ \A i \in Item : Decisions(i) = {n \in Park : item[n][i].state \in Decided}
  /\ \A i \in Item, m, n \in Park :
       <<m, n>> \in history[i] \/ <<n, m>> \in history[i]
         <=> {m, n} \subseteq Decisions(i)
  /\ \A i \in Item, k, m, n \in Park :
       <<k, m>> \in history[i] /\ <<m, n>> \in history[i]
         => <<k, n>> \in history[i] /\ (k = n => k = m)
  /\ parkLock \in Runner \cup {None} /\ jobLock \in BOOLEAN
  /\ request \in [Client -> [at : Kind \cup {"idle"}, on : Item \cup {None},
                             park : 0..MaxParks, covers : SUBSET Item,
                             frees : SUBSET Item]]
  /\ run \in [Runner -> [at : {"idle", "locked", "committed", "sent", "failing"},
                         park : 0..MaxParks, undo : SUBSET Item]]
  /\ payload \in [park : 0..MaxParks, sends : SUBSET (Item \X Item)]
  /\ mark \in Runner \cup {None}
  /\ queued \in BOOLEAN /\ asks \in 0..MaxAnswers
  /\ parkLock # None => open # {}

Init ==
  /\ status = "running"
  /\ parked = 0 /\ open = {}
  /\ item = [n \in Park |-> [i \in Item |-> Absent]]
  /\ paired \in SUBSET Item
  /\ history = [i \in Item |-> {}] /\ blind = FALSE
  /\ parkLock = None /\ jobLock = FALSE
  /\ asks = 0 /\ request = [c \in Client |-> Idle]
  /\ run = [r \in Runner |-> NoRun]
  /\ payload = [park |-> 0, sends |-> {}]
  /\ mark = None
  /\ queued = FALSE

\* The newest open park.
OpenPark == CHOOSE n \in open : \A m \in open : m <= n

----------------------------------------------------------------------------
(* The run that ends: settle_left, write_review, or an ending.             *)

\* Mutant of SettledLeft: what was left is asked again.
NothingSettled == {}

SettledLeft ==
  {i \in Item : \E n \in Decisions(i) :
     /\ item[n][i].state = "left"
     /\ \A m \in Decisions(i) : <<m, n>> \in history[i]}

\* `unread`: the decision history could not be read.
RunParks(found, unread) ==
  LET asked == IF unread THEN found ELSE found \ SettledLeft
  IN /\ status = "running" /\ ~jobLock /\ open = {}
     /\ asked # {} /\ parked < MaxParks
     /\ status' = "pending_review"
     /\ parked' = parked + 1
     /\ open' = {parked + 1}
     /\ item' = [item EXCEPT ![parked + 1] =
          [i \in Item |-> IF i \in asked THEN Open ELSE Absent]]
     /\ blind' = unread
     /\ UNCHANGED <<paired, history, lockVars, askVars, run, sendVars>>

\* Also a run with nothing but left defects to ask about.
RunEnds(to) ==
  /\ status = "running" /\ ~jobLock
  /\ status' = to
  /\ UNCHANGED <<reviewVars, lockVars, askVars, run, sendVars>>

----------------------------------------------------------------------------
(* POST /review/decision.                                                  *)

Reviewable == status = "pending_review" /\ open # {}

Asked(n) == {i \in Item : item[n][i].state # "absent"}
Undecided(n) == {i \in Item : item[n][i].state = "open"}

\* Mutant of GroupScope: a group redirect takes the paired members too.
WholeGroup(n, i) ==
  {m \in Asked(n) \ {i} : item[n][m].state = "open" \/ item[n][m].by = i}

GroupScope(n, i) ==
  {m \in Asked(n) \ {i} : /\ m \notin paired
                          /\ item[n][m].state = "open" \/ item[n][m].by = i}

Read(c, kind, i, covers) ==
  /\ Reviewable /\ request[c] = Idle /\ asks < MaxAnswers
  /\ asks' = asks + 1
  /\ request' = [request EXCEPT ![c] =
       [at |-> kind, on |-> i, park |-> OpenPark, covers |-> covers,
        frees |-> {m \in Item : item[OpenPark][m].by = i} \ covers]]
  /\ UNCHANGED <<status, reviewVars, lockVars, run, sendVars>>

ReadOne(c, kind, i) ==
  /\ Reviewable /\ i \in Asked(OpenPark)
  /\ kind = "group" => i \notin paired
  /\ Read(c, kind, i, IF kind = "group" THEN GroupScope(OpenPark, i) ELSE {})

\* The direction is the latest answer in the sample that is not a leave; any
\* of them stands for it here.
Direction(n) ==
  LET answered == {i \in Sample : /\ item[n][i].state \in Decided \ {"unreviewed"}
                                  /\ item[n][i].by \notin Item}
      acted == {i \in answered : item[n][i].state # "left"}
  IN {item[n][i].state : i \in IF acted = {} THEN answered ELSE acted}

ReadAll(c, kind) ==
  /\ Reviewable /\ Asked(OpenPark) \cap paired = {}
  /\ \E d \in Direction(OpenPark) :
       kind = CASE d = "left" -> "all:left" [] d = "accepted" -> "all:accepted"
                [] OTHER -> "all:redirected"
  /\ Read(c, kind, None, Undecided(OpenPark))

\* The model refuses, or the request ends for another reason.
GiveUp(c) ==
  /\ request[c] # Idle
  /\ request' = [request EXCEPT ![c] = Idle]
  /\ UNCHANGED <<asks, status, reviewVars, lockVars, run, sendVars>>

\* The items the request answers.
Answered(q, answers) ==
  CASE q.on # None -> {q.on} \cup q.covers
    [] q.on = None /\ q.at = "all:redirected" -> q.covers
    [] OTHER -> {i \in Item : answers[i].state = "open"}

\* The answer on the item itself, and the one "apply to all" gives.
Alone(q) ==
  [state |-> CASE q.at = "leave" -> "left" [] q.at = "accept" -> "accepted"
               [] OTHER -> "redirected",
   by |-> None,
   aims |-> IF q.at = "leave" THEN {} ELSE {q.on} \cup q.covers]

ToAll(q, i) ==
  [state |-> CASE q.at = "all:left" -> "left" [] q.at = "all:accepted" -> "accepted"
               [] OTHER -> "redirected",
   by |-> All,
   aims |-> IF q.at = "all:left" THEN {} ELSE {i}]

\* What the request writes over the items of its park.
Written(q, answers) ==
  [i \in Item |->
     IF q.on = None
     THEN IF i \in Answered(q, answers) THEN ToAll(q, i) ELSE answers[i]
     ELSE IF i = q.on THEN Alone(q)
     ELSE IF i \in q.covers THEN [state |-> "redirected", by |-> q.on, aims |-> {}]
     ELSE IF i \in q.frees /\ answers[i].by \in Item THEN Open
     ELSE answers[i]]

\* A row without its date, and with the date of now.
Undated(i, n) == {d \in history[i] : n \notin {d[1], d[2]}}
Latest(i, n) == Undated(i, n) \cup (Decisions(i) \cup {n}) \X {n}

\* Mutant of Dated: a reopened row keeps its decision and its date.
DatedForGood(n, decided, new) ==
  [i \in Item |-> IF i \in decided THEN Latest(i, n) ELSE history[i]]

\* decided_at: a decision is the defect's latest, a reopened row holds none.
Dated(n, decided, new) ==
  [i \in Item |->
     CASE i \in decided -> Latest(i, n)
       [] new[i] = Open -> Undated(i, n)
       [] OTHER -> history[i]]

\* Mutant of StillOpen: the park is not looked at again under the lock.
StillThere(n) == TRUE

StillOpen(n) == open # {} /\ n = OpenPark

\* The lock, the writes and the commit; a closed park is a 409.
Decide(c) ==
  LET n == request[c].park
      new == Written(request[c], item[n])
  IN /\ request[c] # Idle /\ parkLock = None
     /\ IF StillOpen(n)
        THEN /\ item' = [item EXCEPT ![n] = new]
             /\ history' = Dated(n, Answered(request[c], item[n]), new)
        ELSE UNCHANGED <<item, history>>
     /\ request' = [request EXCEPT ![c] = Idle]
     /\ UNCHANGED <<status, parked, open, paired, blind, lockVars, asks, run,
                    sendVars>>

----------------------------------------------------------------------------
(* POST /review/run.                                                       *)

Directives(answers) ==
  {d \in Item \X Item : /\ answers[d[1]].state \in {"accepted", "redirected"}
                       /\ d[2] \in answers[d[1]].aims}

RunLocks(r) ==
  /\ run[r].at = "idle" /\ Reviewable /\ parkLock = None
  /\ parkLock' = r
  /\ run' = [run EXCEPT ![r] = [NoRun EXCEPT !.at = "locked", !.park = OpenPark]]
  /\ UNCHANGED <<status, reviewVars, jobLock, askVars, sendVars>>

\* The job's row, the status, the answers, the park, the payload: one commit.
RunCommits(r) ==
  LET n == run[r].park
  IN /\ run[r].at = "locked" /\ ~jobLock
     /\ status = "pending_review"
     /\ status' = "pending"
     /\ item' = [item EXCEPT ![n] = [i \in Item |->
          IF i \in Undecided(n) THEN [Open EXCEPT !.state = "unreviewed"]
          ELSE item[n][i]]]
     /\ history' = Dated(n, Undecided(n), item'[n])
     /\ open' = open \ {n}
     /\ payload' = [park |-> n, sends |-> Directives(item[n])]
     /\ mark' = r
     /\ run' = [run EXCEPT ![r] = [at |-> "committed", park |-> n,
                                   undo |-> Undecided(n)]]
     /\ parkLock' = None
     /\ UNCHANGED <<parked, paired, blind, jobLock, askVars, queued>>

\* The launcher takes the message, or raises with or without having taken it.
Dispatch(r, taken, answered) ==
  /\ run[r].at = "committed" /\ (answered => taken)
  /\ queued' = (queued \/ taken)
  /\ run' = [run EXCEPT ![r].at = IF answered THEN "sent" ELSE "failing"]
  /\ UNCHANGED <<status, reviewVars, lockVars, askVars, payload, mark>>

\* confirm_requeued: only the mark this request left.
ConfirmRequeued(r) ==
  /\ run[r].at = "sent"
  /\ mark' = IF mark = r THEN None ELSE mark
  /\ run' = [run EXCEPT ![r] = NoRun]
  /\ UNCHANGED <<status, reviewVars, lockVars, askVars, payload, queued>>

Compensate(r) ==
  LET n == run[r].park
  IN /\ run[r].at = "failing" /\ ~jobLock
     /\ IF status = "pending"
        THEN /\ status' = "pending_review"
             /\ open' = open \cup {n}
             /\ item' = [item EXCEPT ![n] = [i \in Item |->
                  IF i \in run[r].undo /\ item[n][i].state = "unreviewed"
                  THEN Open ELSE item[n][i]]]
             /\ history' = Dated(n, {}, item'[n])
        ELSE UNCHANGED <<status, open, item, history>>
     /\ run' = [run EXCEPT ![r] = NoRun]
     /\ UNCHANGED <<parked, paired, blind, lockVars, askVars, sendVars>>

\* The API process dies: what it held is rolled back, what follows is lost.
RunDies(r) ==
  /\ run[r].at # "idle"
  /\ parkLock' = IF parkLock = r THEN None ELSE parkLock
  /\ run' = [run EXCEPT ![r] = NoRun]
  /\ UNCHANGED <<status, reviewVars, jobLock, askVars, sendVars>>

----------------------------------------------------------------------------
(* Cancel: the job's row first, then the park's.                           *)

CancelLocks ==
  /\ ~jobLock /\ status \in {"running", "pending_review", "pending"}
  /\ jobLock' = TRUE
  /\ UNCHANGED <<status, reviewVars, parkLock, askVars, run, sendVars>>

\* Mutant of CancelledPark: cancel leaves the review standing.
NoPark == {}

CancelledPark == IF Reviewable THEN {OpenPark} ELSE {}

CancelCommits ==
  /\ jobLock
  /\ status = "pending_review" => parkLock = None
  /\ status' = "cancelled"
  /\ open' = open \ CancelledPark
  /\ jobLock' = FALSE
  /\ UNCHANGED <<parked, item, paired, history, blind, parkLock, askVars, run,
                 sendVars>>

CancelDies ==
  /\ jobLock
  /\ jobLock' = FALSE
  /\ UNCHANGED <<status, reviewVars, parkLock, askVars, run, sendVars>>

\* Mutant of Victim: two transactions that wait for each other do so for ever.
NoVictim(r) == FALSE /\ UNCHANGED vars

\* PostgreSQL aborts one of two transactions that wait for each other: here
\* the run request, or cancel's.
Victim(r) ==
  /\ parkLock = r /\ jobLock /\ status = "pending_review"
  /\ \/ /\ parkLock' = None
        /\ run' = [run EXCEPT ![r] = NoRun]
        /\ UNCHANGED jobLock
     \/ jobLock' = FALSE /\ UNCHANGED <<parkLock, run>>
  /\ UNCHANGED <<status, reviewVars, askVars, sendVars>>

----------------------------------------------------------------------------
(* The queue, the workers and the reaper.                                  *)

Claim ==
  /\ queued /\ status = "pending" /\ ~jobLock
  /\ status' = "running"
  /\ queued' \in BOOLEAN                \* the queue may hold another copy
  /\ mark' = None
  /\ UNCHANGED <<reviewVars, lockVars, askVars, run, payload>>

\* Lost, or the copy of a job that is not waiting for a worker.
MessageGone ==
  /\ queued
  /\ queued' = FALSE
  /\ UNCHANGED <<status, reviewVars, lockVars, askVars, run, payload, mark>>

\* Released and never confirmed queued: launched again from the row.
ReapRelaunches ==
  /\ status = "pending" /\ mark # None /\ ~jobLock
  /\ queued' = TRUE
  /\ mark' = None
  /\ UNCHANGED <<status, reviewVars, lockVars, askVars, run, payload>>

\* Mutant of NeverTaken: the mark alone decides, whatever became of the job
\* since the reaper selected it.
UnconfirmedAlone == mark = None

\* Confirmed queued, and no worker took it.
NeverTaken == status = "pending" /\ mark = None

ReapFails ==
  /\ NeverTaken /\ ~jobLock
  /\ status' = "failed"
  /\ UNCHANGED <<reviewVars, lockVars, askVars, run, sendVars>>

----------------------------------------------------------------------------

Next ==
  \/ \E found \in SUBSET Item, unread \in BOOLEAN : RunParks(found, unread)
  \/ \E to \in {"succeeded", "failed"} : RunEnds(to)
  \/ \E c \in Client :
       \/ \E kind \in {"accept", "leave", "redirect", "group"}, i \in Item :
            ReadOne(c, kind, i)
       \/ \E kind \in {"all:left", "all:accepted", "all:redirected"} :
            ReadAll(c, kind)
       \/ GiveUp(c) \/ Decide(c)
  \/ \E r \in Runner :
       \/ RunLocks(r) \/ RunCommits(r)
       \/ \E taken, answered \in BOOLEAN : Dispatch(r, taken, answered)
       \/ ConfirmRequeued(r) \/ Compensate(r) \/ RunDies(r) \/ Victim(r)
  \/ CancelLocks \/ CancelCommits \/ CancelDies
  \/ Claim \/ MessageGone \/ ReapRelaunches \/ ReapFails

Spec == Init /\ [][Next]_vars

\* A transaction under way goes on when it has its locks, and a row lock is
\* handed to the one that waited for it: PostgreSQL queues them, and breaks
\* a circle of them.  The reaper is scheduled again and again.
Fairness ==
  /\ \A r \in Runner : /\ SF_vars(RunCommits(r)) /\ WF_vars(Victim(r))
                       /\ SF_vars(Compensate(r))
  /\ SF_vars(CancelCommits)
  /\ SF_vars(ReapFails) /\ SF_vars(ReapRelaunches)

FairSpec == Spec /\ Fairness

----------------------------------------------------------------------------
(* What the review must keep.                                              *)

\* run_review, _lock_park_or_409: the re-run's payload is the answers of the
\* park it closed, neither read before the last of them nor followed by one.
PayloadIsTheAnswers ==
  status = "pending" =>
    /\ payload.park \notin open
    /\ payload.sends = Directives(item[payload.park])

\* _group_scope, record_group_decision: one answer never speaks for a paired
\* defect, whatever was asked, answered and replaced before it.
PairedIsAnsweredAlone ==
  \A n \in Park, i \in paired :
    /\ item[n][i].by = None
    /\ \A j \in Item \ {i} : i \notin item[n][j].aims

\* settle_left: a defect left in one review and answered in no other is not
\* put to the engineer again, whatever was dispatched, failed and undone in
\* between, unless the history could not be read.
LeftIsNotAskedAgain ==
  [][(parked' # parked /\ ~blind') =>
       \A i \in Item, n \in 1..parked :
         (/\ item[n][i].state = "left"
          /\ \A m \in Park \ {n} : item[m][i].state \in {"absent", "open"})
         => item'[parked'][i].state = "absent"]_vars

\* run_review, _compensate, cancel_job: a review is open exactly while its job
\* is parked, so a parked job can be answered and an ended one asks nothing.
ParkedIsReviewable == status = "pending_review" <=> open # {}

\* run_review against cancel_job, and against the reaper: no request waits
\* for ever, and a released re-run is taken, failed or back in review.
NobodyWaitsForEver ==
  /\ \A r \in Runner : run[r].at = "locked" ~> run[r].at # "locked"
  /\ jobLock ~> ~jobLock
  /\ status = "pending" ~> status # "pending"

----------------------------------------------------------------------------
(* The row as the transition table sees it.                                *)

Lifecycle == INSTANCE JobLifecycle

\* run_review, _compensate, cancel_job, the claim and the reaper, which check
\* the status before, or under, the locks they wait for: the job moves along
\* the table.
KeepsTheLifecycle == Lifecycle!LifeSpec
=============================================================================
