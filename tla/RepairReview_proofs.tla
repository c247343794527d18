------------------------ MODULE RepairReview_proofs ------------------------
(***************************************************************************)
(* What a review keeps, for any number of defects, requests and parks.     *)
(*                                                                         *)
(* That a review is open exactly while its job is parked needs to know who *)
(* holds the open park's lock and that there is one park to hold; that the *)
(* payload is the answers follows from it, since answers are written to an *)
(* open park only.  That a paired defect is answered alone needs to know   *)
(* what the requests under way mean to cover.                              *)
(***************************************************************************)
EXTENDS RepairReview, TLAPS

\* The types the argument needs; those of the rest follow it.
Typed ==
  /\ parked \in 0..MaxParks /\ open \subseteq 1..parked
  /\ item \in [Park -> [Item -> Answer]] /\ paired \subseteq Item
  /\ parkLock \in Runner \cup {None}
  /\ request \in [Client -> [at : Kind \cup {"idle"}, on : Item \cup {None},
                             park : 0..MaxParks, covers : SUBSET Item,
                             frees : SUBSET Item]]
  /\ run \in [Runner -> [at : {"idle", "locked", "committed", "sent", "failing"},
                         park : 0..MaxParks, undo : SUBSET Item]]
  /\ payload \in [park : 0..MaxParks, sends : SUBSET (Item \X Item)]

OneOpen == \A m, n \in open : m = n

LockedIsOpen ==
  \A r \in Runner : /\ run[r].at = "locked" <=> parkLock = r
                    /\ run[r].at = "locked" => run[r].park \in open
                    /\ run[r].at # "idle" => run[r].park \in 1..parked

\* A request under way has a kind, and concerns a park there was.
AskInv ==
  \A c \in Client : request[c] # Idle => /\ request[c].at \in Kind
                                        /\ request[c].park \in 1..parked

OpenInv == Typed /\ ParkedIsReviewable /\ OneOpen /\ LockedIsOpen /\ AskInv

\* With one park open, it is the open park (review_park).
LEMMA TheOpenPark ==
  ASSUME OpenInv, NEW n \in open
  PROVE  OpenPark = n
<1>1. open = {n} /\ n \in Nat
  <2>1. n \in 1..parked /\ parked \in Nat
    BY ReviewAssumption DEF OpenInv, Typed
  <2>2. n \in Nat BY <2>1
  <2>3. open = {n} BY DEF OpenInv, OneOpen
  <2> QED BY <2>2, <2>3
<1>2. n <= n BY <1>1
<1>3. \E m \in open : \A k \in open : k <= m BY <1>1, <1>2
<1>4. OpenPark \in open
  <2> DEFINE top(m) == m \in open /\ \A k \in open : k <= m
  <2>1. \E m : top(m) BY <1>3
  <2>2. OpenPark = CHOOSE m : top(m) BY DEF OpenPark
  <2> HIDE DEF top
  <2>3. top(OpenPark) BY <2>1, <2>2
  <2> QED BY <2>3 DEF top
<1> QED BY <1>1, <1>4

\* Every step keeps the park, its lock and the status together.
LEMMA OpenStep == Typed' /\ AskInv' /\ OpenInv /\ [Next]_vars => OpenInv'
<1> SUFFICES ASSUME Typed', AskInv', OpenInv, [Next]_vars PROVE OpenInv' OBVIOUS
<1> USE ReviewAssumption
    DEF reviewVars, lockVars, sendVars, askVars
<1>u. ASSUME UNCHANGED <<status, parked, open, run, parkLock>> PROVE OpenInv'
  BY <1>u DEF OpenInv, ParkedIsReviewable, OneOpen, LockedIsOpen
<1>m. ASSUME status # "pending_review", status' # "pending_review",
             UNCHANGED <<parked, open, run, parkLock>>
      PROVE  OpenInv'
  BY <1>m DEF OpenInv, ParkedIsReviewable, OneOpen, LockedIsOpen
<1>1. CASE UNCHANGED vars BY <1>1, <1>u DEF vars
<1>2. ASSUME NEW found \in SUBSET Item, NEW unread \in BOOLEAN,
             RunParks(found, unread)
      PROVE  OpenInv'
  <2>1. /\ status' = "pending_review" /\ parked' = parked + 1
        /\ open = {} /\ open' = {parked + 1} /\ UNCHANGED <<run, parkLock>>
    BY <1>2 DEF RunParks
  <2>2. parked \in Nat BY DEF OpenInv, Typed
  <2> QED
    BY <2>1, <2>2 DEF OpenInv, ParkedIsReviewable, OneOpen, LockedIsOpen
<1>3. ASSUME NEW to \in {"succeeded", "failed"}, RunEnds(to) PROVE OpenInv'
  BY <1>3, <1>m DEF RunEnds
<1>4. ASSUME NEW c \in Client, NEW kind, NEW i, ReadOne(c, kind, i)
      PROVE  OpenInv'
  BY <1>4, <1>u DEF ReadOne, Read
<1>5. ASSUME NEW c \in Client, NEW kind, ReadAll(c, kind) PROVE OpenInv'
  BY <1>5, <1>u DEF ReadAll, Read
<1>6. ASSUME NEW c \in Client, GiveUp(c) \/ Decide(c) PROVE OpenInv'
  BY <1>6, <1>u DEF GiveUp, Decide
<1>7. ASSUME NEW r \in Runner, RunLocks(r) PROVE OpenInv'
  <2>1. PICK n \in open : OpenPark = n
    BY <1>7, TheOpenPark DEF RunLocks, Reviewable
  <2>2. /\ parkLock = None /\ parkLock' = r /\ UNCHANGED <<status, parked, open>>
        /\ run' = [run EXCEPT ![r] = [NoRun EXCEPT !.at = "locked", !.park = n]]
    BY <1>7, <2>1 DEF RunLocks
  <2>3. /\ run'[r].at = "locked" /\ run'[r].park = n
        /\ \A q \in Runner : q # r => run'[q] = run[q]
    BY <2>2 DEF OpenInv, Typed, NoRun
  <2> QED
    BY <2>1, <2>2, <2>3 DEF OpenInv, Typed, ParkedIsReviewable, OneOpen, LockedIsOpen
<1>8. ASSUME NEW r \in Runner, RunCommits(r) PROVE OpenInv'
  <2>1. /\ run[r].at = "locked" /\ status' = "pending" /\ parkLock' = None
        /\ open' = open \ {run[r].park} /\ UNCHANGED parked
        /\ run' = [run EXCEPT ![r] = [at |-> "committed", park |-> run[r].park,
                                      undo |-> Undecided(run[r].park)]]
    BY <1>8 DEF RunCommits
  <2>2. /\ run'[r].at = "committed" /\ run'[r].park = run[r].park
        /\ \A q \in Runner : q # r => run'[q] = run[q]
    BY <2>1 DEF OpenInv, Typed
  <2>3. open' = {} BY <2>1 DEF OpenInv, OneOpen, LockedIsOpen
  <2> QED
    BY <2>1, <2>2, <2>3 DEF OpenInv, ParkedIsReviewable, OneOpen, LockedIsOpen
<1>9. ASSUME NEW r \in Runner, NEW taken \in BOOLEAN, NEW answered \in BOOLEAN,
             Dispatch(r, taken, answered)
      PROVE  OpenInv'
  <2>1. /\ run[r].at = "committed" /\ UNCHANGED <<status, parked, open, parkLock>>
        /\ run' = [run EXCEPT ![r].at = IF answered THEN "sent" ELSE "failing"]
    BY <1>9 DEF Dispatch
  <2>2. /\ run'[r].at # "locked" /\ run'[r].park = run[r].park
        /\ \A q \in Runner : q # r => run'[q] = run[q]
    BY <2>1 DEF OpenInv, Typed
  <2> QED
    BY <2>1, <2>2 DEF OpenInv, ParkedIsReviewable, OneOpen, LockedIsOpen
<1>10. ASSUME NEW r \in Runner, ConfirmRequeued(r) PROVE OpenInv'
  <2>1. /\ run[r].at = "sent" /\ UNCHANGED <<status, parked, open, parkLock>>
        /\ run' = [run EXCEPT ![r] = NoRun]
    BY <1>10 DEF ConfirmRequeued
  <2>2. /\ run'[r].at = "idle" /\ \A q \in Runner : q # r => run'[q] = run[q]
    BY <2>1 DEF OpenInv, Typed, NoRun
  <2> QED
    BY <2>1, <2>2 DEF OpenInv, ParkedIsReviewable, OneOpen, LockedIsOpen
<1>11. ASSUME NEW r \in Runner, Compensate(r) PROVE OpenInv'
  <2>1. /\ run[r].at = "failing" /\ UNCHANGED <<parked, parkLock>>
        /\ run' = [run EXCEPT ![r] = NoRun]
        /\ \/ /\ status = "pending" /\ status' = "pending_review"
              /\ open' = open \cup {run[r].park}
           \/ UNCHANGED <<status, open>>
    BY <1>11 DEF Compensate
  <2>2. /\ run'[r].at = "idle" /\ \A q \in Runner : q # r => run'[q] = run[q]
    BY <2>1 DEF OpenInv, Typed, NoRun
  <2> QED
    BY <2>1, <2>2 DEF OpenInv, ParkedIsReviewable, OneOpen, LockedIsOpen
<1>12. ASSUME NEW r \in Runner, RunDies(r) PROVE OpenInv'
  <2>1. /\ UNCHANGED <<status, parked, open>> /\ run' = [run EXCEPT ![r] = NoRun]
        /\ parkLock' = IF parkLock = r THEN None ELSE parkLock
    BY <1>12 DEF RunDies
  <2>2. /\ run'[r].at = "idle" /\ \A q \in Runner : q # r => run'[q] = run[q]
    BY <2>1 DEF OpenInv, Typed, NoRun
  <2> QED
    BY <2>1, <2>2 DEF OpenInv, Typed, ParkedIsReviewable, OneOpen, LockedIsOpen
<1>13. ASSUME NEW r \in Runner, Victim(r) PROVE OpenInv'
  <2>1. CASE UNCHANGED <<parkLock, run>>
    BY <1>13, <2>1, <1>u DEF Victim
  <2>2. CASE parkLock' = None /\ run' = [run EXCEPT ![r] = NoRun]
    <3>1. /\ run'[r].at = "idle" /\ \A q \in Runner : q # r => run'[q] = run[q]
      BY <2>2 DEF OpenInv, Typed, NoRun
    <3> QED
      BY <1>13, <2>2, <3>1
         DEF Victim, OpenInv, Typed, ParkedIsReviewable, OneOpen, LockedIsOpen
  <2> QED BY <1>13, <2>1, <2>2 DEF Victim
<1>14. CASE CancelLocks \/ CancelDies
  BY <1>14, <1>u DEF CancelLocks, CancelDies
<1>15. CASE CancelCommits
  <2>1. /\ status = "pending_review" => parkLock = None
        /\ status' = "cancelled" /\ open' = open \ CancelledPark
        /\ UNCHANGED <<parked, parkLock, run>>
    BY <1>15 DEF CancelCommits
  <2>2. open' = {}
    <3>1. CASE Reviewable
      <4>1. PICK n \in open : OpenPark = n BY <3>1, TheOpenPark DEF Reviewable
      <4> QED BY <2>1, <3>1, <4>1 DEF CancelledPark, OpenInv, OneOpen
    <3>2. CASE ~Reviewable
      BY <2>1, <3>2 DEF CancelledPark, Reviewable, OpenInv, ParkedIsReviewable
    <3> QED BY <3>1, <3>2
  <2>3. parkLock = None
    BY <2>1 DEF OpenInv, Typed, LockedIsOpen, ParkedIsReviewable
  <2> QED
    BY <2>1, <2>2, <2>3 DEF OpenInv, ParkedIsReviewable, OneOpen, LockedIsOpen
<1>16. CASE Claim \/ ReapFails
  BY <1>16, <1>m DEF Claim, ReapFails, NeverTaken
<1>17. CASE MessageGone \/ ReapRelaunches
  BY <1>17, <1>u DEF MessageGone, ReapRelaunches
<1> QED
  BY <1>1, <1>2, <1>3, <1>4, <1>5, <1>6, <1>7, <1>8, <1>9, <1>10, <1>11, <1>12,
     <1>13, <1>14, <1>15, <1>16, <1>17 DEF Next

----------------------------------------------------------------------------
(* Types.                                                                  *)

LEMMA AnswersTyped ==
  /\ Absent \in Answer /\ Open \in Answer
  /\ [Open EXCEPT !.state = "unreviewed"] \in Answer
  /\ Absent.state = "absent" /\ Open.state = "open"
  /\ Absent.by = None /\ Open.by = None /\ Absent.aims = {} /\ Open.aims = {}
  /\ [Open EXCEPT !.state = "unreviewed"].state = "unreviewed"
  /\ [Open EXCEPT !.state = "unreviewed"].by = None
  /\ [Open EXCEPT !.state = "unreviewed"].aims = {}
BY DEF Answer, Absent, Open, Decided

\* record_decision, record_group_decision: an answer is written for the item
\* itself, for those it covers, and for those it no longer covers.
LEMMA WrittenTyped ==
  ASSUME NEW q \in [at : Kind, on : Item \cup {None}, park : 0..MaxParks,
                    covers : SUBSET Item, frees : SUBSET Item],
         NEW answers \in [Item -> Answer]
  PROVE  Written(q, answers) \in [Item -> Answer]
<1> SUFFICES ASSUME NEW i \in Item PROVE Written(q, answers)[i] \in Answer
  BY DEF Written
<1>1. answers[i] \in Answer OBVIOUS
<1>2. ToAll(q, i) \in Answer BY DEF ToAll, Answer, Decided
<1>3. CASE q.on = None BY <1>1, <1>2, <1>3 DEF Written
<1>4. CASE q.on # None
  <2>1. /\ Alone(q) \in Answer
        /\ [state |-> "redirected", by |-> q.on, aims |-> {}] \in Answer
    BY <1>4 DEF Alone, Answer, Decided
  <2>2. CASE i = q.on BY <1>4, <2>1, <2>2 DEF Written
  <2>3. CASE i # q.on BY <1>1, <1>4, <2>1, <2>3, AnswersTyped DEF Written
  <2> QED BY <2>2, <2>3
<1> QED BY <1>3, <1>4

LEMMA TypedStep == OpenInv /\ [Next]_vars => Typed'
<1> SUFFICES ASSUME OpenInv, [Next]_vars PROVE Typed' OBVIOUS
<1> USE ReviewAssumption
    DEF reviewVars, lockVars, sendVars, askVars, OpenInv
<1>1. CASE UNCHANGED vars BY <1>1 DEF vars, Typed
<1>2. ASSUME NEW found \in SUBSET Item, NEW unread \in BOOLEAN,
             RunParks(found, unread)
      PROVE  Typed'
  <2> DEFINE n == parked + 1
             asked == IF unread THEN found ELSE found \ SettledLeft
             fresh == [i \in Item |-> IF i \in asked THEN Open ELSE Absent]
  <2>1. fresh \in [Item -> Answer] BY AnswersTyped
  <2>2. /\ parked < MaxParks /\ parked' = n /\ open' = {n}
        /\ item' = [item EXCEPT ![n] = fresh]
        /\ UNCHANGED <<paired, parkLock, request, run, payload>>
    BY <1>2 DEF RunParks
  <2> HIDE DEF fresh
  <2>3. n \in 1..MaxParks BY <2>2 DEF Typed
  <2> QED BY <2>1, <2>2, <2>3 DEF Typed, Park
<1>3. ASSUME NEW to \in {"succeeded", "failed"}, RunEnds(to) PROVE Typed'
  BY <1>3 DEF RunEnds, Typed
<1>4. ASSUME NEW c \in Client, NEW kind \in Kind, NEW i \in Item \cup {None},
             NEW covers \in SUBSET Item, Read(c, kind, i, covers)
      PROVE  Typed'
  <2> DEFINE q == [at |-> kind, on |-> i, park |-> OpenPark, covers |-> covers,
                   frees |-> {m \in Item : item[OpenPark][m].by = i} \ covers]
  <2>1. OpenPark \in open BY <1>4, TheOpenPark DEF Read, Reviewable
  <2>2. q \in [at : Kind \cup {"idle"}, on : Item \cup {None}, park : 0..MaxParks,
               covers : SUBSET Item, frees : SUBSET Item]
    BY <2>1 DEF Typed
  <2>3. request' = [request EXCEPT ![c] = q] BY <1>4 DEF Read
  <2> HIDE DEF q
  <2> QED BY <1>4, <2>2, <2>3 DEF Read, Typed
<1>5. ASSUME NEW c \in Client, GiveUp(c) PROVE Typed'
  <2>1. Idle \in [at : Kind \cup {"idle"}, on : Item \cup {None},
                  park : 0..MaxParks, covers : SUBSET Item, frees : SUBSET Item]
    BY DEF Idle
  <2> QED BY <1>5, <2>1 DEF GiveUp, Typed
<1>6. ASSUME NEW c \in Client, Decide(c) PROVE Typed'
  <2> DEFINE n == request[c].park
             new == Written(request[c], item[n])
  <2>1. Idle \in [at : Kind \cup {"idle"}, on : Item \cup {None},
                  park : 0..MaxParks, covers : SUBSET Item, frees : SUBSET Item]
    BY DEF Idle
  <2>2. item' \in [Park -> [Item -> Answer]]
    <3>1. CASE UNCHANGED item BY <3>1 DEF Typed
    <3>2. CASE StillOpen(n) /\ item' = [item EXCEPT ![n] = new]
      <4>1. new \in [Item -> Answer]
        <5>1. n \in Park
          <6>1. PICK m \in open : n = m BY <3>2, TheOpenPark DEF StillOpen
          <6>2. m \in 1..parked /\ parked \in 0..MaxParks BY DEF Typed
          <6> QED BY <6>1, <6>2 DEF Park
        <5>2. request[c] # Idle BY <1>6 DEF Decide
        <5>3. request[c] \in [at : Kind, on : Item \cup {None}, park : 0..MaxParks,
                              covers : SUBSET Item, frees : SUBSET Item]
          BY <5>2 DEF Typed, OpenInv, AskInv
        <5>4. item[n] \in [Item -> Answer] BY <5>1 DEF Typed
        <5> QED BY <5>3, <5>4, WrittenTyped
      <4> HIDE DEF new
      <4> QED BY <3>2, <4>1 DEF Typed
    <3> QED BY <1>6, <3>1, <3>2 DEF Decide
  <2> QED BY <1>6, <2>1, <2>2 DEF Decide, Typed
<1>7. ASSUME NEW r \in Runner, RunLocks(r) PROVE Typed'
  <2>1. OpenPark \in open BY <1>7, TheOpenPark DEF RunLocks, Reviewable
  <2>2. [NoRun EXCEPT !.at = "locked", !.park = OpenPark]
          \in [at : {"idle", "locked", "committed", "sent", "failing"},
               park : 0..MaxParks, undo : SUBSET Item]
    <3>1. OpenPark \in 1..parked /\ parked \in 0..MaxParks BY <2>1 DEF Typed
    <3>2. OpenPark \in 0..MaxParks BY <3>1
    <3> QED BY <3>2 DEF NoRun
  <2> QED BY <1>7, <2>2 DEF RunLocks, Typed
<1>8. ASSUME NEW r \in Runner, RunCommits(r) PROVE Typed'
  <2> DEFINE n == run[r].park
             undone == [i \in Item |->
                          IF i \in Undecided(n)
                          THEN [Open EXCEPT !.state = "unreviewed"] ELSE item[n][i]]
  <2>1. n \in Park BY <1>8 DEF RunCommits, Typed, LockedIsOpen, Park
  <2>2. undone \in [Item -> Answer] BY <2>1, AnswersTyped DEF Typed
  <2>3. /\ item' = [item EXCEPT ![n] = undone] /\ open' = open \ {n}
        /\ payload' = [park |-> n, sends |-> Directives(item[n])]
        /\ run' = [run EXCEPT ![r] = [at |-> "committed", park |-> n,
                                      undo |-> Undecided(n)]]
        /\ parkLock' = None /\ UNCHANGED <<parked, paired, request>>
    BY <1>8 DEF RunCommits
  <2>4. Undecided(n) \subseteq Item /\ Directives(item[n]) \subseteq Item \X Item
    BY DEF Undecided, Directives
  <2> HIDE DEF undone
  <2> QED BY <2>1, <2>2, <2>3, <2>4 DEF Typed, Park
<1>9. ASSUME NEW r \in Runner, NEW taken \in BOOLEAN, NEW answered \in BOOLEAN,
             Dispatch(r, taken, answered)
      PROVE  Typed'
  BY <1>9 DEF Dispatch, Typed
<1>10. NoRun \in [at : {"idle", "locked", "committed", "sent", "failing"},
                  park : 0..MaxParks, undo : SUBSET Item]
  BY DEF NoRun
<1>11. ASSUME NEW r \in Runner, ConfirmRequeued(r) \/ RunDies(r) \/ Victim(r)
       PROVE  Typed'
  <2>1. CASE ConfirmRequeued(r) BY <1>10, <2>1 DEF ConfirmRequeued, Typed
  <2>2. CASE RunDies(r) BY <1>10, <2>2 DEF RunDies, Typed
  <2>3. CASE Victim(r)
    <3>1. \/ parkLock' = None /\ run' = [run EXCEPT ![r] = NoRun]
          \/ UNCHANGED <<parkLock, run>>
      BY <2>3 DEF Victim
    <3> QED BY <1>10, <2>3, <3>1 DEF Victim, Typed
  <2> QED BY <1>11, <2>1, <2>2, <2>3
<1>12. ASSUME NEW r \in Runner, Compensate(r) PROVE Typed'
  <2> DEFINE n == run[r].park
             back == [i \in Item |->
                        IF i \in run[r].undo /\ item[n][i].state = "unreviewed"
                        THEN Open ELSE item[n][i]]
  <2>1. n \in 1..parked /\ n \in Park
    BY <1>12 DEF Compensate, Typed, LockedIsOpen, Park
  <2>2. back \in [Item -> Answer] BY <2>1, AnswersTyped DEF Typed
  <2>3. /\ \/ item' = [item EXCEPT ![n] = back] /\ open' = open \cup {n}
           \/ UNCHANGED <<open, item>>
        /\ run' = [run EXCEPT ![r] = NoRun]
        /\ UNCHANGED <<parked, paired, parkLock, request, payload>>
    BY <1>12 DEF Compensate
  <2> HIDE DEF back
  <2>4. item' \in [Park -> [Item -> Answer]] BY <2>1, <2>2, <2>3 DEF Typed
  <2>5. open' \subseteq 1..parked BY <2>1, <2>3 DEF Typed
  <2>6. run' \in [Runner -> [at : {"idle", "locked", "committed", "sent", "failing"},
                             park : 0..MaxParks, undo : SUBSET Item]]
    BY <1>10, <2>3 DEF Typed
  <2> QED BY <2>3, <2>4, <2>5, <2>6 DEF Typed
<1>13. CASE CancelCommits
  BY <1>13 DEF CancelCommits, Typed
<1>14. CASE \/ CancelLocks \/ CancelDies \/ Claim \/ ReapFails
            \/ MessageGone \/ ReapRelaunches
  BY <1>14 DEF CancelLocks, CancelDies, Claim, ReapFails, MessageGone,
               ReapRelaunches, Typed
<1>15. ASSUME NEW c \in Client, NEW kind \in {"accept", "leave", "redirect", "group"},
              NEW i \in Item, ReadOne(c, kind, i)
       PROVE  Typed'
  <2>1. GroupScope(OpenPark, i) \subseteq Item BY DEF GroupScope, Asked
  <2> QED BY <1>4, <1>15, <2>1 DEF ReadOne, Kind
<1>16. ASSUME NEW c \in Client,
              NEW kind \in {"all:left", "all:accepted", "all:redirected"},
              ReadAll(c, kind)
       PROVE  Typed'
  <2>1. Undecided(OpenPark) \subseteq Item BY DEF Undecided
  <2> QED BY <1>4, <1>16, <2>1 DEF ReadAll, Kind
<1> QED
  BY <1>1, <1>2, <1>3, <1>5, <1>6, <1>7, <1>8, <1>9, <1>11, <1>12, <1>13, <1>14,
     <1>15, <1>16 DEF Next

\* The request that reads its park, and every other request.
LEMMA AskStep == OpenInv /\ Typed' /\ [Next]_vars => AskInv'
<1> SUFFICES ASSUME OpenInv, Typed', [Next]_vars PROVE AskInv' OBVIOUS
<1> USE DEF reviewVars, lockVars, sendVars, askVars, OpenInv
<1>u. ASSUME UNCHANGED <<parked, request>> PROVE AskInv'
  BY <1>u DEF AskInv
<1>1. ASSUME NEW c \in Client, NEW kind \in Kind, NEW i, NEW covers,
             Read(c, kind, i, covers)
      PROVE  AskInv'
  <2>1. /\ OpenPark \in open /\ UNCHANGED parked
        /\ request' = [request EXCEPT ![c] =
             [at |-> kind, on |-> i, park |-> OpenPark, covers |-> covers,
              frees |-> {m \in Item : item[OpenPark][m].by = i} \ covers]]
    BY <1>1, TheOpenPark DEF Read, Reviewable
  <2>2. /\ request'[c].at = kind /\ request'[c].park = OpenPark
        /\ \A d \in Client : d # c => request'[d] = request[d]
    BY <2>1 DEF Typed
  <2> QED BY <2>1, <2>2 DEF AskInv, Typed
<1>2. ASSUME NEW c \in Client, request' = [request EXCEPT ![c] = Idle],
             UNCHANGED parked
      PROVE  AskInv'
  BY <1>2 DEF AskInv, Typed
<1>3. ASSUME NEW found \in SUBSET Item, NEW unread \in BOOLEAN,
             RunParks(found, unread)
      PROVE  AskInv'
  <2>1. parked' = parked + 1 /\ UNCHANGED request BY <1>3 DEF RunParks
  <2>2. parked \in Nat BY ReviewAssumption DEF Typed
  <2> QED BY <2>1, <2>2 DEF AskInv
<1>4. ASSUME NEW c \in Client, NEW kind \in {"accept", "leave", "redirect", "group"},
             NEW i \in Item, ReadOne(c, kind, i)
      PROVE  AskInv'
  BY <1>1, <1>4 DEF ReadOne, Kind
<1>5. ASSUME NEW c \in Client,
             NEW kind \in {"all:left", "all:accepted", "all:redirected"},
             ReadAll(c, kind)
      PROVE  AskInv'
  BY <1>1, <1>5 DEF ReadAll, Kind
<1>6. ASSUME NEW c \in Client, GiveUp(c) \/ Decide(c) PROVE AskInv'
  BY <1>2, <1>6 DEF GiveUp, Decide
<1>7. ASSUME NEW r \in Runner,
             \/ RunLocks(r) \/ RunCommits(r) \/ ConfirmRequeued(r)
             \/ Compensate(r) \/ RunDies(r) \/ Victim(r)
             \/ \E taken, answered \in BOOLEAN : Dispatch(r, taken, answered)
      PROVE  AskInv'
  BY <1>7, <1>u DEF RunLocks, RunCommits, ConfirmRequeued, Compensate, RunDies,
                    Victim, Dispatch
<1>8. CASE \/ CancelLocks \/ CancelCommits \/ CancelDies \/ Claim \/ ReapFails
           \/ MessageGone \/ ReapRelaunches
           \/ \E to \in {"succeeded", "failed"} : RunEnds(to)
  BY <1>8, <1>u DEF CancelLocks, CancelCommits, CancelDies, Claim, ReapFails,
                    MessageGone, ReapRelaunches, RunEnds
<1> QED BY <1>u, <1>3, <1>4, <1>5, <1>6, <1>7, <1>8 DEF Next, vars

----------------------------------------------------------------------------
(* What is dispatched, and who is answered for.                            *)

\* The payload of a released re-run, until it runs.
PayloadInv ==
  status = "pending" => /\ payload.park \in Park
                        /\ payload.sends = Directives(item[payload.park])

\* run_review writes the payload; an answer is written to an open park only,
\* and none is open while the job is released.
LEMMA PayloadStep == OpenInv /\ OpenInv' /\ PayloadInv /\ [Next]_vars => PayloadInv'
<1> SUFFICES ASSUME OpenInv, OpenInv', PayloadInv, [Next]_vars PROVE PayloadInv'
  OBVIOUS
<1> USE DEF reviewVars, lockVars, sendVars, askVars
<1>u. ASSUME UNCHANGED <<status, item, payload>> PROVE PayloadInv'
  BY <1>u DEF PayloadInv, Directives
<1>1. ASSUME NEW r \in Runner, RunCommits(r) PROVE PayloadInv'
  <2> DEFINE n == run[r].park
  <2>1. n \in Park BY <1>1 DEF RunCommits, OpenInv, Typed, LockedIsOpen, Park
  <2>2. /\ payload' = [park |-> n, sends |-> Directives(item[n])]
        /\ item' = [item EXCEPT ![n] = [i \in Item |->
             IF i \in Undecided(n) THEN [Open EXCEPT !.state = "unreviewed"]
             ELSE item[n][i]]]
    BY <1>1 DEF RunCommits
  <2>3. \A i \in Item :
          item'[n][i] = IF i \in Undecided(n) THEN [Open EXCEPT !.state = "unreviewed"]
                        ELSE item[n][i]
    BY <2>1, <2>2 DEF OpenInv, Typed
  <2>4. \A i \in Item : i \in Undecided(n) => item[n][i].state = "open"
    BY DEF Undecided
  <2>5. Directives(item'[n]) = Directives(item[n])
    <3>1. \A d \in Item \X Item :
            (/\ item'[n][d[1]].state \in {"accepted", "redirected"}
             /\ d[2] \in item'[n][d[1]].aims)
            <=> (/\ item[n][d[1]].state \in {"accepted", "redirected"}
                 /\ d[2] \in item[n][d[1]].aims)
      BY <2>3, <2>4, AnswersTyped
    <3> QED BY <3>1 DEF Directives
  <2> QED BY <2>1, <2>2, <2>5 DEF PayloadInv
<1>2. ASSUME status' # "pending" PROVE PayloadInv'
  BY <1>2 DEF PayloadInv
<1>3. ASSUME NEW c \in Client, Decide(c) PROVE PayloadInv'
  <2>1. CASE status = "pending"
    <3>1. open = {} BY <2>1 DEF OpenInv, ParkedIsReviewable
    <3> QED BY <1>3, <3>1, <1>u DEF Decide, StillOpen
  <2>2. CASE status # "pending"
    BY <1>2, <1>3, <2>2 DEF Decide
  <2> QED BY <2>1, <2>2
<1>4. ASSUME NEW r \in Runner, Compensate(r) PROVE PayloadInv'
  BY <1>2, <1>4, <1>u DEF Compensate
<1>5. ASSUME NEW r \in Runner,
             \/ RunLocks(r) \/ ConfirmRequeued(r) \/ RunDies(r) \/ Victim(r)
             \/ \E taken, answered \in BOOLEAN : Dispatch(r, taken, answered)
      PROVE  PayloadInv'
  BY <1>5, <1>u DEF RunLocks, ConfirmRequeued, RunDies, Victim, Dispatch
<1>6. CASE CancelLocks \/ CancelDies \/ MessageGone \/ ReapRelaunches
  BY <1>6, <1>u DEF CancelLocks, CancelDies, MessageGone, ReapRelaunches
<1>7. CASE \/ CancelCommits \/ Claim \/ ReapFails
           \/ \E to \in {"succeeded", "failed"} : RunEnds(to)
           \/ \E found \in SUBSET Item, unread \in BOOLEAN : RunParks(found, unread)
  BY <1>7, <1>2 DEF CancelCommits, Claim, ReapFails, RunEnds, RunParks
<1>8. ASSUME NEW c \in Client,
             \/ GiveUp(c)
             \/ \E kind \in {"accept", "leave", "redirect", "group"}, i \in Item :
                  ReadOne(c, kind, i)
             \/ \E kind \in {"all:left", "all:accepted", "all:redirected"} :
                  ReadAll(c, kind)
      PROVE  PayloadInv'
  BY <1>8, <1>u DEF GiveUp, ReadOne, ReadAll, Read
<1> QED
  BY <1>u, <1>1, <1>3, <1>4, <1>5, <1>6, <1>7, <1>8 DEF Next, vars

\* A request under way means to cover no paired defect; one that answers for
\* itself was asked, and "apply to all" found no paired defect in its park.
Meant(c) ==
  request[c] # Idle =>
    /\ request[c].covers \cap paired = {}
    /\ request[c].on # None
         => item[request[c].park][request[c].on].state # "absent"
    /\ request[c].on = None
         => \A i \in paired : item[request[c].park][i].state = "absent"

PairInv == PairedIsAnsweredAlone /\ \A c \in Client : Meant(c)

\* What a step may do to the items: nobody is asked later in a park that was
\* written, and a paired defect keeps an answer of its own.
Faithful ==
  /\ \A n \in 1..parked, i \in Item :
       item[n][i].state # "absent" => item'[n][i].state # "absent"
  /\ \A n \in 1..parked, i \in paired :
       item[n][i].state = "absent" => item'[n][i].state = "absent"

LEMMA PairFrame ==
  ASSUME OpenInv, PairInv, Faithful, PairedIsAnsweredAlone', UNCHANGED paired,
         \A c \in Client : request'[c] \in {request[c], Idle}
  PROVE  PairInv'
<1> SUFFICES ASSUME NEW c \in Client PROVE Meant(c)' BY DEF PairInv
<1>1. CASE request'[c] = Idle BY <1>1 DEF Meant
<1>2. CASE request'[c] = request[c] /\ request[c] # Idle
  <2>1. request[c].park \in 1..parked /\ request[c].on \in Item \cup {None}
    BY <1>2 DEF OpenInv, AskInv, Typed
  <2> QED BY <1>2, <2>1 DEF Meant, PairInv, Faithful
<1> QED BY <1>1, <1>2

\* record_decision, _group_scope, apply_to_all.
LEMMA DecidePaired ==
  ASSUME OpenInv, PairInv, NEW c \in Client, Decide(c)
  PROVE  PairInv'
<1> DEFINE q == request[c]
           n == q.park
<1>1. /\ q # Idle /\ q.at \in Kind /\ n \in 1..parked /\ n \in Park
      /\ q.on \in Item \cup {None} /\ q.covers \subseteq Item
  <2>1. q # Idle BY DEF Decide
  <2>2. parked \in 0..MaxParks /\ MaxParks \in Nat
    BY ReviewAssumption DEF OpenInv, Typed
  <2> QED BY <2>1, <2>2 DEF OpenInv, AskInv, Typed, Park
<1>2. \A d \in Client : request'[d] \in {request[d], Idle}
  BY DEF Decide, OpenInv, Typed, askVars
<1>3. UNCHANGED paired BY DEF Decide
<1>4. CASE UNCHANGED item
  <2>1. Faithful BY <1>4 DEF Faithful
  <2>2. PairedIsAnsweredAlone' BY <1>3, <1>4 DEF PairInv, PairedIsAnsweredAlone
  <2> QED BY <1>2, <1>3, <2>1, <2>2, PairFrame
<1>5. CASE item' = [item EXCEPT ![n] = Written(q, item[n])]
  <2>1. /\ item \in [Park -> [Item -> Answer]] /\ paired \subseteq Item
        /\ None \notin Item
    BY ReviewAssumption DEF OpenInv, Typed
  <2>2. /\ \A m \in Park : m # n => item'[m] = item[m]
        /\ item'[n] = Written(q, item[n])
    BY <1>1, <1>5, <2>1
  <2>3. \A i \in Item : Written(q, item[n])[i].state # "absent"
                         \/ Written(q, item[n])[i] = item[n][i]
    <3> SUFFICES ASSUME NEW i \in Item
                 PROVE  \/ Written(q, item[n])[i].state # "absent"
                        \/ Written(q, item[n])[i] = item[n][i]
      OBVIOUS
    <3>1. ToAll(q, i).state # "absent" /\ Alone(q).state # "absent"
      BY DEF ToAll, Alone
    <3> HIDE DEF n, q
    <3> QED BY <3>1, AnswersTyped DEF Written
  <2>4. ASSUME NEW i \in paired
        PROVE  /\ Written(q, item[n])[i].by = None
               /\ \A j \in Item \ {i} : i \notin Written(q, item[n])[j].aims
               /\ item[n][i].state = "absent"
                    => Written(q, item[n])[i].state = "absent"
    <3>1. /\ item[n][i].by = None /\ i \in Item /\ i \notin q.covers
          /\ \A j \in Item \ {i} : i \notin item[n][j].aims
      BY <1>1, <2>1 DEF PairInv, PairedIsAnsweredAlone, Meant
    <3>2. CASE q.on = None
      <4>1. item[n][i].state = "absent" BY <1>1, <3>2 DEF PairInv, Meant
      <4>2. i \notin Answered(q, item[n]) BY <3>1, <3>2, <4>1 DEF Answered
      <4>3. Written(q, item[n])[i] = item[n][i] BY <3>1, <3>2, <4>2 DEF Written
      <4>4. ASSUME NEW j \in Item \ {i} PROVE i \notin Written(q, item[n])[j].aims
        <5>1. i \notin ToAll(q, j).aims BY DEF ToAll
        <5>2. Written(q, item[n])[j] \in {ToAll(q, j), item[n][j]}
          BY <3>2 DEF Written
        <5> QED BY <3>1, <5>1, <5>2
      <4> QED BY <3>1, <4>3, <4>4
    <3>3. CASE q.on # None
      <4>1. item[n][q.on].state # "absent" BY <1>1, <3>3 DEF PairInv, Meant
      <4>2. Alone(q).by = None /\ (q.on # i => i \notin Alone(q).aims)
        BY <3>1 DEF Alone
      <4>3. /\ q.on = i => Written(q, item[n])[i] = Alone(q)
            /\ q.on # i => Written(q, item[n])[i] = item[n][i]
        BY <2>1, <3>1, <3>3 DEF Written
      <4>4. ASSUME NEW j \in Item \ {i} PROVE i \notin Written(q, item[n])[j].aims
        <5>1. CASE j = q.on BY <3>3, <4>2, <5>1 DEF Written
        <5>2. CASE j # q.on
          <6>1. Written(q, item[n])[j] \in
                  {[state |-> "redirected", by |-> q.on, aims |-> {}], Open, item[n][j]}
            BY <3>3, <5>2 DEF Written
          <6> QED BY <3>1, <6>1, AnswersTyped
        <5> QED BY <5>1, <5>2
      <4> QED BY <3>1, <4>1, <4>2, <4>3, <4>4
    <3> QED BY <3>2, <3>3
  <2> HIDE DEF q, n
  <2>5. Faithful
    <3> SUFFICES ASSUME NEW m \in 1..parked
                 PROVE  /\ \A i \in Item : item[m][i].state # "absent"
                                            => item'[m][i].state # "absent"
                        /\ \A i \in paired : item[m][i].state = "absent"
                                            => item'[m][i].state = "absent"
      BY DEF Faithful
    <3>1. m \in Park
      BY ReviewAssumption DEF OpenInv, Typed, Park
    <3>2. CASE m # n BY <2>2, <3>1, <3>2
    <3>3. CASE m = n BY <2>2, <2>3, <2>4, <3>3
    <3> QED BY <3>2, <3>3
  <2>6. PairedIsAnsweredAlone'
    BY <1>3, <2>2, <2>4 DEF PairInv, PairedIsAnsweredAlone
  <2> QED BY <1>2, <1>3, <2>5, <2>6, PairFrame
<1> QED BY <1>4, <1>5 DEF Decide

\* review_decision: what is read before an answer is written.
LEMMA ReadPaired ==
  ASSUME OpenInv, PairInv, NEW c \in Client, NEW kind, NEW i \in Item \cup {None},
         NEW covers, Read(c, kind, i, covers), covers \cap paired = {},
         i # None => i \in Asked(OpenPark),
         i = None => Asked(OpenPark) \cap paired = {}
  PROVE  PairInv'
<1>1. /\ UNCHANGED <<item, paired>>
      /\ request' = [request EXCEPT ![c] =
           [at |-> kind, on |-> i, park |-> OpenPark, covers |-> covers,
            frees |-> {m \in Item : item[OpenPark][m].by = i} \ covers]]
  BY DEF Read, reviewVars
<1>2. PairedIsAnsweredAlone' BY <1>1 DEF PairInv, PairedIsAnsweredAlone
<1> SUFFICES ASSUME NEW d \in Client PROVE Meant(d)' BY <1>2 DEF PairInv
<1>3. CASE d # c
  <2>1. request'[d] = request[d] BY <1>1, <1>3 DEF OpenInv, Typed
  <2> QED BY <1>1, <2>1 DEF Meant, PairInv
<1>4. CASE d = c
  <2>1. /\ request'[d].covers = covers /\ request'[d].on = i
        /\ request'[d].park = OpenPark
    BY <1>1, <1>4 DEF OpenInv, Typed
  <2>2. \A j \in Item : j \in Asked(OpenPark) <=> item[OpenPark][j].state # "absent"
    BY DEF Asked
  <2>3. paired \subseteq Item BY DEF OpenInv, Typed
  <2> QED BY <1>1, <2>1, <2>2, <2>3 DEF Meant
<1> QED BY <1>3, <1>4

LEMMA PairStep == OpenInv /\ PairInv /\ [Next]_vars => PairInv'
<1> SUFFICES ASSUME OpenInv, PairInv, [Next]_vars PROVE PairInv' OBVIOUS
<1> USE DEF reviewVars, lockVars, sendVars, askVars
<1>u. ASSUME UNCHANGED <<item, paired, request>> PROVE PairInv'
  BY <1>u DEF PairInv, PairedIsAnsweredAlone, Meant
<1>1. ASSUME NEW c \in Client, NEW kind \in {"accept", "leave", "redirect", "group"},
             NEW i \in Item, ReadOne(c, kind, i)
      PROVE  PairInv'
  <2> DEFINE covers == IF kind = "group" THEN GroupScope(OpenPark, i) ELSE {}
  <2>1. covers \cap paired = {} BY DEF GroupScope
  <2>2. Read(c, kind, i, covers) /\ i \in Asked(OpenPark) /\ i # None
    BY <1>1, ReviewAssumption DEF ReadOne
  <2> HIDE DEF covers
  <2> QED BY <2>1, <2>2, ReadPaired
<1>2. ASSUME NEW c \in Client, NEW kind, ReadAll(c, kind) PROVE PairInv'
  <2>1. /\ Read(c, kind, None, Undecided(OpenPark))
        /\ Asked(OpenPark) \cap paired = {}
    BY <1>2 DEF ReadAll
  <2>2. Undecided(OpenPark) \subseteq Asked(OpenPark) BY DEF Undecided, Asked
  <2> QED BY <2>1, <2>2, ReadPaired
<1>3. ASSUME NEW c \in Client, Decide(c) PROVE PairInv' BY <1>3, DecidePaired
<1>4. ASSUME NEW c \in Client, GiveUp(c) PROVE PairInv'
  <2>1. /\ \A d \in Client : request'[d] \in {request[d], Idle}
        /\ UNCHANGED <<item, paired>>
    BY <1>4 DEF GiveUp, OpenInv, Typed
  <2> QED
    BY <2>1, PairFrame DEF Faithful, PairInv, PairedIsAnsweredAlone
<1>5. ASSUME NEW found \in SUBSET Item, NEW unread \in BOOLEAN,
             RunParks(found, unread)
      PROVE  PairInv'
  <2> DEFINE n == parked + 1
             asked == IF unread THEN found ELSE found \ SettledLeft
             fresh == [i \in Item |-> IF i \in asked THEN Open ELSE Absent]
  <2>1. /\ item' = [item EXCEPT ![n] = fresh] /\ UNCHANGED <<paired, request>>
    BY <1>5 DEF RunParks
  <2>2. \A i \in Item : fresh[i].by = None /\ fresh[i].aims = {}
    BY AnswersTyped
  <2> HIDE DEF fresh
  <2>3. parked \in Nat BY ReviewAssumption DEF OpenInv, Typed
  <2>4. \A m \in Park : item'[m] = IF m = n THEN fresh ELSE item[m]
    BY <2>1 DEF OpenInv, Typed
  <2>5. Faithful
    <3>1. \A m \in 1..parked : m \in Park /\ m # n
      BY <2>3, ReviewAssumption DEF OpenInv, Typed, Park
    <3> QED BY <2>4, <3>1 DEF Faithful
  <2>6. PairedIsAnsweredAlone'
    BY <2>1, <2>2, <2>4 DEF PairInv, PairedIsAnsweredAlone, OpenInv, Typed
  <2> QED BY <2>1, <2>5, <2>6, PairFrame
<1>6. ASSUME NEW r \in Runner, NEW given,
             \A i \in Item : \/ given[i] = item[run[r].park][i]
                             \/ /\ item[run[r].park][i].state # "absent"
                                /\ given[i].state # "absent"
                                /\ given[i].by = None /\ given[i].aims = {},
             run[r].park \in 1..parked,
             item' = [item EXCEPT ![run[r].park] = given],
             UNCHANGED <<paired, request>>
      PROVE  PairInv'
  <2>1. \A m \in Park : item'[m] = IF m = run[r].park THEN given ELSE item[m]
    BY <1>6 DEF OpenInv, Typed
  <2>2. 1..parked \subseteq Park
    BY ReviewAssumption DEF OpenInv, Typed, Park
  <2>3. paired \subseteq Item BY DEF OpenInv, Typed
  <2>4. Faithful BY <1>6, <2>1, <2>2, <2>3 DEF Faithful
  <2>5. PairedIsAnsweredAlone'
    BY <1>6, <2>1, <2>3 DEF PairInv, PairedIsAnsweredAlone
  <2> QED BY <1>6, <2>4, <2>5, PairFrame
<1>7. ASSUME NEW r \in Runner, RunCommits(r) PROVE PairInv'
  <2> DEFINE n == run[r].park
             given == [i \in Item |->
                         IF i \in Undecided(n)
                         THEN [Open EXCEPT !.state = "unreviewed"] ELSE item[n][i]]
  <2>1. n \in 1..parked BY <1>7 DEF RunCommits, OpenInv, LockedIsOpen
  <2>2. item' = [item EXCEPT ![n] = given] /\ UNCHANGED <<paired, request>>
    BY <1>7 DEF RunCommits
  <2>3. \A i \in Item : i \in Undecided(n) => item[n][i].state = "open"
    BY DEF Undecided
  <2>4. \A i \in Item : \/ given[i] = item[n][i]
                        \/ /\ item[n][i].state # "absent"
                           /\ given[i].state # "absent"
                           /\ given[i].by = None /\ given[i].aims = {}
    BY <2>3, AnswersTyped
  <2> HIDE DEF given
  <2> QED BY <1>6, <2>1, <2>2, <2>4
<1>8. ASSUME NEW r \in Runner, Compensate(r) PROVE PairInv'
  <2> DEFINE n == run[r].park
             given == [i \in Item |->
                         IF i \in run[r].undo /\ item[n][i].state = "unreviewed"
                         THEN Open ELSE item[n][i]]
  <2>1. n \in 1..parked BY <1>8 DEF Compensate, OpenInv, LockedIsOpen
  <2>2. \/ item' = [item EXCEPT ![n] = given] /\ UNCHANGED <<paired, request>>
        \/ UNCHANGED <<item, paired, request>>
    BY <1>8 DEF Compensate
  <2>4. \A i \in Item : \/ given[i] = item[n][i]
                        \/ /\ item[n][i].state # "absent"
                           /\ given[i].state # "absent"
                           /\ given[i].by = None /\ given[i].aims = {}
    BY AnswersTyped
  <2> HIDE DEF given
  <2> QED BY <1>6, <1>u, <2>1, <2>2, <2>4
<1>9. ASSUME NEW r \in Runner,
             \/ RunLocks(r) \/ ConfirmRequeued(r) \/ RunDies(r) \/ Victim(r)
             \/ \E taken, answered \in BOOLEAN : Dispatch(r, taken, answered)
      PROVE  PairInv'
  BY <1>9, <1>u DEF RunLocks, ConfirmRequeued, RunDies, Victim, Dispatch
<1>10. CASE \/ CancelLocks \/ CancelCommits \/ CancelDies \/ Claim \/ ReapFails
            \/ MessageGone \/ ReapRelaunches
            \/ \E to \in {"succeeded", "failed"} : RunEnds(to)
  BY <1>10, <1>u DEF CancelLocks, CancelCommits, CancelDies, Claim, ReapFails,
                     MessageGone, ReapRelaunches, RunEnds
<1> QED
  BY <1>u, <1>1, <1>2, <1>3, <1>4, <1>5, <1>7, <1>8, <1>9, <1>10 DEF Next, vars

----------------------------------------------------------------------------
(* The order of the decisions.                                             *)

\* h puts the parks of held in one order.
Ranks(h, held) ==
  /\ h \in SUBSET (Park \X Park)
  /\ \A m, n \in Park : <<m, n>> \in h \/ <<n, m>> \in h <=> {m, n} \subseteq held
  /\ \A k, m, n \in Park : <<k, m>> \in h /\ <<m, n>> \in h
                            => <<k, n>> \in h /\ (k = n => k = m)

\* The rows with a decision on the defect.
Held(i) == {n \in Park : item[n][i].state \in Decided}

\* Every defect's decisions are in one order, and a park yet to come has none.
HistoryInv ==
  /\ history \in [Item -> SUBSET (Park \X Park)]
  /\ \A i \in Item : Ranks(history[i], Held(i))
  /\ \A n \in Park, i \in Item : n > parked => item[n][i].state = "absent"

\* decided_items: the dated rows are the decided ones.
LEMMA DecisionsHeld ==
  ASSUME NEW i, NEW held \in SUBSET Park, Ranks(history[i], held)
  PROVE  Decisions(i) = held
BY DEF Decisions, Ranks

\* A row that loses its date leaves the order of the others as it was.
LEMMA UndatedRanks ==
  ASSUME NEW i, NEW held \in SUBSET Park, Ranks(history[i], held), NEW n \in Park
  PROVE  Ranks(Undated(i, n), held \ {n})
<1>1. \A k, m \in Park : <<k, m>> \in Undated(i, n)
                          <=> <<k, m>> \in history[i] /\ k # n /\ m # n
  BY DEF Undated
<1>2. Undated(i, n) \in SUBSET (Park \X Park) BY DEF Undated, Ranks
<1> QED BY <1>1, <1>2 DEF Ranks

\* A row dated now comes after every other.
LEMMA LatestRanks ==
  ASSUME NEW i, NEW held \in SUBSET Park, Ranks(history[i], held), NEW n \in Park
  PROVE  Ranks(Latest(i, n), held \cup {n})
<1>1. \A k, m \in Park :
        <<k, m>> \in Latest(i, n)
          <=> \/ <<k, m>> \in history[i] /\ k # n /\ m # n
              \/ k \in held \cup {n} /\ m = n
  BY DecisionsHeld DEF Latest, Undated
<1>2. Latest(i, n) \in SUBSET (Park \X Park)
  <2>1. Decisions(i) = held BY DecisionsHeld
  <2>2. Undated(i, n) \subseteq Park \X Park BY DEF Undated, Ranks
  <2> QED BY <2>1, <2>2 DEF Latest
<1>3. ASSUME NEW k \in Park, NEW m \in Park
      PROVE  <<k, m>> \in Latest(i, n) \/ <<m, k>> \in Latest(i, n)
               <=> {k, m} \subseteq held \cup {n}
  <2>1. <<k, m>> \in history[i] \/ <<m, k>> \in history[i] <=> {k, m} \subseteq held
    BY DEF Ranks
  <2> QED BY <1>1, <2>1
<1>4. ASSUME NEW k \in Park, NEW m \in Park, NEW l \in Park,
             <<k, m>> \in Latest(i, n), <<m, l>> \in Latest(i, n)
      PROVE  <<k, l>> \in Latest(i, n) /\ (k = l => k = m)
  <2>1. <<k, m>> \in history[i] /\ <<m, l>> \in history[i]
          => <<k, l>> \in history[i] /\ (k = l => k = m)
    BY DEF Ranks
  <2>2. <<k, m>> \in history[i] => k \in held BY DEF Ranks
  <2> QED BY <1>1, <1>4, <2>1, <2>2
<1> QED BY <1>2, <1>3, <1>4 DEF Ranks

\* record_decision, record_group_decision, restore_open, reopen_covered: what
\* is written with a decision is dated, what is reopened is not.
LEMMA DatedKeepsOrder ==
  ASSUME Typed, HistoryInv, NEW n \in 1..parked, NEW decided, NEW new,
         \A i \in Item \cap decided : new[i].state \in Decided,
         \A i \in Item \ decided : new[i] = Open \/ new[i] = item[n][i],
         \A m \in Park : item'[m] = IF m = n THEN new ELSE item[m],
         history' = Dated(n, decided, new), UNCHANGED parked
  PROVE  HistoryInv'
<1>1. n \in Park /\ ~(n > parked)
  BY ReviewAssumption DEF Typed, Park
<1>2. \A m \in Park : item'[m] = IF m = n THEN new ELSE item[m] OBVIOUS
<1>3. ASSUME NEW i \in Item PROVE Ranks(history'[i], Held(i)')
  <2>1. /\ Ranks(history[i], Held(i)) /\ Held(i) \in SUBSET Park
        /\ history'[i] = CASE i \in decided -> Latest(i, n)
                           [] new[i] = Open -> Undated(i, n)
                           [] OTHER -> history[i]
    BY DEF HistoryInv, Held, Dated
  <2>2. Held(i)' = IF new[i].state \in Decided THEN Held(i) \cup {n} ELSE Held(i) \ {n}
    BY <1>1, <1>2 DEF Held
  <2>3. CASE i \in decided
    <3>1. new[i].state \in Decided BY <2>3
    <3>2. new[i] # Open BY <3>1, AnswersTyped DEF Decided
    <3>3. history'[i] = Latest(i, n) /\ Held(i)' = Held(i) \cup {n}
      BY <2>1, <2>2, <2>3, <3>1, <3>2
    <3>4. Ranks(Latest(i, n), Held(i) \cup {n}) BY <1>1, <2>1, LatestRanks
    <3> QED BY <3>3, <3>4
  <2>4. CASE i \notin decided /\ new[i] = Open
    <3>1. new[i].state \notin Decided BY <2>4, AnswersTyped DEF Decided
    <3>2. history'[i] = Undated(i, n) /\ Held(i)' = Held(i) \ {n}
      BY <2>1, <2>2, <2>4, <3>1
    <3>3. Ranks(Undated(i, n), Held(i) \ {n}) BY <1>1, <2>1, UndatedRanks
    <3> QED BY <3>2, <3>3
  <2>5. CASE i \notin decided /\ new[i] # Open
    <3>1. new[i] = item[n][i] /\ history'[i] = history[i] BY <2>1, <2>5
    <3>2. Held(i)' = Held(i) BY <1>1, <2>2, <3>1 DEF Held
    <3> QED BY <2>1, <3>1, <3>2
  <2> QED BY <2>3, <2>4, <2>5
<1>4. ASSUME NEW m \in Park, NEW i \in Item, m > parked'
      PROVE  item'[m][i].state = "absent"
  BY <1>1, <1>2, <1>4 DEF HistoryInv
<1>5. history' \in [Item -> SUBSET (Park \X Park)]
  <2>1. /\ history' = [i \in Item |-> history'[i]]
        /\ \A i \in Item : history'[i] \in SUBSET (Park \X Park)
    BY <1>3 DEF Dated, Ranks
  <2> QED BY <2>1
<1> QED BY <1>3, <1>4, <1>5 DEF HistoryInv

LEMMA HistoryStep == OpenInv /\ HistoryInv /\ [Next]_vars => HistoryInv'
<1> SUFFICES ASSUME OpenInv, HistoryInv, [Next]_vars PROVE HistoryInv' OBVIOUS
<1> USE DEF reviewVars, lockVars, sendVars, askVars
<1>u. ASSUME UNCHANGED <<item, history, parked>> PROVE HistoryInv'
  BY <1>u DEF HistoryInv, Held, Ranks
<1>1. ASSUME NEW found \in SUBSET Item, NEW unread \in BOOLEAN,
             RunParks(found, unread)
      PROVE  HistoryInv'
  <2> DEFINE n == parked + 1
             asked == IF unread THEN found ELSE found \ SettledLeft
             fresh == [i \in Item |-> IF i \in asked THEN Open ELSE Absent]
  <2>1. /\ item' = [item EXCEPT ![n] = fresh] /\ parked' = n /\ n \in Park
        /\ parked \in Nat /\ UNCHANGED history
    BY <1>1, ReviewAssumption DEF RunParks, OpenInv, Typed, Park
  <2>2. \A i \in Item : fresh[i].state \notin Decided
    BY AnswersTyped DEF Decided
  <2>3. \A i \in Item : item[n][i].state \notin Decided
    BY <2>1 DEF HistoryInv, Decided
  <2> HIDE DEF fresh
  <2>4. \A m \in Park : item'[m] = IF m = n THEN fresh ELSE item[m]
    BY <2>1 DEF OpenInv, Typed
  <2>5. \A i \in Item : Held(i)' = Held(i) BY <2>2, <2>3, <2>4 DEF Held
  <2>6. ASSUME NEW m \in Park, NEW i \in Item, m > parked'
        PROVE  item'[m][i].state = "absent"
    <3>1. m \in Nat BY DEF Park
    <3>2. m # n /\ m > parked BY <2>1, <2>6, <3>1
    <3> QED BY <2>4, <3>2 DEF HistoryInv
  <2> QED BY <2>1, <2>5, <2>6 DEF HistoryInv, Ranks
<1>2. ASSUME NEW c \in Client, Decide(c) PROVE HistoryInv'
  <2> DEFINE q == request[c]
             n == q.park
             new == Written(q, item[n])
  <2>1. q # Idle /\ q.at \in Kind /\ n \in 1..parked /\ UNCHANGED parked
    BY <1>2 DEF Decide, OpenInv, AskInv
  <2>2. CASE UNCHANGED <<item, history>> BY <1>u, <2>1, <2>2
  <2>3. CASE /\ item' = [item EXCEPT ![n] = new]
             /\ history' = Dated(n, Answered(q, item[n]), new)
    <3>1. ASSUME NEW i \in Item
          PROVE  /\ i \in Answered(q, item[n]) => new[i].state \in Decided
                 /\ \/ i \in Answered(q, item[n])
                    \/ new[i] = Open \/ new[i] = item[n][i]
      <4>1. ToAll(q, i).state \in Decided /\ Alone(q).state \in Decided
        BY DEF ToAll, Alone, Decided
      <4>2. CASE q.on = None
        <5>1. new[i] = IF i \in Answered(q, item[n]) THEN ToAll(q, i) ELSE item[n][i]
          BY <4>2 DEF Written
        <5> QED BY <4>1, <5>1
      <4>3. CASE q.on # None
        <5>1. Answered(q, item[n]) = {q.on} \cup q.covers BY <4>3 DEF Answered
        <5>2. new[i] = IF i = q.on THEN Alone(q)
                       ELSE IF i \in q.covers
                       THEN [state |-> "redirected", by |-> q.on, aims |-> {}]
                       ELSE IF i \in q.frees /\ item[n][i].by \in Item THEN Open
                       ELSE item[n][i]
          BY <4>3 DEF Written
        <5> QED BY <4>1, <5>1, <5>2 DEF Decided
      <4> QED BY <4>2, <4>3
    <3> HIDE DEF new, q
    <3>2. Typed BY DEF OpenInv
    <3>3. \A m \in Park : item'[m] = IF m = n THEN new ELSE item[m]
      BY <2>3, <3>2 DEF Typed
    <3> QED BY <2>1, <2>3, <3>1, <3>2, <3>3, DatedKeepsOrder
  <2> QED BY <1>2, <2>2, <2>3 DEF Decide
<1>3. ASSUME NEW r \in Runner, RunCommits(r) PROVE HistoryInv'
  <2> DEFINE n == run[r].park
             new == [i \in Item |->
                       IF i \in Undecided(n)
                       THEN [Open EXCEPT !.state = "unreviewed"] ELSE item[n][i]]
  <2>1. n \in 1..parked /\ Typed BY <1>3 DEF RunCommits, OpenInv, LockedIsOpen
  <2>2. /\ item' = [item EXCEPT ![n] = new] /\ UNCHANGED parked
        /\ history' = Dated(n, Undecided(n), item'[n])
    BY <1>3 DEF RunCommits
  <2>3. /\ \A i \in Item \cap Undecided(n) : new[i].state \in Decided
        /\ \A i \in Item \ Undecided(n) : new[i] = item[n][i]
    BY AnswersTyped DEF Decided
  <2> HIDE DEF new
  <2>4. \A m \in Park : item'[m] = IF m = n THEN new ELSE item[m]
    BY <2>1, <2>2 DEF Typed
  <2>5. item'[n] = new BY <2>1, <2>4, ReviewAssumption DEF Typed, Park
  <2> QED BY <2>1, <2>2, <2>3, <2>4, <2>5, DatedKeepsOrder
<1>4. ASSUME NEW r \in Runner, Compensate(r) PROVE HistoryInv'
  <2> DEFINE n == run[r].park
             new == [i \in Item |->
                       IF i \in run[r].undo /\ item[n][i].state = "unreviewed"
                       THEN Open ELSE item[n][i]]
  <2>1. n \in 1..parked /\ Typed BY <1>4 DEF Compensate, OpenInv, LockedIsOpen
  <2>2. \/ /\ item' = [item EXCEPT ![n] = new] /\ UNCHANGED parked
           /\ history' = Dated(n, {}, item'[n])
        \/ UNCHANGED <<item, history, parked>>
    BY <1>4 DEF Compensate
  <2>3. \A i \in Item : new[i] \in {Open, item[n][i]} OBVIOUS
  <2> HIDE DEF new
  <2>4. item' = [item EXCEPT ![n] = new] => item'[n] = new
    BY <2>1, ReviewAssumption DEF Typed, Park
  <2>5. CASE UNCHANGED <<item, history, parked>> BY <1>u, <2>5
  <2>6. CASE /\ item' = [item EXCEPT ![n] = new] /\ UNCHANGED parked
             /\ history' = Dated(n, {}, new)
    <3>1. /\ \A i \in Item \cap {} : new[i].state \in Decided
          /\ \A i \in Item \ {} : new[i] = Open \/ new[i] = item[n][i]
      BY <2>3
    <3>2. \A m \in Park : item'[m] = IF m = n THEN new ELSE item[m]
      BY <2>1, <2>6 DEF Typed
    <3> QED BY <2>1, <2>6, <3>1, <3>2, DatedKeepsOrder
  <2> QED BY <2>2, <2>4, <2>5, <2>6
<1>5. ASSUME NEW r \in Runner,
             \/ RunLocks(r) \/ ConfirmRequeued(r) \/ RunDies(r) \/ Victim(r)
             \/ \E taken, answered \in BOOLEAN : Dispatch(r, taken, answered)
      PROVE  HistoryInv'
  BY <1>5, <1>u DEF RunLocks, ConfirmRequeued, RunDies, Victim, Dispatch
<1>6. ASSUME NEW c \in Client,
             \/ GiveUp(c)
             \/ \E kind \in {"accept", "leave", "redirect", "group"}, i \in Item :
                  ReadOne(c, kind, i)
             \/ \E kind \in {"all:left", "all:accepted", "all:redirected"} :
                  ReadAll(c, kind)
      PROVE  HistoryInv'
  BY <1>6, <1>u DEF GiveUp, ReadOne, ReadAll, Read
<1>7. CASE \/ CancelLocks \/ CancelCommits \/ CancelDies \/ Claim \/ ReapFails
           \/ MessageGone \/ ReapRelaunches
           \/ \E to \in {"succeeded", "failed"} : RunEnds(to)
  BY <1>7, <1>u DEF CancelLocks, CancelCommits, CancelDies, Claim, ReapFails,
                    MessageGone, ReapRelaunches, RunEnds
<1> QED
  BY <1>u, <1>1, <1>2, <1>3, <1>4, <1>5, <1>6, <1>7 DEF Next, vars

----------------------------------------------------------------------------
(* The job's status.                                                       *)

\* cancel_job: the row it locked is still one that may be cancelled.
CancelFoundAlive == jobLock => status \in {"running", "pending_review", "pending"}

LEMMA LifecycleStep ==
  CancelFoundAlive /\ [Next]_vars =>
    CancelFoundAlive' /\ [\E to \in Lifecycle!Status : Lifecycle!Move(to)]_status
<1> SUFFICES ASSUME CancelFoundAlive, [Next]_vars
             PROVE  /\ CancelFoundAlive'
                    /\ \/ UNCHANGED status
                       \/ \E to \in Lifecycle!Status : Lifecycle!Move(to)
  OBVIOUS
<1> USE DEF reviewVars, lockVars, sendVars, askVars, CancelFoundAlive
<1>l. /\ Lifecycle!Status = {"pending", "running", "pending_review", "succeeded",
                             "failed", "cancelled"}
      /\ \A to : Lifecycle!Move(to)
                  <=> status \in Lifecycle!LegalSources[to] /\ status' = to
  BY DEF Lifecycle!Status, Lifecycle!Terminal, Lifecycle!Move
<1>u. ASSUME UNCHANGED <<status, jobLock>>
      PROVE  CancelFoundAlive' /\ UNCHANGED status
  BY <1>u
<1>m. ASSUME ~jobLock, UNCHANGED jobLock,
             \/ status = "running" /\ status' \in {"pending_review", "succeeded", "failed"}
             \/ status = "pending_review" /\ status' = "pending"
             \/ status = "pending" /\ status' \in {"pending_review", "running", "failed"}
      PROVE  CancelFoundAlive' /\ \E to \in Lifecycle!Status : Lifecycle!Move(to)
  BY <1>l, <1>m DEF Lifecycle!LegalSources
<1>1. ASSUME NEW c \in Client,
             \/ GiveUp(c) \/ Decide(c)
             \/ \E kind \in {"accept", "leave", "redirect", "group"}, i \in Item :
                  ReadOne(c, kind, i)
             \/ \E kind \in {"all:left", "all:accepted", "all:redirected"} :
                  ReadAll(c, kind)
      PROVE  CancelFoundAlive' /\ UNCHANGED status
  BY <1>1, <1>u DEF GiveUp, Decide, ReadOne, ReadAll, Read
<1>2. ASSUME NEW r \in Runner,
             \/ RunLocks(r) \/ ConfirmRequeued(r) \/ RunDies(r) \/ Victim(r)
             \/ \E taken, answered \in BOOLEAN : Dispatch(r, taken, answered)
      PROVE  CancelFoundAlive' /\ UNCHANGED status
  BY <1>2 DEF RunLocks, ConfirmRequeued, RunDies, Victim, Dispatch
<1>3. ASSUME NEW r \in Runner, RunCommits(r) \/ Compensate(r)
      PROVE  /\ CancelFoundAlive'
             /\ UNCHANGED status \/ \E to \in Lifecycle!Status : Lifecycle!Move(to)
  BY <1>3, <1>u, <1>m DEF RunCommits, Compensate
<1>4. CASE \/ Claim \/ ReapFails
           \/ \E to \in {"succeeded", "failed"} : RunEnds(to)
           \/ \E found \in SUBSET Item, unread \in BOOLEAN : RunParks(found, unread)
  BY <1>4, <1>m DEF Claim, ReapFails, NeverTaken, RunEnds, RunParks
<1>5. CASE CancelLocks \/ CancelDies \/ MessageGone \/ ReapRelaunches
  BY <1>5 DEF CancelLocks, CancelDies, MessageGone, ReapRelaunches
<1>6. CASE CancelCommits
  BY <1>l, <1>6 DEF CancelCommits, Lifecycle!LegalSources
<1> QED
  BY <1>u, <1>1, <1>2, <1>3, <1>4, <1>5, <1>6 DEF Next, vars

----------------------------------------------------------------------------
(* Every reachable state.                                                  *)

\* The types of what the arguments above do not speak of.
RestTyped ==
  /\ status \in {"running", "pending_review", "pending", "succeeded", "failed",
                 "cancelled"}
  /\ blind \in BOOLEAN /\ jobLock \in BOOLEAN /\ queued \in BOOLEAN
  /\ mark \in Runner \cup {None} /\ asks \in 0..MaxAnswers

LEMMA RestStep == RestTyped /\ [Next]_vars => RestTyped'
<1> SUFFICES ASSUME RestTyped, [Next]_vars PROVE RestTyped' OBVIOUS
<1> USE DEF reviewVars, lockVars, sendVars, askVars, RestTyped
<1>1. ASSUME NEW c \in Client, NEW kind, NEW i, NEW covers, Read(c, kind, i, covers)
      PROVE  RestTyped'
  BY <1>1, ReviewAssumption DEF Read
<1>2. ASSUME NEW c \in Client,
             \/ GiveUp(c) \/ Decide(c)
             \/ \E kind \in {"accept", "leave", "redirect", "group"}, i \in Item :
                  ReadOne(c, kind, i)
             \/ \E kind \in {"all:left", "all:accepted", "all:redirected"} :
                  ReadAll(c, kind)
      PROVE  RestTyped'
  BY <1>1, <1>2 DEF GiveUp, Decide, ReadOne, ReadAll
<1>3. ASSUME NEW r \in Runner,
             \/ RunLocks(r) \/ RunCommits(r) \/ ConfirmRequeued(r)
             \/ Compensate(r) \/ RunDies(r) \/ Victim(r)
             \/ \E taken, answered \in BOOLEAN : Dispatch(r, taken, answered)
      PROVE  RestTyped'
  BY <1>3 DEF RunLocks, RunCommits, ConfirmRequeued, Compensate, RunDies, Victim,
              Dispatch
<1>4. CASE \/ CancelLocks \/ CancelCommits \/ CancelDies \/ Claim \/ ReapFails
           \/ MessageGone \/ ReapRelaunches
           \/ \E to \in {"succeeded", "failed"} : RunEnds(to)
           \/ \E found \in SUBSET Item, unread \in BOOLEAN : RunParks(found, unread)
  BY <1>4 DEF CancelLocks, CancelCommits, CancelDies, Claim, ReapFails,
              MessageGone, ReapRelaunches, RunEnds, RunParks
<1> QED BY <1>2, <1>3, <1>4 DEF Next, vars

ReviewInv == OpenInv /\ PayloadInv /\ PairInv /\ HistoryInv /\ RestTyped

LEMMA ReviewStep == ReviewInv /\ [Next]_vars => ReviewInv'
<1> SUFFICES ASSUME ReviewInv, [Next]_vars PROVE ReviewInv' OBVIOUS
<1>1. OpenInv' BY TypedStep, AskStep, OpenStep DEF ReviewInv
<1> QED BY <1>1, PayloadStep, PairStep, HistoryStep, RestStep DEF ReviewInv

\* No review yet.
LEMMA ReviewInit == Init => ReviewInv
<1> SUFFICES ASSUME Init PROVE ReviewInv OBVIOUS
<1>1. Typed
  <2>1. item \in [Park -> [Item -> Answer]] BY AnswersTyped DEF Init
  <2>2. request \in [Client -> [at : Kind \cup {"idle"}, on : Item \cup {None},
                                park : 0..MaxParks, covers : SUBSET Item,
                                frees : SUBSET Item]]
    BY ReviewAssumption DEF Init, Idle
  <2>3. run \in [Runner -> [at : {"idle", "locked", "committed", "sent", "failing"},
                           park : 0..MaxParks, undo : SUBSET Item]]
    BY ReviewAssumption DEF Init, NoRun
  <2> QED BY <2>1, <2>2, <2>3, ReviewAssumption DEF Init, Typed
<1>2. ParkedIsReviewable /\ OneOpen /\ LockedIsOpen /\ AskInv
  BY ReviewAssumption
     DEF Init, ParkedIsReviewable, OneOpen, LockedIsOpen, AskInv, NoRun
<1>3. PayloadInv BY DEF Init, PayloadInv
<1>4. PairInv
  BY <1>1, AnswersTyped DEF Init, PairInv, PairedIsAnsweredAlone, Meant, Typed
<1>5. HistoryInv
  BY AnswersTyped DEF Init, HistoryInv, Ranks, Held, Decided
<1>6. RestTyped
  <2>1. 0 \in 0..MaxAnswers BY ReviewAssumption
  <2>2. /\ blind = FALSE /\ jobLock = FALSE /\ queued = FALSE
        /\ status = "running" /\ mark = None /\ asks = 0
    BY DEF Init
  <2> QED BY <2>1, <2>2 DEF RestTyped
<1> QED BY <1>1, <1>2, <1>3, <1>4, <1>5, <1>6 DEF ReviewInv, OpenInv

\* The inductive invariant of the review.
THEOREM ReviewInvariant == Spec => []ReviewInv
BY ReviewInit, ReviewStep, PTL DEF Spec

\* run_review, _compensate, cancel_job: a review is open exactly while its job
\* is parked.
THEOREM OpenWhileParked == Spec => []ParkedIsReviewable
<1>1. ReviewInv => ParkedIsReviewable BY DEF ReviewInv, OpenInv
<1> QED BY <1>1, ReviewInvariant, PTL

\* run_review: a released re-run carries the answers of the review it closed.
THEOREM PayloadMatchesAnswers == Spec => []PayloadIsTheAnswers
<1>1. ReviewInv => PayloadIsTheAnswers
  BY DEF ReviewInv, OpenInv, PayloadInv, ParkedIsReviewable, PayloadIsTheAnswers
<1> QED BY <1>1, ReviewInvariant, PTL

\* _group_scope, apply_to_all: nobody answers for a paired defect but itself.
THEOREM PairedAlone == Spec => []PairedIsAnsweredAlone
<1>1. ReviewInv => PairedIsAnsweredAlone BY DEF ReviewInv, PairInv
<1> QED BY <1>1, ReviewInvariant, PTL

\* Every variable stays in its type, the decisions of a defect are its dated
\* rows and are in one order, and the park's lock is on an open park
\* (RepairReviewRepository, review_run).
THEOREM ReviewTyped == Spec => []ReviewTypeOK
<1>1. ASSUME ReviewInv PROVE ReviewTypeOK
  <2> USE <1>1 DEF ReviewInv
  <2>1. history \in [Item -> SUBSET (Park \X Park)]
    BY DEF HistoryInv
  <2>2. ASSUME NEW i \in Item
        PROVE  /\ Decisions(i) = {n \in Park : item[n][i].state \in Decided}
               /\ Ranks(history[i], Decisions(i))
    <3>1. Ranks(history[i], Held(i)) /\ Held(i) \in SUBSET Park
      BY DEF HistoryInv, Held
    <3>2. Decisions(i) = Held(i) BY <3>1, DecisionsHeld
    <3> QED BY <3>1, <3>2 DEF Held
  <2>3. parkLock # None => open # {} BY DEF OpenInv, Typed, LockedIsOpen
  <2>4. \A i \in Item :
          /\ \A m, n \in Park : <<m, n>> \in history[i] \/ <<n, m>> \in history[i]
                                <=> {m, n} \subseteq Decisions(i)
          /\ \A k, m, n \in Park : <<k, m>> \in history[i] /\ <<m, n>> \in history[i]
                                   => <<k, n>> \in history[i] /\ (k = n => k = m)
    BY <2>2 DEF Ranks
  <2> QED BY <2>1, <2>2, <2>3, <2>4 DEF ReviewTypeOK, OpenInv, Typed, RestTyped
<1> QED BY <1>1, ReviewInvariant, PTL

\* settle_left: what was left in one review and answered in no other is the
\* defect's latest decision, so the next review that could read the history
\* does not ask it.
THEOREM LeftStaysLeft == Spec => LeftIsNotAskedAgain
<1> DEFINE Promise ==
      (parked' # parked /\ ~blind') =>
        \A i \in Item, n \in 1..parked :
          (/\ item[n][i].state = "left"
           /\ \A m \in Park \ {n} : item[m][i].state \in {"absent", "open"})
          => item'[parked'][i].state = "absent"
<1>1. ASSUME ReviewInv, [Next]_vars PROVE Promise
  <2> USE DEF reviewVars, lockVars, sendVars, askVars
  <2> SUFFICES ASSUME parked' # parked, ~blind', NEW i \in Item, NEW n \in 1..parked,
                      item[n][i].state = "left",
                      \A m \in Park \ {n} : item[m][i].state \in {"absent", "open"}
               PROVE  item'[parked'][i].state = "absent"
    OBVIOUS
  <2>1. PICK found \in SUBSET Item, unread \in BOOLEAN : RunParks(found, unread)
    BY <1>1 DEF Next, vars, RunEnds, ReadOne, ReadAll, Read, GiveUp, Decide, RunLocks,
                RunCommits, Dispatch, ConfirmRequeued, Compensate, RunDies, Victim,
                CancelLocks, CancelCommits, CancelDies, Claim, MessageGone,
                ReapRelaunches, ReapFails
  <2>2. /\ Typed /\ n \in Park
        /\ Ranks(history[i], Held(i)) /\ Held(i) \in SUBSET Park
    BY <1>1, ReviewAssumption DEF ReviewInv, OpenInv, HistoryInv, Typed, Park, Held
  <2>3. Held(i) = {n} BY <2>2 DEF Held, Decided
  <2>4. Decisions(i) = {n} BY <2>2, <2>3, DecisionsHeld
  <2>5. i \in SettledLeft BY <2>4 DEF SettledLeft, Decisions
  <2> DEFINE asked == IF unread THEN found ELSE found \ SettledLeft
             fresh == [j \in Item |-> IF j \in asked THEN Open ELSE Absent]
  <2>6. /\ parked' = parked + 1 /\ parked' \in Park /\ blind' = unread
        /\ item' = [item EXCEPT ![parked + 1] = fresh]
    BY <2>1, <2>2, ReviewAssumption DEF RunParks, Typed, Park
  <2>7. fresh[i] = Absent BY <2>5, <2>6
  <2> HIDE DEF fresh
  <2>8. item'[parked'] = fresh BY <2>2, <2>6 DEF Typed
  <2> QED BY <2>7, <2>8, AnswersTyped
<1>2. ReviewInv /\ [Next]_vars => [Promise]_vars BY <1>1
<1>3. Spec => [][Promise]_vars BY <1>2, ReviewInvariant, PTL DEF Spec
<1> QED BY <1>3 DEF LeftIsNotAskedAgain

\* run_review, _compensate, the claim, the reaper and cancel check the status
\* under the row's lock, which cancel holds from its check to its commit: the
\* job moves along the transition table.
THEOREM ReviewKeepsTheLifecycle == Spec => KeepsTheLifecycle
<1>1. Init => Lifecycle!LifeInit BY DEF Init, Lifecycle!LifeInit
<1>2. Init => CancelFoundAlive BY DEF Init, CancelFoundAlive
<1>3. CancelFoundAlive /\ [Next]_vars =>
        CancelFoundAlive' /\ [\E to \in Lifecycle!Status : Lifecycle!Move(to)]_status
  BY LifecycleStep
<1> QED
  BY <1>1, <1>2, <1>3, PTL DEF Spec, KeepsTheLifecycle, Lifecycle!LifeSpec
=============================================================================
