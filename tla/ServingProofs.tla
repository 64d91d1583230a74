---------------------------- MODULE ServingProofs ----------------------------
(***************************************************************************)
(* Proofs about Dispatch and Translation, for any requests, models,        *)
(* accounts and routes, any limits, any loads and answers of any length:   *)
(* that a request is accounted once and that the live view shows it under  *)
(* the account that serves it; and that an answer which the provider broke *)
(* off is told as such to the client, whatever the protocols between them. *)
(***************************************************************************)
EXTENDS Dispatch, Translation, FiniteSetTheorems, NaturalsInduction, WellFoundedInduction, TLAPS

-----------------------------------------------------------------------------
(* The inductive invariant *)

\* Where a request has an account to try, and where it is accounted already.
Trying == {"refresh", "wait", "denied", "orphaned", "prepare", "attempt", "wire", "delay"}

\* A request that tries an account has one; an answer or a response it keeps came of an
\* upstream request it counted; and it has an error exactly when it returns with one.
Asked(r) ==
    /\ pc[r] \in Trying => Account(r) # None
    /\ pc[r] \in {"wire", "delay"} => walk[r].used > 0
    /\ walk[r].kept # None => walk[r].used > 0
    /\ pc[r] \in {"return", "relay", "done"} /\ walk[r].error = "none" => walk[r].used > 0 /\ walk[r].answer # None
    /\ pc[r] \notin {"return", "error", "done"} => walk[r].error = "none"
    /\ pc[r] = "error" => walk[r].error # "none"

\* Nothing is recorded before the loop returns, and then what RecordedOnce promises.
Recorded(r) ==
    /\ pc[r] \notin {"error", "done"} => records[r] = <<>>
    /\ Len(records[r]) <= 1
    /\ pc[r] = "done" /\ walk[r].error = "none" => Len(records[r]) = 1
    /\ records[r] # <<>> => walk[r].used > 0
    /\ records[r] # <<>> /\ r \notin left => walk[r].error = "none"

\* What LiveTracksAttempt promises, of one request.
Live(r) ==
    /\ entry[r] # None => walk[r].used > 0
    /\ entry[r] # None /\ pc[r] \in {"wire", "delay"} => entry[r] = Account(r)
    /\ pc[r] = "done" /\ r \notin left => entry[r] = None

One(r) == Asked(r) /\ Recorded(r) /\ Live(r)

ServeInv == TypeOK /\ \A r \in Requests : One(r)

LEMMA WalkInit == NewWalk \in Walk
BY DispatchAssumption DEF NewWalk, Walk, Slot

LEMMA ServeInitHolds == Init => ServeInv
BY DispatchAssumption, WalkInit DEF Init, ServeInv, TypeOK, One, Asked, Recorded, Live, NewWalk, Trying, Account, Short, Long

-----------------------------------------------------------------------------
(* The steps of one request *)

Places == {"plan", "next", "pause", "last pause", "slot", "refresh", "wait", "denied", "orphaned",
           "prepare", "attempt", "wire", "delay", "exhausted", "return", "relay", "error", "done"}

\* A step that keeps the shared state within its types: it may cool one account.
Shared(r) ==
    /\ preferred' \subseteq Models /\ expired' \subseteq Accounts /\ unlocked' \in BOOLEAN
    /\ cursor' \in [Models -> Nat] /\ leader' \in [Accounts -> Requests \cup {None}]
    /\ \/ UNCHANGED <<cooling, wronged>>
       \/ \E a \in Accounts, time \in {0, Short, Long}, c \in BOOLEAN : Cool(a, time, c)
    /\ UNCHANGED left

\* A step of one request that moves it and leaves its record and its entry as they are.
LEMMA Moved ==
    ASSUME ServeInv, NEW r \in Requests, NEW to \in Places, NEW w \in Walk,
           Goto(r, to), Update(r, w), Shared(r), UNCHANGED <<entry, records>>, Asked(r)',
           walk[r].used <= w.used, to \in {"wire", "delay"} => w.slot = walk[r].slot /\ pc[r] \in {"wire", "delay"},
           pc[r] \notin {"error", "done"}, to \notin {"error", "done"}
    PROVE  ServeInv'
<1>1. /\ pc' = [pc EXCEPT ![r] = to] /\ walk' = [walk EXCEPT ![r] = w]
      /\ pc'[r] = to /\ walk'[r] = w
      /\ \A q \in Requests \ {r} : pc'[q] = pc[q] /\ walk'[q] = walk[q]
      /\ entry' = entry /\ records' = records /\ left' = left
  BY DEF Goto, Update, ServeInv, TypeOK, Shared
<1>2. cooling' \in [Accounts -> {0, Short, Long}] /\ wronged' \subseteq Accounts
  BY DEF Shared, ServeInv, TypeOK, Cool, Cooled
<1>3. TypeOK'
  <2>1. pc' \in [Requests -> Places] /\ walk' \in [Requests -> Walk]
    BY <1>1 DEF ServeInv, TypeOK, Places
  <2> QED
    BY <1>1, <1>2, <2>1 DEF Shared, ServeInv, TypeOK, Places
<1>4. ASSUME NEW q \in Requests \ {r} PROVE One(q)'
  BY <1>1, <1>4 DEF ServeInv, One, Asked, Recorded, Live, Account
<1>5. walk[r] \in Walk /\ w.used \in Nat /\ walk[r].used \in Nat
  BY DEF ServeInv, TypeOK, Walk
<1>6. Recorded(r)' /\ Live(r)'
  BY <1>1, <1>5 DEF ServeInv, One, Recorded, Live, Account
<1> QED
  BY <1>3, <1>4, <1>6 DEF ServeInv, One

\* What the parts of a request's locals are.
LEMMA WalkParts ==
    ASSUME ServeInv, NEW r \in Requests
    PROVE  /\ walk[r] \in Walk /\ walk[r].used \in Nat /\ walk[r].budget \in Nat /\ walk[r].surface \in Nat
           /\ walk[r].slot \in Slot /\ walk[r].noted \subseteq Nat /\ walk[r].slots \subseteq Slot
           /\ walk[r].kept \in Accounts \cup {None} /\ walk[r].keptOK \in BOOLEAN
           /\ walk[r].answer \in Accounts \cup {None}
           /\ Member(r) \in Nat /\ Account(r) \in Accounts \cup {None} /\ Note(r) \subseteq Nat
<1>1. walk[r] \in Walk
  BY DEF ServeInv, TypeOK
<1>2. walk[r].slot \in Slot /\ walk[r].noted \subseteq Nat
  BY <1>1 DEF Walk
<1>3. Member(r) \in Nat /\ Account(r) \in Accounts \cup {None}
  BY <1>2 DEF Member, Account, Slot
<1> QED
  BY <1>1, <1>2, <1>3 DEF Walk, Note

\* The places at which the loop runs.
Running == Places \ {"return", "relay", "error", "done"}

\* What it returns with instead of an answer.
Errors == {"refused", "no_accounts", "locked", "configuration", "left", "unavailable", "attempt", "translation", "credentials"}

\* A candidate passed over, an error and an answer keep the invariant.
LEMMA Passed ==
    ASSUME ServeInv, NEW r \in Requests, NEW cause \in {"translation", "credentials"}, pc[r] \in Running,
           PassOver(r, cause), Shared(r), UNCHANGED <<entry, records>>
    PROVE  ServeInv'
<1> DEFINE w == [walk[r] EXCEPT !.causes = @ \cup {cause}, !.noted = Note(r)]
<1>1. walk[r] \in Walk /\ Note(r) \subseteq Nat /\ walk[r].used \in Nat
  BY WalkParts
<1>2. w \in Walk /\ w.used = walk[r].used /\ w.kept = walk[r].kept /\ w.error = walk[r].error
  BY <1>1 DEF Walk
<1>3. Goto(r, "next") /\ Update(r, w) /\ "next" \in Places
  BY DEF PassOver, Places
<1>4. Asked(r)'
  BY <1>2, <1>3 DEF ServeInv, TypeOK, One, Asked, Goto, Update, Trying, Running
<1> HIDE DEF w
<1> QED
  BY <1>1, <1>2, <1>3, <1>4, Moved DEF Running

LEMMA ErrorReturned ==
    ASSUME ServeInv, NEW r \in Requests, NEW e \in Errors, pc[r] \in Running,
           ReturnError(r, e), Shared(r), UNCHANGED <<entry, records>>
    PROVE  ServeInv'
<1> DEFINE w == [walk[r] EXCEPT !.error = e]
<1>1. walk[r] \in Walk /\ walk[r].used \in Nat
  BY WalkParts
<1>2. w \in Walk /\ w.used = walk[r].used /\ w.kept = walk[r].kept /\ w.error = e
  BY <1>1 DEF Walk, Errors
<1>3. Goto(r, "return") /\ Update(r, w) /\ "return" \in Places
  BY DEF ReturnError, Places
<1>4. Asked(r)'
  BY <1>2, <1>3 DEF ServeInv, TypeOK, One, Asked, Goto, Update, Trying, Errors
<1> HIDE DEF w
<1> QED
  BY <1>1, <1>2, <1>3, <1>4, Moved DEF Running

LEMMA AnswerReturned ==
    ASSUME ServeInv, NEW r \in Requests, NEW a \in Accounts, NEW ok \in BOOLEAN,
           pc[r] \in Running, walk[r].used > 0,
           ReturnAnswer(r, a, ok), Shared(r), UNCHANGED <<entry, records>>
    PROVE  ServeInv'
<1> DEFINE w == [walk[r] EXCEPT !.answer = a, !.answerOK = ok]
<1>1. walk[r] \in Walk /\ walk[r].used \in Nat
  BY WalkParts
<1>2. /\ w \in Walk /\ w.used = walk[r].used /\ w.kept = walk[r].kept /\ w.error = walk[r].error
      /\ w.answer # None
  BY <1>1, DispatchAssumption DEF Walk
<1>3. Goto(r, "return") /\ Update(r, w) /\ "return" \in Places
  BY DEF ReturnAnswer, Places
<1>4. Asked(r)'
  BY <1>2, <1>3 DEF ServeInv, TypeOK, One, Asked, Goto, Update, Trying
<1> HIDE DEF w
<1> QED
  BY <1>1, <1>2, <1>3, <1>4, Moved DEF Running

\* A failed attempt, or a kept response, leads to the next candidate.
LEMMA NextTried ==
    ASSUME ServeInv, NEW r \in Requests, pc[r] \in Running, walk[r].used > 0,
           NEW w \in Walk, w.used = walk[r].used, w.error = walk[r].error,
           Update(r, w), Goto(r, "next"), Shared(r), UNCHANGED <<entry, records>>
    PROVE  ServeInv'
<1>1. walk[r] \in Walk /\ "next" \in Places
  BY DEF ServeInv, TypeOK, Places
<1>2. Asked(r)'
  BY DEF ServeInv, TypeOK, One, Asked, Goto, Update, Trying, Running
<1> QED
  BY <1>1, <1>2, WalkParts, Moved DEF Running

\* So does anything that changes none of the fields the invariant speaks of.
LEMMA Onward ==
    ASSUME ServeInv, NEW r \in Requests, NEW to \in Running \ {"wire", "delay"}, NEW w \in Walk,
           pc[r] \in Running, Goto(r, to), Update(r, w), Shared(r), UNCHANGED <<entry, records>>,
           w.used = walk[r].used, w.error = walk[r].error, w.kept = walk[r].kept,
           to \in Trying => w.slot.account # None
    PROVE  ServeInv'
<1>1. Asked(r)'
  BY DEF ServeInv, TypeOK, One, Asked, Goto, Update, Running, Account
<1>2. walk[r].used <= w.used
  BY WalkParts
<1>3. /\ to \notin {"wire", "delay"} /\ to \notin {"error", "done"} /\ to \in Places
      /\ pc[r] \notin {"error", "done"}
  BY DEF Running
<1> QED
  BY <1>1, <1>2, <1>3, Moved

-----------------------------------------------------------------------------
(* Planning *)

\* A slot's rank is a number: an eligible account exists where one is counted.
LEMMA EligibleFinite ==
    ASSUME TypeOK, NEW accounts \in Seq(Accounts)
    PROVE  /\ IsFiniteSet(Eligible(accounts)) /\ Cardinality(Eligible(accounts)) \in Nat
           /\ \A i \in Eligible(accounts) : accounts[i] \in Accounts /\ Cardinality(Eligible(accounts)) > 0
<1>1. IsFiniteSet(DOMAIN accounts)
  BY FS_Interval
<1>2. Eligible(accounts) \subseteq DOMAIN accounts
  BY DEF Eligible
<1>3. IsFiniteSet(Eligible(accounts)) /\ Cardinality(Eligible(accounts)) \in Nat
  BY <1>1, <1>2, FS_Subset, FS_CardinalityType
<1>4. ASSUME NEW i \in Eligible(accounts) PROVE Cardinality(Eligible(accounts)) > 0
  BY <1>3, <1>4, FS_EmptySet
<1> QED
  BY <1>2, <1>3, <1>4

LEMMA PlaceIsNat ==
    ASSUME TypeOK, NEW m \in Models, NEW accounts \in Seq(Accounts), NEW i \in Eligible(accounts)
    PROVE  Place(m, accounts, i) \in Nat
<1> DEFINE n == Cardinality(Eligible(accounts))
           before == Cardinality({j \in Eligible(accounts) : j < i})
<1>1. n \in Nat /\ n > 0
  BY EligibleFinite
<1>2. before \in Nat
  BY EligibleFinite, FS_Subset, FS_CardinalityType
<1>3. Start(m, n) \in Nat /\ Start(m, n) <= n
  <2>1. cursor[m] \in Nat /\ StickyLimit \in Nat /\ StickyLimit > 0
    <3>1. StickyLimit \in Nat \ {0}
      BY DispatchAssumption
    <3>2. cursor \in [Models -> Nat]
      BY DEF TypeOK
    <3> QED
      BY <3>1, <3>2
  <2>2. cursor[m] \div StickyLimit \in Nat
    BY <2>1
  <2>3. (cursor[m] \div StickyLimit) % n \in 0 .. n - 1
    BY <1>1, <2>2
  <2> QED
    BY <1>1, <2>3 DEF Start
<1>4. Place(m, accounts, i) = (before + n - Start(m, n)) % n
  BY DEF Place
<1> HIDE DEF n, before
<1>5. before + n - Start(m, n) \in Nat
  BY <1>1, <1>2, <1>3
<1> QED
  BY <1>1, <1>4, <1>5

LEMMA CandidatesAreSlots ==
    ASSUME TypeOK, NEW r \in Requests, NEW i \in DOMAIN Route[r]
    PROVE  SlotsOf(r, i) \subseteq Slot
<1>1. Route[r][i] \in Models /\ i \in Nat
  BY DispatchAssumption
<1>2. Native[Route[r][i]] \in Seq(Accounts) /\ Translated[Route[r][i]] \in Seq(Accounts)
  BY <1>1, DispatchAssumption
<1>3. \A p \in Ranked(Route[r][i]) : p[1] \in Nat /\ p[2] \in Accounts
  BY <1>1, <1>2, PlaceIsNat, EligibleFinite DEF Ranked
<1>4. Candidates(r, i) \subseteq Slot
  BY <1>1, <1>3 DEF Candidates, Slot
<1> QED
  BY <1>1, <1>4 DEF SlotsOf, Slot

LEMMA BudgetIsNat ==
    ASSUME TypeOK, NEW r \in Requests
    PROVE  Budget(r) \in Nat
<1> DEFINE served == {i \in DOMAIN Route[r] : Candidates(r, i) # {}}
<1>1. IsFiniteSet(DOMAIN Route[r])
  BY DispatchAssumption, FS_Interval
<1>2. Cardinality(served) \in Nat
  BY <1>1, FS_Subset, FS_CardinalityType
<1>3. MaxAttempts \in Nat
  BY DispatchAssumption
<1>4. Budget(r) = IF r \in Combos /\ served # {} THEN MaxAttempts * Cardinality(served) ELSE MaxAttempts
  BY DEF Budget
<1> HIDE DEF served
<1> QED
  BY <1>2, <1>3, <1>4

-----------------------------------------------------------------------------
(* The loop over the candidates *)

\* What a step that leaves the shared state alone, or cools an account, does to it.
LEMMA SharedKept ==
    ASSUME ServeInv, NEW r \in Requests, UNCHANGED <<cursor, preferred, expired, leader, unlocked, left>>,
           \/ UNCHANGED <<cooling, wronged>>
           \/ \E a \in Accounts, time \in {0, Short, Long}, c \in BOOLEAN : Cool(a, time, c)
    PROVE  Shared(r)
BY DEF Shared, ServeInv, TypeOK

LEMMA TryingHasAccount ==
    ASSUME ServeInv, NEW r \in Requests, pc[r] \in Trying
    PROVE  Account(r) \in Accounts
BY WalkParts DEF ServeInv, One, Asked

LEMMA LoopKept ==
    ASSUME ServeInv, NEW r \in Requests, Loop(r)
    PROVE  ServeInv'
<1> USE DEF sharedVars
<1>w. walk[r] \in Walk
  BY WalkParts
<1>0. Update(r, walk[r]) <=> walk' = walk
  BY DEF Update, ServeInv, TypeOK
<1>1. CASE Plan(r)
  <2>1. pc[r] = "plan" /\ pc[r] \in Running /\ UNCHANGED <<entry, records>> /\ Shared(r)
    <3>1. cursor' \in [Models -> Nat]
      <4>1. cursor \in [Models -> Nat]
        BY DEF ServeInv, TypeOK
      <4>2. \A m \in Models : cursor[m] \in Nat /\ cursor[m] + 1 \in Nat
        BY <4>1
      <4>3. cursor' = [m \in Models |->
                IF m \in RoundRobin /\ (\E i \in DOMAIN Route[r] : Route[r][i] = m) THEN cursor[m] + 1 ELSE cursor[m]]
        BY <1>1 DEF Plan
      <4> QED
        BY <4>2, <4>3
    <3> QED
      BY <1>1, <3>1 DEF Plan, Arrives, Running, Places, Shared, ServeInv, TypeOK
  <2> DEFINE slots == UNION {SlotsOf(r, i) : i \in DOMAIN Route[r]}
  <2>2. slots \subseteq Slot
    BY CandidatesAreSlots DEF ServeInv
  <2>3. CASE slots = {}
    BY <1>1, <2>1, <2>3, ErrorReturned DEF Plan, ReturnError, Errors
  <2>4. CASE slots # {}
    <3> DEFINE w == [walk[r] EXCEPT !.slots = slots, !.budget = Budget(r)]
    <3>1. w \in Walk /\ w.used = walk[r].used /\ w.error = walk[r].error /\ w.kept = walk[r].kept
      BY <1>w, <2>2, BudgetIsNat DEF Walk, ServeInv
    <3>2. Update(r, w) /\ Goto(r, "next")
      BY <1>1, <2>4 DEF Plan
    <3> HIDE DEF w
    <3> QED
      BY <2>1, <3>1, <3>2, Onward DEF Running, Places, Trying
  <2> QED
    BY <2>3, <2>4
<1>2. CASE Refuse(r)
  BY <1>2, SharedKept, ErrorReturned DEF Refuse, Arrives, ReturnError, Errors, Running, Places
<1>3. CASE Advance(r)
  <2>1. PICK s \in walk[r].slots : /\ Update(r, [walk[r] EXCEPT !.slots = @ \ {s}, !.slot = s])
                                   /\ Goto(r, "slot") \/ Goto(r, "pause")
    BY <1>3 DEF Advance
  <2> DEFINE w == [walk[r] EXCEPT !.slots = @ \ {s}, !.slot = s]
  <2>2. w \in Walk /\ w.used = walk[r].used /\ w.error = walk[r].error /\ w.kept = walk[r].kept
    BY <1>w, WalkParts DEF Walk
  <2>3. Shared(r) /\ UNCHANGED <<entry, records>> /\ pc[r] \in Running
    BY <1>3, SharedKept DEF Advance, Running, Places
  <2>4. Update(r, w)
    BY <2>1
  <2> HIDE DEF w
  <2> QED
    BY <2>1, <2>2, <2>3, <2>4, Onward DEF Running, Places, Trying
<1>4. CASE Finish(r)
  <2>1. (Goto(r, "exhausted") \/ Goto(r, "last pause")) /\ Shared(r) /\ UNCHANGED <<entry, records>> /\ pc[r] \in Running
    BY <1>4, SharedKept DEF Finish, Running, Places
  <2> QED
    BY <1>w, <1>0, <1>4, <2>1, Onward DEF Finish, Running, Places, Trying
<1>5. CASE Pause(r)
  <2>1. Shared(r) /\ UNCHANGED <<entry, records>> /\ pc[r] \in Running
    BY <1>5, SharedKept DEF Pause, Running, Places
  <2>2. CASE ReturnError(r, "left")
    BY <2>1, <2>2, ErrorReturned DEF Errors
  <2>3. CASE (Goto(r, "slot") \/ Goto(r, "exhausted")) /\ UNCHANGED walk
    BY <1>w, <1>0, <2>1, <2>3, Onward DEF Running, Places, Trying
  <2> QED
    BY <1>5, <2>2, <2>3 DEF Pause
<1>6. CASE NoAccount(r)
  BY <1>6, SharedKept, Passed DEF NoAccount, Running, Places
<1>7. CASE LeftBetween(r)
  BY <1>7, SharedKept, ErrorReturned DEF LeftBetween, Errors, Running, Places
<1>8. CASE NoKey(r)
  <2>1. Account(r) \in Accounts /\ pc[r] \in Running
    BY <1>8, WalkParts DEF NoKey, Begin, Running, Places
  <2>2. Shared(r)
    BY <1>8, <2>1, SharedKept DEF NoKey
  <2> QED
    BY <1>8, <2>1, <2>2, ErrorReturned DEF NoKey, Errors
<1>9. CASE Ask(r)
  <2>1. /\ pc[r] = "slot" /\ pc[r] \in Running /\ Account(r) \in Accounts /\ Account(r) # None
        /\ UNCHANGED <<entry, records>> /\ walk' = walk
    BY <1>9, WalkParts DEF Ask, Begin, Running, Places
  <2>2. Shared(r)
    BY <1>9, <2>1 DEF Ask, Shared, ServeInv, TypeOK
  <2>3. Goto(r, "prepare") \/ Goto(r, "refresh") \/ Goto(r, "wait")
    BY <1>9 DEF Ask
  <2> QED
    BY <1>w, <1>0, <2>1, <2>2, <2>3, Onward DEF Running, Places, Account
<1>10. CASE Refresh(r)
  <2> DEFINE a == Account(r)
  <2>1. PICK to \in {"prepare", "denied", "orphaned"} : Settle(r, to)
    BY <1>10 DEF Refresh
  <2>2. pc[r] = "refresh" /\ UNCHANGED <<cooling, cursor, preferred, unlocked, walk, entry, records, left, wronged>>
    BY <1>10 DEF Refresh
  <2>3. ASSUME NEW q \in Requests PROVE pc'[q] = pc[q] \/ (pc[q] \in {"refresh", "wait"} /\ pc'[q] = to)
    BY <2>1, <2>2 DEF Settle
  <2>4. TypeOK'
    <3>1. pc' \in [Requests -> Places]
      BY <2>1 DEF Settle, ServeInv, TypeOK, Places
    <3>2. leader' \in [Accounts -> Requests \cup {None}] /\ expired' \subseteq Accounts
      BY <1>10, <2>1 DEF Refresh, Settle, ServeInv, TypeOK
    <3> QED
      BY <2>2, <3>1, <3>2 DEF ServeInv, TypeOK, Places
  <2>5. ASSUME NEW q \in Requests PROVE One(q)'
    BY <2>2, <2>3 DEF ServeInv, One, Asked, Recorded, Live, Trying, Account
  <2> QED
    BY <2>4, <2>5 DEF ServeInv
<1>11. CASE StopWaiting(r)
  BY <1>11, SharedKept, ErrorReturned DEF StopWaiting, Errors, Running, Places
<1>12. CASE NoCredential(r)
  <2>1. Account(r) \in Accounts /\ pc[r] \in Running /\ UNCHANGED <<entry, records>>
    BY <1>12, TryingHasAccount DEF NoCredential, Running, Places, Trying
  <2>2. Shared(r)
    BY <1>12, <2>1, SharedKept DEF NoCredential
  <2> QED
    BY <1>12, <2>1, <2>2, ErrorReturned, Passed DEF NoCredential, Errors
<1> QED
  BY <1>1, <1>2, <1>3, <1>4, <1>5, <1>6, <1>7, <1>8, <1>9, <1>10, <1>11, <1>12 DEF Loop

-----------------------------------------------------------------------------
(* One candidate's attempts *)

\* The locals Prepare resets.
LEMMA PreparedWalk ==
    ASSUME NEW v \in Walk, NEW e \in BOOLEAN
    PROVE  LET w == [v EXCEPT !.retry = 0, !.surface = 0, !.escalated = e]
           IN  w \in Walk /\ w.used = v.used /\ w.error = v.error /\ w.kept = v.kept /\ w.slot = v.slot
<1> DEFINE once == [v EXCEPT !.retry = 0]
           twice == [once EXCEPT !.surface = 0]
           w == [v EXCEPT !.retry = 0, !.surface = 0, !.escalated = e]
<1>1. once \in Walk
  BY DEF Walk
<1>2. twice \in Walk
  <2> HIDE DEF once
  <2> QED
    BY <1>1 DEF Walk
<1>3. [twice EXCEPT !.escalated = e] \in Walk
  <2> HIDE DEF twice
  <2> QED
    BY <1>2 DEF Walk
<1>4. w = [twice EXCEPT !.escalated = e]
  BY DEF Walk
<1>5. w.used = v.used /\ w.error = v.error /\ w.kept = v.kept /\ w.slot = v.slot
  BY DEF Walk
<1> QED
  BY <1>3, <1>4, <1>5

LEMMA AttemptKept ==
    ASSUME ServeInv, NEW r \in Requests, Attempt(r)
    PROVE  ServeInv'
<1> USE DEF sharedVars
<1>w. walk[r] \in Walk
  BY WalkParts
<1>1. CASE Prepare(r)
  <2> DEFINE e == Model(r) \in preferred
             w == [walk[r] EXCEPT !.retry = 0, !.surface = 0, !.escalated = e]
  <2>0. e \in BOOLEAN
    OBVIOUS
  <2>1. /\ w \in Walk /\ w.used = walk[r].used /\ w.error = walk[r].error /\ w.kept = walk[r].kept
        /\ w.slot = walk[r].slot
    <3> HIDE DEF e
    <3> QED
      BY <1>w, <2>0, PreparedWalk
  <2>2. /\ Update(r, w) /\ Goto(r, "attempt") /\ Shared(r) /\ UNCHANGED <<entry, records>>
        /\ pc[r] \in Running /\ pc[r] \in Trying
    BY <1>1, SharedKept DEF Prepare, Running, Places, Trying
  <2>3. w.slot.account # None
    BY <2>1, <2>2, TryingHasAccount, DispatchAssumption DEF Account
  <2> HIDE DEF w
  <2> QED
    BY <2>1, <2>2, <2>3, Onward DEF Running, Places
<1>2. CASE Unsigned(r)
  <2>1. Account(r) \in Accounts /\ pc[r] \in Running
    BY <1>2, TryingHasAccount DEF Unsigned, Running, Places, Trying
  <2>2. Shared(r)
    BY <1>2, <2>1, SharedKept DEF Unsigned
  <2> QED
    BY <1>2, <2>1, <2>2, Passed DEF Unsigned
<1>3. CASE NotExpressible(r)
  BY <1>3, SharedKept, Passed DEF NotExpressible, Running, Places
<1>4. CASE LeftBeforeAttempt(r)
  BY <1>4, SharedKept, ErrorReturned DEF LeftBeforeAttempt, Attempting, Errors, Running, Places
<1>5. CASE Misconfigured(r)
  BY <1>5, SharedKept, ErrorReturned DEF Misconfigured, Attempting, Errors, Running, Places
<1>6. CASE RouteRefused(r)
  BY <1>6, SharedKept, Passed DEF RouteRefused, Attempting, Running, Places
<1>7. CASE DataMissing(r)
  <2>1. Account(r) \in Accounts /\ pc[r] \in Running /\ (r \in left) \in BOOLEAN
    BY <1>7, TryingHasAccount DEF DataMissing, Attempting, Running, Places, Trying
  <2>2. Shared(r)
    BY <1>7, <2>1, SharedKept DEF DataMissing
  <2> QED
    BY <1>7, <2>1, <2>2, Passed DEF DataMissing
<1>8. CASE Send(r)
  <2> DEFINE w == [walk[r] EXCEPT !.used = @ + 1]
  <2>1. walk[r].used \in Nat /\ Account(r) \in Accounts /\ pc[r] = "attempt"
    BY <1>8, WalkParts, TryingHasAccount DEF Send, Attempting, Trying
  <2>2. /\ w \in Walk /\ w.used = walk[r].used + 1 /\ w.used > 0 /\ w.error = walk[r].error
        /\ w.kept = walk[r].kept /\ w.slot = walk[r].slot
    BY <1>w, <2>1 DEF Walk
  <2>3. Update(r, w) /\ Goto(r, "wire") /\ entry' = [entry EXCEPT ![r] = Account(r)]
    BY <1>8 DEF Send
  <2> HIDE DEF w
  <2>4. /\ walk' = [walk EXCEPT ![r] = w] /\ pc' = [pc EXCEPT ![r] = "wire"]
        /\ walk'[r] = w /\ pc'[r] = "wire" /\ entry'[r] = Account(r)
        /\ \A q \in Requests \ {r} : walk'[q] = walk[q] /\ pc'[q] = pc[q] /\ entry'[q] = entry[q]
    BY <2>3 DEF Update, Goto, ServeInv, TypeOK
  <2>5. UNCHANGED <<cooling, cursor, preferred, expired, leader, unlocked, records, left, wronged>>
    BY <1>8 DEF Send
  <2>6. TypeOK'
    <3>1. pc' \in [Requests -> Places] /\ walk' \in [Requests -> Walk]
      BY <2>2, <2>4 DEF ServeInv, TypeOK, Places
    <3>2. entry' \in [Requests -> Accounts \cup {None}]
      BY <2>1, <2>3 DEF ServeInv, TypeOK
    <3> QED
      BY <2>5, <3>1, <3>2 DEF ServeInv, TypeOK, Places
  <2>7. ASSUME NEW q \in Requests \ {r} PROVE One(q)'
    BY <2>4, <2>5, <2>7 DEF ServeInv, One, Asked, Recorded, Live, Account
  <2>8. Asked(r)' /\ Recorded(r)' /\ Live(r)'
    BY <2>1, <2>2, <2>4, <2>5, DispatchAssumption DEF ServeInv, One, Asked, Recorded, Live, Account, Trying
  <2> QED
    BY <2>6, <2>7, <2>8 DEF ServeInv, One
<1> QED
  BY <1>1, <1>2, <1>3, <1>4, <1>5, <1>6, <1>7, <1>8 DEF Attempt

-----------------------------------------------------------------------------
(* What comes back *)

LEMMA ResponseKept ==
    ASSUME ServeInv, NEW r \in Requests, Response(r)
    PROVE  ServeInv'
<1> USE DEF sharedVars
<1>0. pc[r] \in {"wire", "delay"}
  BY DEF Response, Cut, NoResponse, Unfoldable, Success, AcceptedFailure, NextSurface, SurfacesRefuse,
         Escalate, Failure, RetrySame
<1>1. /\ walk[r] \in Walk /\ Note(r) \subseteq Nat /\ walk[r].noted \subseteq Nat /\ walk[r].used \in Nat
      /\ walk[r].surface \in Nat
  BY WalkParts
<1>2. pc[r] \in Running /\ pc[r] \in Trying /\ walk[r].used > 0 /\ UNCHANGED <<entry, records>>
  BY <1>0 DEF ServeInv, One, Asked, Running, Places, Trying, Response, Cut, NoResponse, Unfoldable, Success,
              AcceptedFailure, NextSurface, SurfacesRefuse, Escalate, Failure, RetrySame
<1>3. Account(r) \in Accounts /\ Account(r) # None
  BY <1>2, TryingHasAccount, DispatchAssumption
<1>4. CASE Cut(r)
  BY <1>2, <1>4, SharedKept, ErrorReturned DEF Cut, Errors
<1>5. CASE NoResponse(r) \/ Unfoldable(r)
  <2>1. PICK noted \in SUBSET Nat : FailAttempt(r, noted)
    BY <1>1, <1>5 DEF NoResponse, Unfoldable
  <2> DEFINE w == [walk[r] EXCEPT !.failed = TRUE, !.kept = None, !.noted = noted]
  <2>2. w \in Walk /\ w.used = walk[r].used /\ w.error = walk[r].error
    BY <1>1 DEF Walk
  <2>3. Update(r, w) /\ Goto(r, "next")
    BY <2>1 DEF FailAttempt
  <2>4. Shared(r)
    BY <1>3, <1>5, SharedKept DEF NoResponse, Unfoldable
  <2> HIDE DEF w
  <2> QED
    BY <1>2, <2>2, <2>3, <2>4, NextTried
<1>6. CASE Success(r)
  BY <1>2, <1>3, <1>6, SharedKept, AnswerReturned DEF Success
<1>7. CASE AcceptedFailure(r)
  <2>1. Shared(r)
    BY <1>3, <1>7, SharedKept DEF AcceptedFailure
  <2>2. CASE ReturnAnswer(r, Account(r), TRUE)
    BY <1>2, <1>3, <2>1, <2>2, AnswerReturned
  <2>3. CASE KeepResponse(r, TRUE)
    <3> DEFINE w == [walk[r] EXCEPT !.failed = FALSE, !.kept = Account(r), !.keptOK = TRUE, !.noted = Note(r)]
    <3>1. w \in Walk /\ w.used = walk[r].used /\ w.error = walk[r].error
      BY <1>1, <1>3 DEF Walk
    <3>2. Update(r, w) /\ Goto(r, "next")
      BY <2>3 DEF KeepResponse
    <3> HIDE DEF w
    <3> QED
      BY <1>2, <2>1, <3>1, <3>2, NextTried
  <2> QED
    BY <1>7, <2>2, <2>3 DEF AcceptedFailure
<1>8. CASE NextSurface(r)
  <2> DEFINE w == [walk[r] EXCEPT !.surface = @ + 1]
  <2>1. w \in Walk /\ w.used = walk[r].used /\ w.error = walk[r].error /\ w.kept = walk[r].kept /\ w.slot = walk[r].slot
    BY <1>1 DEF Walk
  <2>2. Update(r, w) /\ Goto(r, "attempt") /\ Shared(r)
    BY <1>8, SharedKept DEF NextSurface
  <2>3. w.slot.account # None
    BY <1>3, <2>1 DEF Account
  <2> HIDE DEF w
  <2> QED
    BY <1>2, <2>1, <2>2, <2>3, Onward DEF Running, Places
<1>9. ASSUME NEW auth \in BOOLEAN, SurfacesRefuse(r, auth) PROVE ServeInv'
  <2> DEFINE cools == auth /\ walk[r].surface + 1 = Surfaces[Account(r)] /\ AuthCools(r)
             w == [walk[r] EXCEPT !.authSeen = @ \/ cools,
                                  !.failed = FALSE, !.kept = Account(r), !.keptOK = FALSE, !.noted = Note(r)]
  <2>1. w \in Walk /\ w.used = walk[r].used /\ w.error = walk[r].error
    BY <1>1, <1>3 DEF Walk
  <2>2. Update(r, w) /\ Goto(r, "next")
    BY <1>9 DEF SurfacesRefuse
  <2>3. Shared(r)
    BY <1>3, <1>9, SharedKept DEF SurfacesRefuse
  <2> HIDE DEF w
  <2> QED
    BY <1>2, <2>1, <2>2, <2>3, NextTried
<1>10. CASE Escalate(r)
  <2> DEFINE w == [walk[r] EXCEPT !.escalated = TRUE]
  <2>1. w \in Walk /\ w.used = walk[r].used /\ w.error = walk[r].error /\ w.kept = walk[r].kept /\ w.slot = walk[r].slot
    BY <1>1 DEF Walk
  <2>2. Update(r, w) /\ Goto(r, "attempt")
    BY <1>10 DEF Escalate
  <2>3. w.slot.account # None
    BY <1>3, <2>1 DEF Account
  <2>4. Shared(r)
    BY <1>10, DispatchAssumption DEF Escalate, MayEscalate, Shared, ServeInv, TypeOK
  <2> HIDE DEF w
  <2> QED
    BY <1>2, <2>1, <2>2, <2>3, <2>4, Onward DEF Running, Places
<1>11. ASSUME NEW outcome \in Outcomes, NEW readable \in BOOLEAN, Failure(r, outcome, readable) PROVE ServeInv'
  <2> DEFINE seen == [walk[r] EXCEPT !.authSeen = @ \/ (outcome = "auth")]
             kept == [seen EXCEPT !.failed = FALSE, !.kept = Account(r), !.keptOK = FALSE, !.noted = Note(r)]
             told == [seen EXCEPT !.answer = Account(r), !.answerOK = FALSE]
  <2>1. seen \in Walk /\ seen.used = walk[r].used /\ seen.error = walk[r].error /\ seen.kept = walk[r].kept
        /\ seen.slot = walk[r].slot
    BY <1>1 DEF Walk
  <2>2. kept \in Walk /\ kept.used = walk[r].used /\ kept.error = walk[r].error
    BY <1>1, <1>3 DEF Walk
  <2>3. /\ told \in Walk /\ told.used = walk[r].used /\ told.error = walk[r].error /\ told.kept = walk[r].kept
        /\ told.answer # None
    BY <1>1, <1>3 DEF Walk
  <2>4. \/ Update(r, seen) /\ Goto(r, "delay")
        \/ Update(r, kept) /\ Goto(r, "next")
        \/ Update(r, told) /\ Goto(r, "return")
    BY <1>11 DEF Failure
  <2>5. Shared(r)
    <3>1. preferred' \subseteq Models
      BY <1>11, DispatchAssumption DEF Failure, MayEscalate, ServeInv, TypeOK
    <3>2. \/ UNCHANGED <<cooling, wronged>>
          \/ \E time \in {0, Short, Long} : Cool(Account(r), time, FALSE)
      BY <1>11 DEF Failure, Penalty, Outcomes
    <3> QED
      BY <1>3, <1>11, <3>1, <3>2 DEF Failure, Shared, ServeInv, TypeOK
  <2>6. CASE Update(r, seen) /\ Goto(r, "delay")
    <3> HIDE DEF seen
    <3>1. Asked(r)'
      BY <1>2, <1>3, <2>1, <2>6 DEF ServeInv, TypeOK, One, Asked, Goto, Update, Trying, Account, Running
    <3> QED
      <4>1. "delay" \in Places /\ walk[r].used <= seen.used /\ pc[r] \notin {"error", "done"}
        BY <1>0, <1>1, <2>1 DEF Places
      <4> QED
        BY <1>0, <1>2, <2>1, <2>5, <2>6, <3>1, <4>1, Moved
  <2>7. CASE Update(r, kept) /\ Goto(r, "next")
    <3> HIDE DEF kept
    <3> QED
      BY <1>2, <2>2, <2>5, <2>7, NextTried
  <2>8. CASE Update(r, told) /\ Goto(r, "return")
    <3> HIDE DEF told
    <3>1. Asked(r)'
      BY <1>2, <2>3, <2>8 DEF ServeInv, TypeOK, One, Asked, Goto, Update, Trying
    <3> QED
      <4>1. "return" \in Places /\ walk[r].used <= told.used /\ pc[r] \notin {"error", "done"}
        BY <1>0, <1>1, <2>3 DEF Places
      <4> QED
        BY <1>2, <2>3, <2>5, <2>8, <3>1, <4>1, Moved
  <2> QED
    BY <2>4, <2>6, <2>7, <2>8
<1>12. CASE RetrySame(r)
  <2> DEFINE w == [walk[r] EXCEPT !.retry = 1]
  <2>1. w \in Walk /\ w.used = walk[r].used /\ w.error = walk[r].error /\ w.kept = walk[r].kept /\ w.slot = walk[r].slot
    BY <1>1 DEF Walk
  <2>2. Update(r, w) /\ Goto(r, "attempt") /\ Shared(r)
    BY <1>12, SharedKept DEF RetrySame
  <2>3. w.slot.account # None
    BY <1>3, <2>1 DEF Account
  <2> HIDE DEF w
  <2> QED
    BY <1>2, <2>1, <2>2, <2>3, Onward DEF Running, Places
<1> QED
  BY <1>4, <1>5, <1>6, <1>7, <1>8, <1>9, <1>10, <1>11, <1>12 DEF Response

-----------------------------------------------------------------------------
(* The answer and its accounting *)

\* A step of one request alone that may write its record and its entry.
LEMMA Accounted ==
    ASSUME ServeInv, NEW r \in Requests, NEW to \in Places, NEW w \in Walk,
           NEW e \in Accounts \cup {None}, NEW rs \in Seq({"completed", "client_abandoned"}),
           Goto(r, to), walk' = [walk EXCEPT ![r] = w], Shared(r),
           entry' = [entry EXCEPT ![r] = e], records' = [records EXCEPT ![r] = rs],
           Asked(r)', Recorded(r)', Live(r)'
    PROVE  ServeInv'
<1>1. /\ pc' = [pc EXCEPT ![r] = to]
      /\ \A q \in Requests \ {r} : /\ pc'[q] = pc[q] /\ walk'[q] = walk[q]
                                   /\ entry'[q] = entry[q] /\ records'[q] = records[q]
      /\ left' = left
  BY DEF Goto, ServeInv, TypeOK, Shared
<1>2. cooling' \in [Accounts -> {0, Short, Long}] /\ wronged' \subseteq Accounts
  BY DEF Shared, ServeInv, TypeOK, Cool, Cooled
<1>3. pc' \in [Requests -> Places] /\ walk' \in [Requests -> Walk]
  BY <1>1 DEF ServeInv, TypeOK, Places
<1>4. /\ entry' \in [Requests -> Accounts \cup {None}]
      /\ records' \in [Requests -> Seq({"completed", "client_abandoned"})]
  BY DEF ServeInv, TypeOK
<1>5. TypeOK'
  BY <1>1, <1>2, <1>3, <1>4 DEF Shared, ServeInv, TypeOK, Places
<1>6. ASSUME NEW q \in Requests \ {r} PROVE One(q)'
  BY <1>1, <1>6 DEF ServeInv, One, Asked, Recorded, Live, Account
<1> QED
  BY <1>5, <1>6 DEF ServeInv, One

LEMMA AnswerKept ==
    ASSUME ServeInv, NEW r \in Requests, Answer(r)
    PROVE  ServeInv'
<1> USE DEF sharedVars
<1>1. /\ walk[r] \in Walk /\ walk[r].used \in Nat /\ walk[r].kept \in Accounts \cup {None}
      /\ walk[r].keptOK \in BOOLEAN /\ walk[r].answer \in Accounts \cup {None}
  BY WalkParts
<1>2. /\ entry[r] \in Accounts \cup {None} /\ records[r] \in Seq({"completed", "client_abandoned"})
      /\ entry = [entry EXCEPT ![r] = entry[r]] /\ records = [records EXCEPT ![r] = records[r]]
      /\ walk = [walk EXCEPT ![r] = walk[r]] /\ pc[r] \in Places
  BY DEF ServeInv, TypeOK, Places
<1>3. CASE Exhausted(r)
  <2>1. Shared(r) /\ UNCHANGED <<entry, records>> /\ pc[r] \in Running
    BY <1>3, SharedKept DEF Exhausted, Running, Places
  <2>2. CASE \E e \in Errors : ReturnError(r, e)
    BY <2>1, <2>2, ErrorReturned
  <2>3. CASE walk[r].kept # None /\ ReturnAnswer(r, walk[r].kept, walk[r].keptOK)
    <3>1. walk[r].used > 0
      BY <2>3 DEF ServeInv, One, Asked
    <3> QED
      BY <1>1, <2>1, <2>3, <3>1, AnswerReturned
  <2>4. Verdict(walk[r]) \in Errors /\ "unavailable" \in Errors
    BY DEF Verdict, Errors
  <2> QED
    BY <1>3, <2>2, <2>3, <2>4 DEF Exhausted
<1>4. CASE Return(r)
  <2>1. Shared(r) /\ walk' = walk /\ pc[r] = "return"
    BY <1>4, SharedKept DEF Return
  <2>2. records[r] = <<>>
    BY <2>1 DEF ServeInv, One, Recorded
  <2> DEFINE to == IF walk[r].error = "none" THEN "relay" ELSE "error"
  <2>3. Goto(r, to) /\ to \in Places
    BY <1>4 DEF Return, Places
  <2>4. pc' = [pc EXCEPT ![r] = to] /\ pc'[r] = to /\ left' = left
    BY <1>4, <2>3 DEF Goto, Return, ServeInv, TypeOK
  <2>5. CASE Billed(r)
    <3> DEFINE rs == Append(records[r], "client_abandoned")
    <3>1. /\ rs \in Seq({"completed", "client_abandoned"}) /\ Len(rs) = 1 /\ rs # <<>>
          /\ records' = [records EXCEPT ![r] = rs] /\ entry' = [entry EXCEPT ![r] = None]
      BY <1>2, <1>4, <2>2, <2>5 DEF Return, Record, Ended
    <3> HIDE DEF rs
    <3>2. records'[r] = rs /\ entry'[r] = None
      BY <3>1 DEF ServeInv, TypeOK
    <3>3. to = "error" /\ walk[r].error # "none" /\ walk[r].used > 0 /\ r \in left
      BY <2>5 DEF Billed
    <3>4. Asked(r)'
      BY <2>1, <2>4, <3>3 DEF ServeInv, One, Asked, Trying, Account
    <3>5. Recorded(r)'
      <4>1. Len((records')[r]) <= 1 /\ (walk')[r].used > 0 /\ r \in left'
        <5>1. Len((records')[r]) = 1
          BY <3>1, <3>2
        <5>2. (walk')[r].used > 0 /\ r \in left'
          BY <2>1, <2>4, <3>3
        <5> QED
          BY <5>1, <5>2
      <4>2. (pc')[r] = "error"
        BY <2>4, <3>3
      <4>3. (pc')[r] \in {"error", "done"} /\ (pc')[r] # "done"
        BY <4>2
      <4> QED
        BY <4>1, <4>3, Zenon DEF Recorded
    <3>6. Live(r)'
      BY <2>4, <3>2, <3>3 DEF Live
    <3> QED
      BY <1>1, <1>2, <2>1, <2>3, <3>1, <3>4, <3>5, <3>6, Accounted
  <2>6. CASE ~Billed(r)
    <3>1. /\ entry' = entry /\ entry' = [entry EXCEPT ![r] = entry[r]]
          /\ records' = records /\ records' = [records EXCEPT ![r] = records[r]]
      BY <1>2, <1>4, <2>6 DEF Return
    <3>2. Asked(r)' /\ Recorded(r)' /\ Live(r)'
      BY <2>1, <2>2, <2>4, <3>1 DEF ServeInv, One, Asked, Recorded, Live, Trying, Account
    <3>3. walk' = [walk EXCEPT ![r] = walk[r]]
      BY <1>2, <2>1
    <3> HIDE DEF to
    <3> QED
      BY <1>1, <1>2, <2>1, <2>3, <3>1, <3>2, <3>3, Accounted
  <2> QED
    BY <2>5, <2>6
<1>5. CASE DispatchError(r)
  <2>1. Shared(r) /\ walk' = walk /\ pc[r] = "error" /\ Goto(r, "done") /\ "done" \in Places /\ records' = records
    BY <1>5, SharedKept DEF DispatchError, Places
  <2>2. pc'[r] = "done" /\ left' = left
    BY <2>1, <1>5 DEF Goto, DispatchError, ServeInv, TypeOK
  <2>3. PICK e \in {None, entry[r]} : entry' = [entry EXCEPT ![r] = e] /\ (r \in left \/ e = None)
    BY <1>2, <1>5 DEF DispatchError, Ended
  <2>4. entry'[r] = e
    BY <2>3 DEF ServeInv, TypeOK
  <2>5. Asked(r)' /\ Recorded(r)' /\ Live(r)'
    BY <2>1, <2>2, <2>3, <2>4 DEF ServeInv, One, Asked, Recorded, Live, Trying, Account
  <2> QED
    BY <1>1, <1>2, <2>1, <2>3, <2>5, Accounted
<1>6. CASE Repair(r)
  <2> DEFINE w == [walk[r] EXCEPT !.used = @ + 1]
  <2>1. /\ w \in Walk /\ w.used = walk[r].used + 1 /\ w.used > 0 /\ w.error = walk[r].error
        /\ w.kept = walk[r].kept /\ w.slot = walk[r].slot /\ w.answer = walk[r].answer
    BY <1>1 DEF Walk
  <2>2. /\ walk' = [walk EXCEPT ![r] = w] /\ pc' = pc /\ pc[r] = "relay" /\ UNCHANGED <<entry, records, left>>
        /\ Goto(r, pc[r])
    BY <1>6 DEF Repair, Update, Goto, ServeInv, TypeOK
  <2>3. walk[r].answer \in Accounts
    <3>1. walk[r].answer # None
      BY <2>2 DEF ServeInv, One, Asked
    <3> QED
      BY <1>1, <3>1
  <2>4. Shared(r)
    BY <1>6, <2>3, SharedKept DEF Repair
  <2> HIDE DEF w
  <2>5. walk'[r] = w
    BY <2>2 DEF ServeInv, TypeOK
  <2>6. Asked(r)' /\ Recorded(r)' /\ Live(r)'
    BY <2>1, <2>2, <2>5 DEF ServeInv, One, Asked, Recorded, Live, Trying, Account
  <2> QED
    BY <1>2, <2>1, <2>2, <2>4, <2>6, Accounted
<1>7. CASE Relay(r)
  <2> DEFINE how == IF r \in left THEN "client_abandoned" ELSE "completed"
             rs == Append(records[r], how)
  <2>1. /\ pc[r] = "relay" /\ walk' = walk /\ left' = left /\ Goto(r, "done") /\ "done" \in Places
        /\ records' = [records EXCEPT ![r] = rs] /\ entry' = [entry EXCEPT ![r] = None]
    BY <1>7 DEF Relay, Record, Ended, Places
  <2>2. records[r] = <<>> /\ walk[r].error = "none" /\ walk[r].used > 0 /\ walk[r].answer # None
    BY <2>1 DEF ServeInv, One, Asked, Recorded
  <2>3. rs \in Seq({"completed", "client_abandoned"}) /\ Len(rs) = 1
    BY <1>2, <2>2
  <2> HIDE DEF rs
  <2>4. pc'[r] = "done" /\ records'[r] = rs /\ entry'[r] = None
    BY <2>1 DEF Goto, ServeInv, TypeOK
  <2>5. Asked(r)' /\ Recorded(r)' /\ Live(r)'
    <3>1. Asked(r)'
      BY <2>1, <2>2, <2>4 DEF Asked, Trying
    <3>2. Recorded(r)'
      <4>1. Len((records')[r]) = 1 /\ (walk')[r].error = "none" /\ (walk')[r].used > 0
        <5>1. Len((records')[r]) = 1
          BY <2>3, <2>4
        <5>2. (walk')[r].error = "none"
          BY <2>1, <2>2
        <5>3. (walk')[r].used > 0
          BY <2>1, <2>2
        <5> QED
          BY <5>1, <5>2, <5>3
      <4>3. Len((records')[r]) <= 1
        BY <4>1
      <4>2. (pc')[r] \in {"error", "done"}
        BY <2>4
      <4> QED
        BY <4>1, <4>2, <4>3, Zenon DEF Recorded
    <3>3. Live(r)'
      BY <2>4 DEF Live
    <3> QED
      BY <3>1, <3>2, <3>3
  <2>6. Shared(r)
    <3>1. walk[r].answer \in Accounts
      BY <1>1, <2>1, <2>2 DEF ServeInv, One, Asked
    <3> QED
      BY <1>7, <3>1, SharedKept DEF Relay
  <2> QED
    BY <1>1, <1>2, <2>1, <2>3, <2>5, <2>6, Accounted
<1> QED
  BY <1>3, <1>4, <1>5, <1>6, <1>7 DEF Answer

-----------------------------------------------------------------------------
(* The whole *)

LEMMA TickKept == ASSUME ServeInv, Tick PROVE ServeInv'
<1>1. cooling' \in [Accounts -> {0, Short, Long}]
  <2>1. \A a \in Accounts : cooling[a] \in {0, 1, 2}
    BY DEF ServeInv, TypeOK, Short, Long
  <2>2. cooling' = [a \in Accounts |-> IF cooling[a] > 0 THEN cooling[a] - 1 ELSE 0]
    BY DEF Tick
  <2>3. ASSUME NEW a \in Accounts PROVE (IF cooling[a] > 0 THEN cooling[a] - 1 ELSE 0) \in {0, 1, 2}
    BY <2>1
  <2> QED
    BY <2>2, <2>3 DEF Short, Long
<1>2. UNCHANGED <<cursor, preferred, expired, leader, unlocked, pc, walk, entry, records, left, wronged>>
  BY DEF Tick
<1>3. TypeOK'
  BY <1>1, <1>2 DEF ServeInv, TypeOK
<1>4. ASSUME NEW q \in Requests PROVE One(q)'
  BY <1>2 DEF ServeInv, One, Asked, Recorded, Live, Account
<1> QED
  BY <1>3, <1>4 DEF ServeInv

\* A client that leaves takes none of the invariant's promises with it.
LEMMA LeaveKept == ASSUME ServeInv, NEW r \in Requests, Leave(r) PROVE ServeInv'
<1>1. left' = left \cup {r} /\ UNCHANGED <<sharedVars, pc, walk, entry, records, wronged>>
  BY DEF Leave
<1>2. TypeOK'
  BY <1>1 DEF ServeInv, TypeOK, sharedVars
<1>3. ASSUME NEW q \in Requests PROVE One(q)'
  BY <1>1 DEF ServeInv, One, Asked, Recorded, Live, Account
<1> QED
  BY <1>2, <1>3 DEF ServeInv

LEMMA PendingTimeoutKept == ASSUME ServeInv, NEW r \in Requests, PendingTimeout(r) PROVE ServeInv'
<1>1. /\ entry' = [entry EXCEPT ![r] = None]
      /\ UNCHANGED <<sharedVars, pc, walk, records, left, wronged>>
  BY DEF PendingTimeout
<1>2. TypeOK'
  BY <1>1 DEF ServeInv, TypeOK, sharedVars
<1>3. ASSUME NEW q \in Requests PROVE One(q)'
  <2>1. entry'[q] = None \/ entry'[q] = entry[q]
    BY <1>1 DEF ServeInv, TypeOK
  <2> QED
    BY <1>1, <2>1 DEF ServeInv, One, Asked, Recorded, Live, Account
<1> QED
  BY <1>2, <1>3 DEF ServeInv

LEMMA ServeInvKept == ServeInv /\ [Next]_vars => ServeInv'
<1> SUFFICES ASSUME ServeInv, [Next]_vars PROVE ServeInv'
  OBVIOUS
<1>1. CASE UNCHANGED vars
  BY <1>1 DEF vars, ServeInv, TypeOK, One, Asked, Recorded, Live, Account
<1>2. CASE Tick
  BY <1>2, TickKept
<1>3. ASSUME NEW r \in Requests, Serve(r) PROVE ServeInv'
  BY <1>3, LoopKept, AttemptKept, ResponseKept, AnswerKept DEF Serve
<1>4. ASSUME NEW r \in Requests, Leave(r) PROVE ServeInv'
  BY <1>4, LeaveKept
<1>5. ASSUME NEW r \in Requests, PendingTimeout(r) PROVE ServeInv'
  BY <1>5, PendingTimeoutKept
<1> QED
  BY <1>1, <1>2, <1>3, <1>4, <1>5 DEF Next

LEMMA ServeInvInvariant == Spec => []ServeInv
BY ServeInitHolds, ServeInvKept, PTL DEF Spec

\* The loop's locals, the shared cooldowns and cursors and the accounting keep their
\* types, whatever the interleaving of the requests.
THEOREM DispatchTypeCorrect == Spec => []TypeOK
<1>1. ServeInv => TypeOK
  BY DEF ServeInv
<1> QED
  BY <1>1, ServeInvInvariant, PTL

\* publishOutcomeFlagged runs at most once for a request: between the deferred check of
\* dispatchAttempts, the one of dispatchError and the relay, no way out records twice, an
\* answer is always recorded, and an error of a client that stayed never.
THEOREM RequestRecordedOnce == Spec => []RecordedOnce
<1>1. ServeInv => RecordedOnce
  <2> SUFFICES ASSUME ServeInv, NEW r \in Requests
               PROVE  /\ Len(records[r]) <= 1
                      /\ pc[r] = "done" /\ walk[r].error = "none" => Len(records[r]) = 1
                      /\ records[r] # <<>> => walk[r].used > 0 /\ pc[r] \in {"error", "done"}
                      /\ records[r] # <<>> /\ r \notin left => walk[r].error = "none"
    BY DEF RecordedOnce
  <2> QED
    BY DEF ServeInv, One, Recorded
<1> QED
  BY <1>1, ServeInvInvariant, PTL

\* Tracker.Begin of an attempt replaces the entry of the attempt before, and a request
\* whose client stayed ends its entry before it is done.
THEOREM EntryTracksAttempt == Spec => []LiveTracksAttempt
<1>1. ServeInv => LiveTracksAttempt
  BY DEF ServeInv, One, Live, LiveTracksAttempt
<1> QED
  BY <1>1, ServeInvInvariant, PTL

-----------------------------------------------------------------------------
(* Sequences of events *)
\* A sequence of events of the given types; one of anything.
Stream(out, types) == \E S : out \in Seq(S) /\ \A e \in S : e.t \in types
IsSeq(x) == \E S : x \in Seq(S)

\* What keeps a sequence one, and a stream one of its types.
LEMMA SeqAppend == ASSUME NEW x, IsSeq(x), NEW e PROVE IsSeq(Append(x, e))
<1>1. PICK S : x \in Seq(S)
  BY DEF IsSeq
<1>2. Append(x, e) \in Seq(S \cup {e})
  BY <1>1
<1> QED BY <1>2 DEF IsSeq

LEMMA SeqExcept == ASSUME NEW x, IsSeq(x), NEW n, NEW v PROVE IsSeq([x EXCEPT ![n] = v])
<1>1. PICK S : x \in Seq(S)
  BY DEF IsSeq
<1>2. x \in [1 .. Len(x) -> S] /\ Len(x) \in Nat
  BY <1>1
<1>3. [x EXCEPT ![n] = v] \in [1 .. Len(x) -> S \cup {v}]
  BY <1>2
<1>4. [x EXCEPT ![n] = v] \in Seq(S \cup {v})
  BY <1>2, <1>3
<1> QED BY <1>4 DEF IsSeq

LEMMA SeqConcat == ASSUME NEW x, NEW y, IsSeq(x), IsSeq(y) PROVE IsSeq(x \o y)
<1>1. PICK S : x \in Seq(S)
  BY DEF IsSeq
<1>2. PICK T : y \in Seq(T)
  BY DEF IsSeq
<1>3. x \in Seq(S \cup T) /\ y \in Seq(S \cup T)
  BY <1>1, <1>2
<1>4. x \o y \in Seq(S \cup T)
  BY <1>3
<1> QED BY <1>4 DEF IsSeq

LEMMA SeqDomain == ASSUME NEW x, IsSeq(x) PROVE Len(x) \in Nat /\ DOMAIN x = 1 .. Len(x)
BY DEF IsSeq

LEMMA SeqOver == ASSUME NEW f, NEW N \in Nat, DOMAIN f = 1 .. N, f = [n \in 1 .. N |-> f[n]] PROVE IsSeq(f) /\ Len(f) = N
<1>1. f \in Seq({f[n] : n \in 1 .. N})
  OBVIOUS
<1>2. Len(f) = N
  BY <1>1
<1>3. IsSeq(f)
  BY <1>1, Zenon DEF IsSeq
<1> QED BY <1>2, <1>3

LEMMA StreamEmpty == ASSUME NEW T PROVE Stream(<<>>, T)
<1>1. <<>> \in Seq({})
  OBVIOUS
<1> DEFINE S == {}
<1>2. <<>> \in Seq(S) /\ \A e \in S : e.t \in T
  BY <1>1
<1> HIDE DEF S
<1> QED BY <1>2 DEF Stream

LEMMA StreamAppend == ASSUME NEW T, NEW out, Stream(out, T), NEW e, e.t \in T PROVE Stream(Append(out, e), T)
<1>1. PICK S : out \in Seq(S) /\ \A d \in S : d.t \in T
  BY DEF Stream
<1>2. Append(out, e) \in Seq(S \cup {e})
  BY <1>1
<1>3. \A d \in S \cup {e} : d.t \in T
  BY <1>1
<1> QED BY <1>2, <1>3 DEF Stream

LEMMA StreamConcat == ASSUME NEW T, NEW x, NEW y, Stream(x, T), Stream(y, T) PROVE Stream(x \o y, T)
<1>1. PICK S : x \in Seq(S) /\ \A d \in S : d.t \in T
  BY DEF Stream
<1>2. PICK R : y \in Seq(R) /\ \A d \in R : d.t \in T
  BY DEF Stream
<1>3. x \in Seq(S \cup R) /\ y \in Seq(S \cup R)
  BY <1>1, <1>2
<1>4. x \o y \in Seq(S \cup R)
  BY <1>3
<1>5. \A d \in S \cup R : d.t \in T
  BY <1>1, <1>2
<1> QED BY <1>4, <1>5 DEF Stream

LEMMA StreamElements == ASSUME NEW T, NEW out, Stream(out, T)
  PROVE /\ Len(out) \in Nat /\ DOMAIN out = 1 .. Len(out)
        /\ \A n \in 1 .. Len(out) : out[n].t \in T
BY DEF Stream

LEMMA StreamTail == ASSUME NEW T, NEW out, Stream(out, T), out # <<>>
                    PROVE  Head(out).t \in T /\ Stream(Tail(out), T)
<1>1. PICK S : out \in Seq(S) /\ \A d \in S : d.t \in T
  BY DEF Stream
<1>2. Head(out) \in S /\ Tail(out) \in Seq(S)
  BY <1>1
<1> QED BY <1>1, <1>2 DEF Stream

-----------------------------------------------------------------------------
\* Induction for a set of naturals: the library states it for a predicate, which no prover here
\* can instantiate.  A counterexample would have a least.
LEMMA SetInduction == ASSUME NEW P, 0 \in P, \A n \in Nat : n \in P => n + 1 \in P PROVE Nat \subseteq P
<1> DEFINE Q == Nat \ P
<1> SUFFICES ASSUME Q # {} PROVE FALSE
  OBVIOUS
<1>1. IsWellFoundedOn(OpToRel(<, Nat), Nat)
  BY NatLessThanWellFounded
<1>2. \E x \in Q : \A y \in Q : ~(<<y, x>> \in OpToRel(<, Nat))
  BY <1>1, WFMin
<1>3. PICK n \in Q : \A y \in Q : ~(<<y, n>> \in OpToRel(<, Nat))
  BY <1>2
<1>4. n \in Nat /\ n \notin P
  OBVIOUS
<1>5. n # 0
  BY <1>4
<1>6. n - 1 \in Nat /\ n - 1 < n /\ (n - 1) + 1 = n
  BY <1>4, <1>5
<1>7. n - 1 \notin P
  BY <1>4, <1>6
<1>8. <<n - 1, n>> \in OpToRel(<, Nat)
  BY <1>4, <1>6 DEF OpToRel
<1> QED
  BY <1>3, <1>6, <1>7, <1>8

-----------------------------------------------------------------------------
(* FoldLeft: from its definition over sets of positions to its steps *)
LEMMA MaxRange == ASSUME NEW n \in Nat PROVE Max(1 .. n + 1) = n + 1 /\ (1 .. n + 1) \ {n + 1} = 1 .. n
<1>1. n + 1 \in 1 .. n + 1 /\ \A y \in 1 .. n + 1 : n + 1 >= y
  OBVIOUS
<1>2. \A x \in 1 .. n + 1 : (\A y \in 1 .. n + 1 : x >= y) => x = n + 1
  BY <1>1
<1> QED BY <1>1, <1>2 DEF Max

LEMMA MaxTop == ASSUME NEW n \in Nat, NEW s \in SUBSET (1 .. n + 1), n + 1 \in s PROVE Max(s) = n + 1
<1>1. \A y \in s : n + 1 >= y
  OBVIOUS
<1>2. \A x \in s : (\A y \in s : x >= y) => x = n + 1
  BY <1>1
<1> QED BY <1>1, <1>2 DEF Max

LEMMA MaxIn == ASSUME NEW n \in Nat, NEW s \in SUBSET (1 .. n), s # {} PROVE Max(s) \in s
<1> DEFINE P == {m \in Nat : \A q \in SUBSET (1 .. m) : q # {} => \E x \in q : \A y \in q : x >= y}
<1>1. 0 \in P
  <2>1. \A q \in SUBSET (1 .. 0) : q = {}
    OBVIOUS
  <2> QED BY <2>1
<1>2. \A m \in Nat : m \in P => m + 1 \in P
  <2> SUFFICES ASSUME NEW m \in Nat, m \in P, NEW q \in SUBSET (1 .. m + 1), q # {}
               PROVE  \E x \in q : \A y \in q : x >= y
    OBVIOUS
  <2>1. CASE m + 1 \in q
    BY <2>1
  <2>2. CASE m + 1 \notin q
    <3>1. q \in SUBSET (1 .. m)
      BY <2>2
    <3> QED BY <3>1
  <2> QED BY <2>1, <2>2
<1>3. n \in P
  <2> HIDE DEF P
  <2> QED BY <1>1, <1>2, SetInduction
<1>4. \E x \in s : \A y \in s : x >= y
  BY <1>3
<1> QED BY <1>4 DEF Max

\* The steps of the folds.
FoldStep(fold, s, x) ==
    CASE fold = "ReadNext" -> ReadNext(s, x)
      [] fold = "CloseCall" -> CloseCall(s, x)
      [] fold = "CloseItem" -> CloseItem(s, x)
      [] fold = "ConsumeDone" -> ConsumeDone(s, x)
      [] fold = "GiveNothing" -> GiveNothing(s, x)
      [] fold = "Accept" -> Accept(s, x)

\* FoldLeft goes through the sets of positions of the sequence, from the last position down.
Folding(fold, base, seq, N, it) ==
    it = [s \in SUBSET (1 .. N) |-> IF s = {} THEN base ELSE FoldStep(fold, it[s \ {Max(s)}], seq[Max(s)])]

LEMMA FoldExists ==
    ASSUME NEW fold, NEW base, NEW seq, NEW N \in Nat
    PROVE  \E it : Folding(fold, base, seq, N, it)
<1> DEFINE Def(m, it) == it = [s \in SUBSET (1 .. m) |-> IF s = {} THEN base
                                                  ELSE FoldStep(fold, it[s \ {Max(s)}], seq[Max(s)])]
           P == {m \in Nat : \E it : Def(m, it)}
<1>1. 0 \in P
  <2> DEFINE it == [s \in SUBSET (1 .. 0) |-> base]
  <2>1. \A s \in SUBSET (1 .. 0) : s = {}
    OBVIOUS
  <2>2. Def(0, it)
    BY <2>1
  <2> QED BY <2>2
<1>2. \A m \in Nat : m \in P => m + 1 \in P
  <2> SUFFICES ASSUME NEW m \in Nat, m \in P PROVE m + 1 \in P
    OBVIOUS
  <2>3. PICK g : Def(m, g)
    OBVIOUS
  <2> DEFINE it == [s \in SUBSET (1 .. m + 1) |->
                      IF m + 1 \in s THEN FoldStep(fold, g[s \ {m + 1}], seq[m + 1]) ELSE g[s]]
  <2>1. ASSUME NEW s \in SUBSET (1 .. m + 1)
        PROVE  it[s] = IF s = {} THEN base ELSE FoldStep(fold, it[s \ {Max(s)}], seq[Max(s)])
    <3>1. CASE m + 1 \in s
      <4>1. Max(s) = m + 1
        BY <3>1, MaxTop
      <4>2. s \ {m + 1} \in SUBSET (1 .. m + 1) /\ m + 1 \notin s \ {m + 1}
        OBVIOUS
      <4>3. it[s \ {m + 1}] = g[s \ {m + 1}]
        BY <4>2
      <4> QED BY <3>1, <4>1, <4>3
    <3>2. CASE m + 1 \notin s /\ s # {}
      <4>1. s \in SUBSET (1 .. m)
        BY <3>2
      <4>2. Max(s) \in s
        BY <4>1, <3>2, MaxIn
      <4>3. s \ {Max(s)} \in SUBSET (1 .. m + 1) /\ m + 1 \notin s \ {Max(s)}
        BY <3>2
      <4>4. it[s] = g[s] /\ it[s \ {Max(s)}] = g[s \ {Max(s)}]
        BY <3>2, <4>3
      <4>5. g[s] = FoldStep(fold, g[s \ {Max(s)}], seq[Max(s)])
        BY <4>1, <3>2, <2>3
      <4> QED BY <4>4, <4>5, <3>2
    <3>3. CASE s = {}
      <4>1. it[{}] = g[{}]
        OBVIOUS
      <4>2. g[{}] = base
        BY <2>3
      <4> QED BY <3>3, <4>1, <4>2
    <3> QED BY <3>1, <3>2, <3>3
  <2>2. Def(m + 1, it)
    BY <2>1, Zenon
  <2>4. \E h : Def(m + 1, h)
    BY <2>2, Zenon
  <2>5. m + 1 \in Nat
    OBVIOUS
  <2> HIDE DEF Def
  <2> QED BY <2>4, <2>5
<1>3. N \in P
  <2> HIDE DEF P
  <2> QED BY <1>1, <1>2, SetInduction
<1> QED BY <1>3 DEF Folding

\* From the definition of FoldLeft over sets to its steps along the sequence.
Path(fold, base, seq, last, g) ==
    /\ g[0] = base /\ g[Len(seq)] = last
    /\ \A n \in 1 .. Len(seq) : g[n] = FoldStep(fold, g[n - 1], seq[n])

LEMMA FoldSteps ==
    ASSUME NEW fold, NEW base, NEW seq, NEW it, IsSeq(seq), Folding(fold, base, seq, Len(seq), it)
    PROVE  \E g : Path(fold, base, seq, it[1 .. Len(seq)], g)
<1> USE DEF Folding
<1> DEFINE N == Len(seq)
           g == [n \in 0 .. N |-> it[1 .. n]]
<1>0. N \in Nat
  BY SeqDomain
<1>4. it = [s \in SUBSET (1 .. N) |-> IF s = {} THEN base ELSE FoldStep(fold, it[s \ {Max(s)}], seq[Max(s)])]
  OBVIOUS
<1> HIDE DEF N
<1>1. g[0] = base
  <2>1. 1 .. 0 = {}
    OBVIOUS
  <2>2. it[{}] = base
    BY <1>4
  <2> QED BY <1>0, <2>1, <2>2
<1>2. ASSUME NEW n \in 1 .. N
      PROVE  g[n] = FoldStep(fold, g[n - 1], seq[n])
  <2>1. n - 1 \in Nat /\ (n - 1) + 1 = n
    BY <1>0
  <2>2. Max(1 .. n) = n /\ (1 .. n) \ {n} = 1 .. n - 1
    BY <2>1, MaxRange
  <2>3. 1 .. n \in SUBSET (1 .. N) /\ n \in 1 .. n
    BY <1>0, <2>1
  <2>4. it[1 .. n] = FoldStep(fold, it[1 .. n - 1], seq[n])
    BY <1>4, <2>2, <2>3
  <2>5. n \in 0 .. N /\ n - 1 \in 0 .. N
    BY <1>0
  <2>6. g[n] = it[1 .. n] /\ g[n - 1] = it[1 .. n - 1]
    BY <2>5
  <2> QED BY <2>4, <2>6
<1>3. g[N] = it[1 .. N]
  <2>1. N \in 0 .. N
    BY <1>0
  <2> QED BY <2>1
<1> HIDE DEF g
<1>5. Path(fold, base, seq, it[1 .. N], g)
  BY <1>1, <1>2, <1>3 DEF Path, N
<1> QED BY <1>5 DEF N

\* What holds of the first state of a path and is kept by each step holds of the last.
LEMMA Along ==
    ASSUME NEW N \in Nat, NEW P, 0 \in P, \A n \in 1 .. N : n - 1 \in P => n \in P
    PROVE  N \in P
<1> DEFINE Q == {n \in Nat : n \in 0 .. N => n \in P}
<1>1. 0 \in Q
  OBVIOUS
<1>2. \A n \in Nat : n \in Q => n + 1 \in Q
  <2> SUFFICES ASSUME NEW n \in Nat, n \in Q, n + 1 \in 0 .. N PROVE n + 1 \in P
    OBVIOUS
  <2>1. n \in P /\ n + 1 \in 1 .. N /\ (n + 1) - 1 = n
    OBVIOUS
  <2> QED BY <2>1
<1> HIDE DEF Q
<1>3. N \in Q
  BY <1>1, <1>2, SetInduction
<1> QED BY <1>3 DEF Q

\* The folds of the model.  A fold's step cannot be a parameter of a lemma either, so each fold
\* is shown to be the one that its name stands for.
AllCloseCall(base, seq) == FoldLeft(CloseCall, base, seq)
LEMMA FoldCloseCall ==
    ASSUME NEW base, NEW seq, IsSeq(seq)
    PROVE  \E g : Path("CloseCall", base, seq, AllCloseCall(base, seq), g)
<1> DEFINE Def(it) == it = [s \in SUBSET (1 .. Len(seq)) |->
                              IF s = {} THEN base ELSE CloseCall(it[s \ {Max(s)}], seq[Max(s)])]
           iter == CHOOSE it : Def(it)
<1>1. Len(seq) \in Nat /\ DOMAIN seq = 1 .. Len(seq)
  BY SeqDomain
<1>2. \A s, x : FoldStep("CloseCall", s, x) = CloseCall(s, x)
  BY DEF FoldStep
<1>3. PICK h : Folding("CloseCall", base, seq, Len(seq), h)
  BY <1>1, FoldExists
<1>4. Def(h)
  BY <1>2, <1>3, Zenon DEF Folding
<1>5. Def(iter)
  BY <1>4, Zenon
<1>6. AllCloseCall(base, seq) = iter[1 .. Len(seq)]
  BY <1>1, Zenon DEF AllCloseCall, FoldLeft, MapThenFoldSet
<1> HIDE DEF iter
<1>7. Folding("CloseCall", base, seq, Len(seq), iter)
  BY <1>2, <1>5, Zenon DEF Folding
<1> QED BY <1>6, <1>7, FoldSteps

AllReadNext(base, seq) == FoldLeft(ReadNext, base, seq)
LEMMA FoldReadNext ==
    ASSUME NEW base, NEW seq, IsSeq(seq)
    PROVE  \E g : Path("ReadNext", base, seq, AllReadNext(base, seq), g)
<1> DEFINE Def(it) == it = [s \in SUBSET (1 .. Len(seq)) |->
                              IF s = {} THEN base ELSE ReadNext(it[s \ {Max(s)}], seq[Max(s)])]
           iter == CHOOSE it : Def(it)
<1>1. Len(seq) \in Nat /\ DOMAIN seq = 1 .. Len(seq)
  BY SeqDomain
<1>2. \A s, x : FoldStep("ReadNext", s, x) = ReadNext(s, x)
  BY DEF FoldStep
<1>3. PICK h : Folding("ReadNext", base, seq, Len(seq), h)
  BY <1>1, FoldExists
<1>4. Def(h)
  BY <1>2, <1>3, Zenon DEF Folding
<1>5. Def(iter)
  BY <1>4, Zenon
<1>6. AllReadNext(base, seq) = iter[1 .. Len(seq)]
  BY <1>1, Zenon DEF AllReadNext, FoldLeft, MapThenFoldSet
<1> HIDE DEF iter
<1>7. Folding("ReadNext", base, seq, Len(seq), iter)
  BY <1>2, <1>5, Zenon DEF Folding
<1> QED BY <1>6, <1>7, FoldSteps

AllCloseItem(base, seq) == FoldLeft(CloseItem, base, seq)
LEMMA FoldCloseItem ==
    ASSUME NEW base, NEW seq, IsSeq(seq)
    PROVE  \E g : Path("CloseItem", base, seq, AllCloseItem(base, seq), g)
<1> DEFINE Def(it) == it = [s \in SUBSET (1 .. Len(seq)) |->
                              IF s = {} THEN base ELSE CloseItem(it[s \ {Max(s)}], seq[Max(s)])]
           iter == CHOOSE it : Def(it)
<1>1. Len(seq) \in Nat /\ DOMAIN seq = 1 .. Len(seq)
  BY SeqDomain
<1>2. \A s, x : FoldStep("CloseItem", s, x) = CloseItem(s, x)
  BY DEF FoldStep
<1>3. PICK h : Folding("CloseItem", base, seq, Len(seq), h)
  BY <1>1, FoldExists
<1>4. Def(h)
  BY <1>2, <1>3, Zenon DEF Folding
<1>5. Def(iter)
  BY <1>4, Zenon
<1>6. AllCloseItem(base, seq) = iter[1 .. Len(seq)]
  BY <1>1, Zenon DEF AllCloseItem, FoldLeft, MapThenFoldSet
<1> HIDE DEF iter
<1>7. Folding("CloseItem", base, seq, Len(seq), iter)
  BY <1>2, <1>5, Zenon DEF Folding
<1> QED BY <1>6, <1>7, FoldSteps

AllConsumeDone(base, seq) == FoldLeft(ConsumeDone, base, seq)
LEMMA FoldConsumeDone ==
    ASSUME NEW base, NEW seq, IsSeq(seq)
    PROVE  \E g : Path("ConsumeDone", base, seq, AllConsumeDone(base, seq), g)
<1> DEFINE Def(it) == it = [s \in SUBSET (1 .. Len(seq)) |->
                              IF s = {} THEN base ELSE ConsumeDone(it[s \ {Max(s)}], seq[Max(s)])]
           iter == CHOOSE it : Def(it)
<1>1. Len(seq) \in Nat /\ DOMAIN seq = 1 .. Len(seq)
  BY SeqDomain
<1>2. \A s, x : FoldStep("ConsumeDone", s, x) = ConsumeDone(s, x)
  BY DEF FoldStep
<1>3. PICK h : Folding("ConsumeDone", base, seq, Len(seq), h)
  BY <1>1, FoldExists
<1>4. Def(h)
  BY <1>2, <1>3, Zenon DEF Folding
<1>5. Def(iter)
  BY <1>4, Zenon
<1>6. AllConsumeDone(base, seq) = iter[1 .. Len(seq)]
  BY <1>1, Zenon DEF AllConsumeDone, FoldLeft, MapThenFoldSet
<1> HIDE DEF iter
<1>7. Folding("ConsumeDone", base, seq, Len(seq), iter)
  BY <1>2, <1>5, Zenon DEF Folding
<1> QED BY <1>6, <1>7, FoldSteps

AllGiveNothing(base, seq) == FoldLeft(GiveNothing, base, seq)
LEMMA FoldGiveNothing ==
    ASSUME NEW base, NEW seq, IsSeq(seq)
    PROVE  \E g : Path("GiveNothing", base, seq, AllGiveNothing(base, seq), g)
<1> DEFINE Def(it) == it = [s \in SUBSET (1 .. Len(seq)) |->
                              IF s = {} THEN base ELSE GiveNothing(it[s \ {Max(s)}], seq[Max(s)])]
           iter == CHOOSE it : Def(it)
<1>1. Len(seq) \in Nat /\ DOMAIN seq = 1 .. Len(seq)
  BY SeqDomain
<1>2. \A s, x : FoldStep("GiveNothing", s, x) = GiveNothing(s, x)
  BY DEF FoldStep
<1>3. PICK h : Folding("GiveNothing", base, seq, Len(seq), h)
  BY <1>1, FoldExists
<1>4. Def(h)
  BY <1>2, <1>3, Zenon DEF Folding
<1>5. Def(iter)
  BY <1>4, Zenon
<1>6. AllGiveNothing(base, seq) = iter[1 .. Len(seq)]
  BY <1>1, Zenon DEF AllGiveNothing, FoldLeft, MapThenFoldSet
<1> HIDE DEF iter
<1>7. Folding("GiveNothing", base, seq, Len(seq), iter)
  BY <1>2, <1>5, Zenon DEF Folding
<1> QED BY <1>6, <1>7, FoldSteps

AllAccept(base, seq) == FoldLeft(Accept, base, seq)
LEMMA FoldAccept ==
    ASSUME NEW base, NEW seq, IsSeq(seq)
    PROVE  \E g : Path("Accept", base, seq, AllAccept(base, seq), g)
<1> DEFINE Def(it) == it = [s \in SUBSET (1 .. Len(seq)) |->
                              IF s = {} THEN base ELSE Accept(it[s \ {Max(s)}], seq[Max(s)])]
           iter == CHOOSE it : Def(it)
<1>1. Len(seq) \in Nat /\ DOMAIN seq = 1 .. Len(seq)
  BY SeqDomain
<1>2. \A s, x : FoldStep("Accept", s, x) = Accept(s, x)
  BY DEF FoldStep
<1>3. PICK h : Folding("Accept", base, seq, Len(seq), h)
  BY <1>1, FoldExists
<1>4. Def(h)
  BY <1>2, <1>3, Zenon DEF Folding
<1>5. Def(iter)
  BY <1>4, Zenon
<1>6. AllAccept(base, seq) = iter[1 .. Len(seq)]
  BY <1>1, Zenon DEF AllAccept, FoldLeft, MapThenFoldSet
<1> HIDE DEF iter
<1>7. Folding("Accept", base, seq, Len(seq), iter)
  BY <1>2, <1>5, Zenon DEF Folding
<1> QED BY <1>6, <1>7, FoldSteps

-----------------------------------------------------------------------------
(* What a leg tells *)
\* What a leg writes while the answer goes on, to a client of the protocol.
Quiet(protocol) ==
    CASE protocol = "messages" -> {"message_start", "content_block_start", "content_block_delta", "content_block_stop", "message_delta"}
      [] protocol = "responses" -> {"response.created", "response.output_item.added", "delta", "response.output_item.done"}
      [] OTHER -> {"role", "text", "call", "finish"}

LEMMA QuietMessages == Quiet("messages") =
    {"message_start", "content_block_start", "content_block_delta", "content_block_stop", "message_delta"}
BY DEF Quiet

LEMMA QuietResponses == Quiet("responses") =
    {"response.created", "response.output_item.added", "delta", "response.output_item.done"}
BY DEF Quiet

LEMMA QuietChat == Quiet("chat") = {"role", "text", "call", "finish"}
BY DEF Quiet

LEMMA PlainType == ASSUME NEW t PROVE Plain(t).t = t
BY DEF Plain

LEMMA PieceType == ASSUME NEW t, NEW i, NEW k, NEW p PROVE Piece(t, i, k, p).t = t
BY DEF Plain, Piece

LEMMA FinalType == ASSUME NEW t, NEW k, NEW u PROVE Final(t, k, u).t = t
BY DEF Plain, Final

\* A leg that has not ended and has written no ending.
Calm(s, fields, protocol) ==
    /\ DOMAIN s = fields /\ {"out", "end"} \subseteq fields
    /\ s.end = "" /\ Stream(s.out, Quiet(protocol))

LEMMA CalmEmit ==
    ASSUME NEW s, NEW fields, NEW protocol, Calm(s, fields, protocol), NEW e, e.t \in Quiet(protocol)
    PROVE  Calm(Emit(s, e), fields, protocol) /\ \A f \in fields : f # "out" => Emit(s, e)[f] = s[f]
<1>1. Stream(Append(s.out, e), Quiet(protocol))
  BY StreamAppend DEF Calm
<1> QED BY <1>1 DEF Calm, Emit

-----------------------------------------------------------------------------
(* ChatToMessages *)
CMFields == {"started", "finish", "seen", "open", "next", "calls", "count", "u", "out", "end"}
CMCalm(s, seen) == Calm(s, CMFields, "messages") /\ IsSeq(s.calls) /\ s.seen = seen

LEMMA CMEmit ==
    ASSUME NEW s, NEW seen, CMCalm(s, seen), NEW e, e.t \in Quiet("messages")
    PROVE  CMCalm(Emit(s, e), seen)
BY CalmEmit DEF CMCalm, CMFields

LEMMA CMStarted == ASSUME NEW s, NEW seen, CMCalm(s, seen) PROVE CMCalm(Started(s), seen)
<1>0. Plain("message_start").t \in Quiet("messages")
  BY PieceType, PlainType, QuietMessages
<1>1. CMCalm(Emit(s, Plain("message_start")), seen)
  BY <1>0, CMEmit
<1>2. CMCalm([Emit(s, Plain("message_start")) EXCEPT !.started = TRUE], seen)
  BY <1>1 DEF CMCalm, Calm, CMFields
<1> QED BY <1>2 DEF Started

LEMMA CMStopBlock == ASSUME NEW s, NEW seen, NEW k, CMCalm(s, seen) PROVE CMCalm(StopBlock(s, k), seen)
<1> DEFINE e == Piece("content_block_stop", s.open[k], "", <<>>)
<1>0. e.t \in Quiet("messages")
  <2>1. e.t = "content_block_stop"
    BY PieceType
  <2> QED BY <2>1, QuietMessages
<1> HIDE DEF e
<1>1. CMCalm(Emit(s, e), seen)
  BY <1>0, CMEmit
<1>2. CMCalm([Emit(s, e) EXCEPT !.open[k] = 0], seen)
  BY <1>1 DEF CMCalm, Calm, CMFields
<1> QED BY <1>2 DEF StopBlock, e

LEMMA CMStartBlock == ASSUME NEW s, NEW seen, NEW k, CMCalm(s, seen) PROVE CMCalm(StartBlock(s, k), seen)
<1> DEFINE e == Piece("content_block_start", s.next, k, <<>>)
<1>0. e.t \in Quiet("messages")
  BY PieceType, PlainType, QuietMessages
<1> HIDE DEF e
<1>1. CMCalm(Emit(s, e), seen)
  BY <1>0, CMEmit
<1>2. CMCalm([Emit(s, e) EXCEPT !.next = @ + 1], seen)
  BY <1>1 DEF CMCalm, Calm, CMFields
<1> QED BY <1>2 DEF StartBlock, e

LEMMA CMAddText == ASSUME NEW s, NEW seen, NEW k, NEW p, CMCalm(s, seen) PROVE CMCalm(AddText(s, k, p), seen)
<1> DEFINE still == StopBlock(s, IF k = "think" THEN "text" ELSE "think")
           opened == IF still.open[k] # 0 THEN still ELSE [StartBlock(still, k) EXCEPT !.open[k] = still.next]
           e == Piece("content_block_delta", opened.open[k], k, p)
<1>1. CMCalm(still, seen)
  BY CMStopBlock
<1>2. CMCalm(StartBlock(still, k), seen)
  BY <1>1, CMStartBlock
<1> HIDE DEF still
<1>3. CMCalm([StartBlock(still, k) EXCEPT !.open[k] = still.next], seen)
  BY <1>2 DEF CMCalm, Calm, CMFields
<1>4. CMCalm(opened, seen)
  BY <1>1, <1>3
<1>5. e.t \in Quiet("messages")
  BY PieceType, PlainType, QuietMessages
<1> HIDE DEF opened, e
<1>6. CMCalm(Emit(opened, e), seen)
  BY <1>4, <1>5, CMEmit
<1> QED BY <1>6 DEF AddText, opened, e, still

LEMMA CMStartCall == ASSUME NEW s, NEW seen, NEW e, CMCalm(s, seen) PROVE CMCalm(StartCall(s, e), seen)
<1> DEFINE still == StopBlock(StopBlock(s, "think"), "text")
           call == [i |-> e.i, k |-> e.k, block |-> still.next, p |-> <<>>]
<1>1. CMCalm(still, seen)
  BY CMStopBlock
<1>2. CMCalm(StartBlock(still, e.k), seen)
  BY <1>1, CMStartBlock
<1> HIDE DEF still, call
<1>3. IsSeq(Append(StartBlock(still, e.k).calls, call))
  BY <1>2, SeqAppend DEF CMCalm
<1>4. CMCalm([StartBlock(still, e.k) EXCEPT !.count = @ + 1, !.calls = Append(@, call)], seen)
  BY <1>2, <1>3 DEF CMCalm, Calm, CMFields
<1> QED BY <1>4 DEF StartCall, still, call

LEMMA CMCloseCall == ASSUME NEW s, NEW seen, NEW call, CMCalm(s, seen) PROVE CMCalm(CloseCall(s, call), seen)
<1> DEFINE given == Piece("content_block_delta", call.block, call.k, call.p)
           flushed == IF call.p = <<>> THEN s ELSE Emit(s, given)
           e == Piece("content_block_stop", call.block, "", <<>>)
<1>1. given.t \in Quiet("messages") /\ e.t \in Quiet("messages")
  <2>1. given.t = "content_block_delta"
    BY PieceType, PlainType
  <2>2. e.t = "content_block_stop"
    BY PieceType, PlainType
  <2> HIDE DEF given, e
  <2> QED BY <2>1, <2>2, QuietMessages
<1> HIDE DEF given, e
<1>2. CMCalm(Emit(s, given), seen)
  BY <1>1, CMEmit
<1>3. CMCalm(flushed, seen)
  BY <1>2
<1> HIDE DEF flushed
<1>4. CMCalm(Emit(flushed, e), seen)
  BY <1>1, <1>3, CMEmit
<1> QED BY <1>4 DEF CloseCall, flushed, given, e

LEMMA CMCloseBlocks == ASSUME NEW s, NEW seen, CMCalm(s, seen) PROVE CMCalm(CloseBlocks(s), seen)
<1> DEFINE still == StopBlock(StopBlock(s, "think"), "text")
           closed == AllCloseCall(still, s.calls)
<1>1. CMCalm(still, seen)
  BY CMStopBlock
<1>2. IsSeq(s.calls) /\ Len(s.calls) \in Nat
  BY SeqDomain DEF CMCalm
<1> HIDE DEF still
<1>3. PICK g : Path("CloseCall", still, s.calls, closed, g)
  BY <1>2, FoldCloseCall
<1> DEFINE P == {n \in 0 .. Len(s.calls) : CMCalm(g[n], seen)}
<1>4. 0 \in P
  BY <1>1, <1>2, <1>3 DEF Path
<1>5. \A n \in 1 .. Len(s.calls) : n - 1 \in P => n \in P
  <2> SUFFICES ASSUME NEW n \in 1 .. Len(s.calls), CMCalm(g[n - 1], seen) PROVE CMCalm(g[n], seen)
    OBVIOUS
  <2>1. g[n] = CloseCall(g[n - 1], s.calls[n])
    BY <1>3 DEF Path, FoldStep
  <2> QED BY <2>1, CMCloseCall
<1>6. Len(s.calls) \in P
  <2> HIDE DEF P
  <2> QED BY <1>2, <1>4, <1>5, Along
<1>7. CMCalm(closed, seen)
  BY <1>3, <1>6 DEF Path
<1> HIDE DEF closed
<1>8. CMCalm([closed EXCEPT !.calls = <<>>], seen)
  <2>1. IsSeq(<<>>)
    BY DEF IsSeq
  <2> QED BY <1>7, <2>1 DEF CMCalm, Calm, CMFields
<1> QED BY <1>8, Zenon DEF CloseBlocks, AllCloseCall, closed, still

\* An answer that is over: its last event says so, and what went before does not.
Ending(protocol) ==
    CASE protocol = "messages" -> {"message_stop"}
      [] protocol = "responses" -> {"response.completed", "response.incomplete"}
      [] OTHER -> {"[DONE]"}
Won(s, fields, protocol) ==
    /\ DOMAIN s = fields /\ s.end = "ok"
    /\ \E front, e : s.out = Append(front, e) /\ Stream(front, Quiet(protocol)) /\ e.t \in Ending(protocol)
\* Or its last event, and [DONE] after it for a Chat client, tells a failure.
FailsWith(protocol) ==
    CASE protocol = "messages" -> "error"
      [] protocol = "responses" -> "response.failed"
      [] OTHER -> "error"
FailedOut(out, protocol) ==
    \E front, e :
       /\ Stream(front, Quiet(protocol)) /\ e.t = FailsWith(protocol)
       /\ IF protocol = "chat" THEN \E d : d.t = "[DONE]" /\ out = Append(Append(front, e), d)
          ELSE out = Append(front, e)
Lost(s, fields, protocol) ==
    /\ DOMAIN s = fields /\ s.end \notin {"", "ok"} /\ FailedOut(s.out, protocol)

LEMMA CalmWins ==
    ASSUME NEW s, NEW fields, NEW protocol, Calm(s, fields, protocol), NEW e, e.t \in Ending(protocol)
    PROVE  Won(Over(Emit(s, e), "ok"), fields, protocol)
<1>1. Stream(s.out, Quiet(protocol)) /\ DOMAIN s = fields /\ {"out", "end"} \subseteq fields
  BY DEF Calm
<1>2. DOMAIN Over(Emit(s, e), "ok") = fields /\ Over(Emit(s, e), "ok").end = "ok"
  BY <1>1 DEF Over, Emit
<1>3. Over(Emit(s, e), "ok").out = Append(s.out, e)
  BY <1>1 DEF Over, Emit
<1> QED BY <1>1, <1>2, <1>3 DEF Won

LEMMA FailMessagesLost ==
    ASSUME NEW s, NEW fields, DOMAIN s = fields, {"out", "end"} \subseteq fields, NEW how \in {"cut", "failed"}
    PROVE  Lost(FailMessages(s, how), fields, "messages")
<1> DEFINE t == FailMessages(s, how)
<1>1. DOMAIN t = fields /\ t.end = how /\ t.out = <<Plain("error")>>
  BY DEF FailMessages, Over
<1>2. <<Plain("error")>> = Append(<<>>, Plain("error"))
  OBVIOUS
<1>3. Stream(<<>>, Quiet("messages")) /\ Plain("error").t = "error"
  BY StreamEmpty, PieceType, PlainType
<1>4. FailedOut(t.out, "messages")
  BY <1>1, <1>2, <1>3 DEF FailedOut, FailsWith
<1> HIDE DEF t
<1>5. Lost(t, fields, "messages")
  BY <1>1, <1>4 DEF Lost
<1> QED BY <1>5 DEF t

LEMMA CMAddCall ==
    ASSUME NEW s, NEW seen, NEW e, CMCalm(s, seen)
    PROVE  CMCalm(AddCall(s, e), seen) \/ Lost(AddCall(s, e), CMFields, "messages")
<1> DEFINE opened == StartCall(s, e)
           n == CallAt(opened.calls, e.i)
           p == opened.calls[n].p \o e.p
<1>1. CMCalm(opened, seen)
  BY CMStartCall
<1>2. CASE e.p # <<>> /\ ~Known(opened.calls, e.i)
  <2>1. Lost(FailMessages(s, "failed"), CMFields, "messages")
    BY FailMessagesLost DEF CMCalm, Calm
  <2> QED BY <1>2, <2>1 DEF AddCall
<1>3. CASE e.p # <<>> /\ Known(opened.calls, e.i)
  <2> HIDE DEF opened, n
  <2> DEFINE calls == [opened.calls EXCEPT ![n] = [@ EXCEPT !.p = p]]
  <2>1. IsSeq(calls)
    <3> HIDE DEF p
    <3> QED BY <1>1, SeqExcept DEF CMCalm
  <2> HIDE DEF p
  <2>2. [opened EXCEPT !.calls[n].p = p] = [opened EXCEPT !.calls = calls]
    OBVIOUS
  <2> HIDE DEF calls
  <2>3. CMCalm([opened EXCEPT !.calls = calls], seen)
    BY <1>1, <2>1 DEF CMCalm, Calm, CMFields
  <2>4. AddCall(s, e) = [opened EXCEPT !.calls[n].p = p]
    BY <1>3, Zenon DEF AddCall, opened, n, p
  <2> QED BY <2>2, <2>3, <2>4
<1>4. CASE e.p = <<>>
  <2>1. AddCall(s, e) = opened
    BY <1>4, Zenon DEF AddCall
  <2> QED BY <1>1, <2>1
<1> QED BY <1>2, <1>3, <1>4

LEMMA CMCloseMessage ==
    ASSUME NEW s, NEW seen, CMCalm(s, seen)
    PROVE  LET t == CloseMessage(s) IN Won(t, CMFields, "messages") \/ Lost(t, CMFields, "messages")
<1> DEFINE reason == ResolveFinish(s.finish, s.count)
           closed == IF s.seen THEN s ELSE CloseBlocks(s)
           delta == Final("message_delta", FromOpenAIFinish(reason), s.u)
           stop == Plain("message_stop")
<1>1. CMCalm(closed, seen)
  BY CMCloseBlocks
<1>2. delta.t \in Quiet("messages")
  BY FinalType, QuietMessages
<1>3. stop.t \in Ending("messages")
  BY PlainType DEF Ending
<1> HIDE DEF closed, delta, stop
<1>4. Calm(Emit(closed, delta), CMFields, "messages")
  BY <1>1, <1>2, CMEmit DEF CMCalm
<1>5. Won(Over(Emit(Emit(closed, delta), stop), "ok"), CMFields, "messages")
  BY <1>3, <1>4, CalmWins
<1>6. Lost(FailMessages(s, "failed"), CMFields, "messages")
  BY FailMessagesLost DEF CMCalm, Calm
<1>7. CloseMessage(s) = FailMessages(s, "failed") \/ CloseMessage(s) = Over(Emit(Emit(closed, delta), stop), "ok")
  BY Zenon DEF CloseMessage, closed, delta, stop
<1> QED BY <1>5, <1>6, <1>7, Zenon

\* A leg after an event: it goes on, or it told the end or a failure.
Told(s, fields, protocol) == Calm(s, fields, protocol) \/ Won(s, fields, protocol) \/ Lost(s, fields, protocol)

ChatEvents == {"[DONE]", "eof", "broken", "error", "usage", "role", "text", "call", "finish"}

LEMMA CMStep ==
    ASSUME NEW s, DOMAIN s = CMFields, IsSeq(s.calls), s.end = "", s.out = <<>>, NEW e, e.t \in ChatEvents
    PROVE  LET t == ChatToMessages(s, e)
           IN /\ Told(t, CMFields, "messages")
              /\ t.end = "" => /\ IsSeq(t.calls) /\ e.t \notin {"[DONE]", "eof", "broken", "error"}
                               /\ t.seen => s.seen \/ e.t = "finish"
                               /\ e.t = "usage" => t.started = s.started
              /\ t.end = "ok" => (e.t = "[DONE]" /\ s.started) \/ (e.t = "eof" /\ s.seen)
<1> DEFINE t == ChatToMessages(s, e)
<1>1. CMCalm(s, s.seen)
  BY StreamEmpty DEF CMCalm, Calm, CMFields
<1>2. ASSUME NEW how \in {"cut", "failed"}
      PROVE  Lost(FailMessages(s, how), CMFields, "messages") /\ FailMessages(s, how).end \notin {"", "ok"}
  BY FailMessagesLost DEF Lost, CMFields
<1>3. Told(CloseMessage(s), CMFields, "messages") /\ CloseMessage(s).end # ""
  BY <1>1, CMCloseMessage DEF Told, Won, Lost
<1>4. CASE e.t = "[DONE]"
  <2>1. t = IF s.started THEN CloseMessage(s) ELSE FailMessages(s, "cut")
    BY <1>4 DEF ChatToMessages
  <2> HIDE DEF t
  <2> QED BY <1>2, <1>3, <1>4, <2>1 DEF Told, t
<1>5. CASE e.t = "eof"
  <2>1. t = IF s.seen THEN CloseMessage(s) ELSE FailMessages(s, "cut")
    BY <1>5 DEF ChatToMessages
  <2> HIDE DEF t
  <2> QED BY <1>2, <1>3, <1>5, <2>1 DEF Told, t
<1>6. CASE e.t \in {"broken", "error"}
  <2>1. t = FailMessages(s, "failed")
    BY <1>6 DEF ChatToMessages
  <2> HIDE DEF t
  <2> QED BY <1>2, <1>6, <2>1 DEF Told, t
<1>7. CASE e.t = "usage"
  <2>1. t = Counted(s, e)
    BY <1>7 DEF ChatToMessages
  <2>2. CMCalm(t, s.seen) /\ t.started = s.started
    BY <1>1, <2>1 DEF Counted, CMCalm, Calm, CMFields
  <2> HIDE DEF t
  <2> QED BY <1>7, <2>2 DEF Told, CMCalm, Calm, t
<1>8. CASE e.t \in {"role", "text"}
  <2>1. CMCalm(Started(s), s.seen)
    BY <1>1, CMStarted
  <2>2. t = Started(s) \/ t = AddText(Started(s), e.k, e.p)
    BY <1>8 DEF ChatToMessages
  <2>3. CMCalm(t, s.seen)
    BY <2>1, <2>2, CMAddText
  <2> HIDE DEF t
  <2> QED BY <1>8, <2>3 DEF Told, CMCalm, Calm, t
<1>9. CASE e.t = "call"
  <2>1. CMCalm(Started(s), s.seen)
    BY <1>1, CMStarted
  <2>2. t = AddCall(Started(s), e)
    BY <1>9 DEF ChatToMessages
  <2>3. CMCalm(t, s.seen) \/ Lost(t, CMFields, "messages")
    BY <2>1, <2>2, CMAddCall
  <2> HIDE DEF t
  <2> QED BY <1>9, <2>3 DEF Told, CMCalm, Calm, Lost, t
<1>10. CASE e.t = "finish"
  <2> DEFINE closed == CloseBlocks(Started(Counted(s, e)))
  <2>1. CMCalm(Counted(s, e), s.seen)
    BY <1>1 DEF Counted, CMCalm, Calm, CMFields
  <2>2. CMCalm(closed, s.seen)
    BY <2>1, CMStarted, CMCloseBlocks
  <2> HIDE DEF closed
  <2>3. CMCalm([closed EXCEPT !.finish = e.k, !.seen = TRUE], TRUE)
    BY <2>2 DEF CMCalm, Calm, CMFields
  <2>4. t = [closed EXCEPT !.finish = e.k, !.seen = TRUE]
    BY <1>10 DEF ChatToMessages, closed
  <2>5. CMCalm(t, TRUE)
    BY <2>3, <2>4
  <2> HIDE DEF t
  <2> QED BY <1>10, <2>5 DEF Told, CMCalm, Calm, t
<1> QED BY <1>4, <1>5, <1>6, <1>7, <1>8, <1>9, <1>10 DEF ChatEvents

-----------------------------------------------------------------------------
(* ChatToResponses *)
LEMMA SeqSame == ASSUME NEW x, IsSeq(x), NEW y, y = [n \in DOMAIN x |-> y[n]] PROVE IsSeq(y)
<1>1. Len(x) \in Nat /\ DOMAIN x = 1 .. Len(x)
  BY SeqDomain
<1>2. y \in [1 .. Len(x) -> {y[n] : n \in 1 .. Len(x)}]
  BY <1>1
<1>3. y \in Seq({y[n] : n \in 1 .. Len(x)})
  BY <1>1, <1>2
<1> QED BY <1>3 DEF IsSeq

CRFields == {"started", "finish", "items", "u", "out", "end"}
CRCalm(s) == Calm(s, CRFields, "responses") /\ IsSeq(s.items)

LEMMA CREmit ==
    ASSUME NEW s, CRCalm(s), NEW e, e.t \in Quiet("responses")
    PROVE  CRCalm(Emit(s, e)) /\ Emit(s, e).items = s.items
BY CalmEmit DEF CRCalm, CRFields

LEMMA FailResponsesLost ==
    ASSUME NEW s, NEW fields, Calm(s, fields, "responses"), NEW how \in {"cut", "failed"}
    PROVE  Lost(FailResponses(s, how), fields, "responses")
<1> DEFINE t == FailResponses(s, how)
           e == Plain("response.failed")
<1>1. Stream(s.out, Quiet("responses"))
  BY DEF Calm
<1>2. e.t = FailsWith("responses")
  BY PlainType DEF FailsWith
<1> HIDE DEF e
<1>3. DOMAIN t = fields /\ t.end = how /\ t.out = Append(s.out, e)
  BY DEF FailResponses, Over, Emit, Calm, e
<1> HIDE DEF t
<1>4. FailedOut(t.out, "responses")
  BY <1>1, <1>2, <1>3 DEF FailedOut
<1>5. Lost(t, fields, "responses")
  BY <1>3, <1>4 DEF Lost
<1> QED BY <1>5 DEF t

LEMMA CRCreated == ASSUME NEW s, CRCalm(s) PROVE CRCalm(Created(s))
<1> DEFINE e == Plain("response.created")
<1>0. e.t \in Quiet("responses")
  BY PlainType, QuietResponses
<1> HIDE DEF e
<1>1. CRCalm(Emit(s, e))
  BY <1>0, CREmit
<1>2. CRCalm([Emit(s, e) EXCEPT !.started = TRUE])
  BY <1>1 DEF CRCalm, Calm, CRFields
<1> QED BY <1>2 DEF Created, e

LEMMA CREnsure == ASSUME NEW s, CRCalm(s), NEW key, NEW kind PROVE CRCalm(Ensure(s, key, kind))
<1> DEFINE item == [key |-> key, kind |-> kind, ids |-> 0, named |-> FALSE, p |-> <<>>, announced |-> FALSE, sent |-> 0]
<1> HIDE DEF item
<1>1. IsSeq(Append(s.items, item))
  BY SeqAppend DEF CRCalm
<1>2. CRCalm([s EXCEPT !.items = Append(@, item)])
  BY <1>1 DEF CRCalm, Calm, CRFields
<1> QED BY <1>2 DEF Ensure, item

LEMMA CRItems ==
    ASSUME NEW s, CRCalm(s), NEW items, items = [n \in DOMAIN s.items |-> items[n]]
    PROVE  CRCalm([s EXCEPT !.items = items])
<1>1. IsSeq(items)
  BY SeqSame DEF CRCalm
<1> QED BY <1>1 DEF CRCalm, Calm, CRFields

LEMMA CRAnnounceItem == ASSUME NEW s, CRCalm(s), NEW n PROVE CRCalm(AnnounceItem(s, n))
<1> DEFINE e == Piece("response.output_item.added", n, s.items[n].kind, <<>>)
           t == Emit(s, e)
           items == [t.items EXCEPT ![n].announced = TRUE]
<1>0. e.t \in Quiet("responses")
  <2>1. e.t = "response.output_item.added"
    BY PieceType
  <2> QED BY <2>1, QuietResponses
<1> HIDE DEF e
<1>1. CRCalm(t)
  BY <1>0, CREmit
<1> HIDE DEF t
<1>2. items = [m \in DOMAIN t.items |-> items[m]]
  OBVIOUS
<1> HIDE DEF items
<1>3. CRCalm([t EXCEPT !.items = items])
  BY <1>1, <1>2, CRItems
<1>4. [t EXCEPT !.items[n].announced = TRUE] = [t EXCEPT !.items = items]
  BY DEF items
<1> QED BY <1>3, <1>4 DEF AnnounceItem, t, e

LEMMA CRItemText == ASSUME NEW s, CRCalm(s), NEW e PROVE CRCalm(ItemText(s, e))
<1> DEFINE key == <<e.k, 0>>
           ensured == Ensure(s, key, e.k)
           n == Item(ensured, key)
           d == Piece("delta", n, e.k, e.p)
           shown == AnnounceItem(ensured, n)
           t == Emit(shown, d)
           p == t.items[n].p \o e.p
           items == [t.items EXCEPT ![n] = [@ EXCEPT !.p = p]]
<1>1. d.t \in Quiet("responses")
  <2>1. d.t = "delta"
    BY PieceType
  <2> QED BY <2>1, QuietResponses
<1>2. CRCalm(shown)
  <2>1. CRCalm(ensured)
    BY CREnsure
  <2> HIDE DEF ensured, n
  <2> QED BY <2>1, CRAnnounceItem
<1> HIDE DEF shown, d, n
<1>3. CRCalm(t)
  BY <1>1, <1>2, CREmit
<1> HIDE DEF t, p
<1>4. items = [m \in DOMAIN t.items |-> items[m]]
  OBVIOUS
<1> HIDE DEF items
<1>5. CRCalm([t EXCEPT !.items = items])
  BY <1>3, <1>4, CRItems
<1>6. [t EXCEPT !.items[n].p = p] = [t EXCEPT !.items = items]
  BY DEF items
<1>7. ItemText(s, e) = IF e.p = <<>> THEN s ELSE [t EXCEPT !.items[n].p = p]
  BY Zenon DEF ItemText, t, d, shown, n, p
<1> QED BY <1>5, <1>6, <1>7

LEMMA CRWithCall == ASSUME NEW s, CRCalm(s), NEW n, NEW e PROVE CRCalm(WithCall(s, n, e))
<1> DEFINE t == WithCall(s, n, e)
<1>1. DOMAIN t = CRFields /\ t.end = "" /\ t.out = s.out
  BY DEF WithCall, CRCalm, Calm, CRFields
<1>2. t.items = [m \in DOMAIN s.items |-> t.items[m]]
  BY DEF WithCall, CRCalm, Calm, CRFields
<1>3. IsSeq(t.items)
  <2> HIDE DEF t
  <2> QED BY <1>2, SeqSame DEF CRCalm
<1> HIDE DEF t
<1>4. CRCalm(t)
  BY <1>1, <1>3 DEF CRCalm, Calm
<1> QED BY <1>4 DEF t

LEMMA CRItemCall == ASSUME NEW s, CRCalm(s), NEW e PROVE CRCalm(ItemCall(s, e))
<1> DEFINE key == <<"call", e.i>>
           ensured == Ensure(s, key, "function")
           n == Item(ensured, key)
           given == WithCall(ensured, n, e)
           item == given.items[n]
           shown == IF item.named /\ item.ids > 0 /\ e.p # <<>> THEN AnnounceItem(given, n) ELSE given
           d == Piece("delta", n, "function", Unsent(item))
           t == Emit(shown, d)
           len == Len(item.p)
           items == [t.items EXCEPT ![n] = [@ EXCEPT !.sent = len]]
<1>1. d.t \in Quiet("responses")
  <2>1. d.t = "delta"
    BY PieceType
  <2> QED BY <2>1, QuietResponses
<1>2. CRCalm(given)
  <2>1. CRCalm(ensured)
    BY CREnsure
  <2> HIDE DEF ensured, n
  <2> QED BY <2>1, CRWithCall
<1> HIDE DEF given, n, d
<1>3. CRCalm(shown)
  BY <1>2, CRAnnounceItem
<1> HIDE DEF shown, item, len
<1>4. CRCalm(t)
  BY <1>1, <1>3, CREmit
<1> HIDE DEF t
<1>5. items = [m \in DOMAIN t.items |-> items[m]]
  OBVIOUS
<1> HIDE DEF items
<1>6. CRCalm([t EXCEPT !.items = items])
  BY <1>4, <1>5, CRItems
<1>7. [t EXCEPT !.items[n].sent = len] = [t EXCEPT !.items = items]
  BY DEF items
<1>8. ItemCall(s, e) = [t EXCEPT !.items[n].sent = len] \/ ItemCall(s, e) = shown
  BY Zenon DEF ItemCall, t, d, shown, item, len, given, n
<1> QED BY <1>3, <1>6, <1>7, <1>8

LEMMA CRCloseItem ==
    ASSUME NEW s, NEW n, CRCalm(s) \/ Lost(s, CRFields, "responses")
    PROVE  CRCalm(CloseItem(s, n)) \/ Lost(CloseItem(s, n), CRFields, "responses")
<1> DEFINE item == s.items[n]
           value == IF item.kind = "function" /\ item.p = <<>> THEN NoArguments ELSE item.p
           shown == AnnounceItem(s, n)
           delta == Piece("delta", n, "custom", value)
           input == IF item.kind = "custom" THEN Emit(shown, delta) ELSE shown
           done == Piece("response.output_item.done", n, item.kind, value)
           t == Emit(input, done)
           items == [t.items EXCEPT ![n] = [@ EXCEPT !.p = value]]
<1>1. CASE s.end # ""
  <2>1. CloseItem(s, n) = s
    BY <1>1, Zenon DEF CloseItem
  <2> QED BY <2>1
<1>2. CASE s.end = ""
  <2>1. CRCalm(s)
    BY <1>2 DEF Lost
  <2>2. delta.t \in Quiet("responses")
    <3>1. delta.t = "delta"
      BY PieceType
    <3> QED BY <3>1, QuietResponses
  <2>3. done.t \in Quiet("responses")
    <3>1. done.t = "response.output_item.done"
      BY PieceType
    <3> QED BY <3>1, QuietResponses
  <2>4. Lost(FailResponses(s, "failed"), CRFields, "responses")
    BY <2>1, FailResponsesLost DEF CRCalm
  <2>5. CRCalm(shown)
    BY <2>1, CRAnnounceItem
  <2> HIDE DEF delta, done, shown, value
  <2>6. CRCalm(Emit(shown, delta))
    BY <2>2, <2>5, CREmit
  <2>7. CRCalm(input)
    BY <2>5, <2>6
  <2> HIDE DEF input
  <2>8. CRCalm(t)
    BY <2>3, <2>7, CREmit
  <2> HIDE DEF t
  <2>9. items = [m \in DOMAIN t.items |-> items[m]]
    OBVIOUS
  <2> HIDE DEF items
  <2>10. CRCalm([t EXCEPT !.items = items])
    BY <2>8, <2>9, CRItems
  <2>11. [t EXCEPT !.items[n].p = value] = [t EXCEPT !.items = items]
    BY DEF items
  <2>12. CloseItem(s, n) = FailResponses(s, "failed") \/ CloseItem(s, n) = [t EXCEPT !.items[n].p = value]
    BY <1>2, Zenon DEF CloseItem, t, input, delta, done, shown, value
  <2> QED BY <2>4, <2>10, <2>11, <2>12
<1> QED BY <1>1, <1>2

LEMMA CRCompleteResponse ==
    ASSUME NEW s, CRCalm(s)
    PROVE  LET t == CompleteResponse(s) IN Won(t, CRFields, "responses") \/ Lost(t, CRFields, "responses")
<1> DEFINE seq == [n \in DOMAIN s.items |-> n]
           closed == AllCloseItem(s, seq)
           type == IF s.finish \in {"length", "content_filter"} THEN "response.incomplete" ELSE "response.completed"
           output == [n \in DOMAIN s.items |-> [i |-> n, k |-> closed.items[n].kind, p |-> closed.items[n].p]]
           e == [Final(type, s.finish, s.u) EXCEPT !.output = output]
<1>1. IsSeq(seq) /\ Len(seq) \in Nat
  <2>1. IsSeq(seq)
    BY SeqSame DEF CRCalm
  <2> HIDE DEF seq
  <2> QED BY <2>1, SeqDomain
<1> HIDE DEF seq, closed
<1>2. PICK g : Path("CloseItem", s, seq, closed, g)
  BY <1>1, FoldCloseItem DEF closed
<1> DEFINE P == {n \in 0 .. Len(seq) : CRCalm(g[n]) \/ Lost(g[n], CRFields, "responses")}
<1>3. 0 \in P
  BY <1>1, <1>2 DEF Path
<1>4. \A n \in 1 .. Len(seq) : n - 1 \in P => n \in P
  <2> SUFFICES ASSUME NEW n \in 1 .. Len(seq), CRCalm(g[n - 1]) \/ Lost(g[n - 1], CRFields, "responses")
               PROVE  CRCalm(g[n]) \/ Lost(g[n], CRFields, "responses")
    OBVIOUS
  <2>1. g[n] = CloseItem(g[n - 1], seq[n])
    BY <1>2 DEF Path, FoldStep
  <2> QED BY <2>1, CRCloseItem
<1>5. Len(seq) \in P
  <2> HIDE DEF P
  <2> QED BY <1>1, <1>3, <1>4, Along
<1>6. CRCalm(closed) \/ Lost(closed, CRFields, "responses")
  BY <1>2, <1>5 DEF Path
<1>7. e.t \in Ending("responses")
  <2>1. e.t = type
    <3> HIDE DEF type, output
    <3> QED BY DEF Final, Plain
  <2> HIDE DEF e
  <2> QED BY <2>1 DEF Ending
<1> HIDE DEF e
<1>8. CASE closed.end # ""
  <2>1. CompleteResponse(s) = closed
    BY <1>8, Zenon DEF CompleteResponse, AllCloseItem, closed, seq
  <2> QED BY <1>6, <1>8, <2>1 DEF CRCalm, Calm
<1>9. CASE closed.end = ""
  <2>1. CompleteResponse(s) = Over(Emit(closed, e), "ok")
    BY <1>9, Zenon DEF CompleteResponse, AllCloseItem, closed, seq, e
  <2>2. Calm(closed, CRFields, "responses")
    BY <1>6, <1>9 DEF CRCalm, Lost
  <2> QED BY <1>7, <2>1, <2>2, CalmWins
<1> QED BY <1>8, <1>9

LEMMA CRStep ==
    ASSUME NEW s, DOMAIN s = CRFields, IsSeq(s.items), s.end = "", s.out = <<>>, NEW e, e.t \in ChatEvents
    PROVE  LET t == ChatToResponses(s, e)
           IN /\ Told(t, CRFields, "responses")
              /\ t.end = "" => /\ IsSeq(t.items) /\ e.t \notin {"[DONE]", "eof", "broken", "error"}
                               /\ e.t = "usage" => t.started = s.started
              /\ t.end = "ok" => e.t = "[DONE]" /\ s.started
<1> DEFINE t == ChatToResponses(s, e)
<1>1. CRCalm(s)
  BY StreamEmpty DEF CRCalm, Calm, CRFields
<1>2. ASSUME NEW how \in {"cut", "failed"}
      PROVE  Lost(FailResponses(s, how), CRFields, "responses") /\ FailResponses(s, how).end \notin {"", "ok"}
  BY <1>1, FailResponsesLost DEF Lost, CRCalm
<1>3. Told(CompleteResponse(s), CRFields, "responses") /\ CompleteResponse(s).end # ""
  BY <1>1, CRCompleteResponse DEF Told, Won, Lost
<1>4. CASE e.t = "[DONE]"
  <2>1. t = IF s.started /\ s.finish # "" THEN CompleteResponse(s) ELSE FailResponses(s, "cut")
    BY <1>4 DEF ChatToResponses
  <2> HIDE DEF t
  <2> QED BY <1>2, <1>3, <1>4, <2>1 DEF Told, t
<1>5. CASE e.t \in {"eof", "broken", "error"}
  <2>1. t = FailResponses(s, "cut") \/ t = FailResponses(s, "failed")
    BY <1>5 DEF ChatToResponses
  <2> HIDE DEF t
  <2> QED BY <1>2, <1>5, <2>1 DEF Told, t
<1>6. CASE e.t = "usage"
  <2>1. t = Counted(s, e)
    BY <1>6 DEF ChatToResponses
  <2>2. CRCalm(t) /\ t.started = s.started
    BY <1>1, <2>1 DEF Counted, CRCalm, Calm, CRFields
  <2> HIDE DEF t
  <2> QED BY <1>6, <2>2 DEF Told, CRCalm, Calm, t
<1>7. CASE e.t \in {"role", "text", "call"}
  <2>1. CRCalm(Created(s))
    BY <1>1, CRCreated
  <2>2. t = Created(s) \/ t = ItemText(Created(s), e) \/ t = ItemCall(Created(s), e)
    BY <1>7 DEF ChatToResponses
  <2>3. CRCalm(t)
    BY <2>1, <2>2, CRItemText, CRItemCall
  <2> HIDE DEF t
  <2> QED BY <1>7, <2>3 DEF Told, CRCalm, Calm, t
<1>8. CASE e.t = "finish"
  <2> DEFINE created == Created(Counted(s, e))
  <2>1. CRCalm(Counted(s, e))
    BY <1>1 DEF Counted, CRCalm, Calm, CRFields
  <2>2. CRCalm(created)
    BY <2>1, CRCreated
  <2> HIDE DEF created
  <2>3. CRCalm([created EXCEPT !.finish = e.k])
    BY <2>2 DEF CRCalm, Calm, CRFields
  <2>4. t = [created EXCEPT !.finish = e.k]
    BY <1>8 DEF ChatToResponses, created
  <2>5. CRCalm(t)
    BY <2>3, <2>4
  <2> HIDE DEF t
  <2> QED BY <1>8, <2>5 DEF Told, CRCalm, Calm, t
<1> QED BY <1>4, <1>5, <1>6, <1>7, <1>8 DEF ChatEvents

-----------------------------------------------------------------------------
(* The legs that tell Chat *)
LEMMA CalmPiece ==
    ASSUME NEW s, NEW fields, Calm(s, fields, "chat"), NEW t \in {"text", "call"}, NEW i, NEW k, NEW p
    PROVE  Calm(Emit(s, Piece(t, i, k, p)), fields, "chat")
<1> DEFINE e == Piece(t, i, k, p)
<1>1. e.t = t
  BY PieceType
<1>2. e.t \in Quiet("chat")
  BY <1>1, QuietChat
<1> HIDE DEF e
<1>3. Calm(Emit(s, e), fields, "chat")
  BY <1>2, CalmEmit
<1> QED BY <1>3 DEF e

LEMMA CalmPlain ==
    ASSUME NEW s, NEW fields, Calm(s, fields, "chat")
    PROVE  Calm(Emit(s, Plain("role")), fields, "chat")
<1>1. Plain("role").t \in Quiet("chat")
  BY PlainType, QuietChat
<1> QED BY <1>1, CalmEmit

LEMMA CalmFinish ==
    ASSUME NEW s, NEW fields, Calm(s, fields, "chat"), NEW k, NEW u
    PROVE  Calm(Emit(s, Final("finish", k, u)), fields, "chat")
<1>1. Final("finish", k, u).t = "finish"
  BY FinalType
<1>2. Final("finish", k, u).t \in Quiet("chat")
  BY <1>1, QuietChat
<1> QED BY <1>2, CalmEmit

LEMMA FailChatLost ==
    ASSUME NEW s, NEW fields, Calm(s, fields, "chat"), NEW how \in {"cut", "failed"}
    PROVE  Lost(FailChat(s, how), fields, "chat") /\ FailChat(s, how).end \notin {"", "ok"}
<1> DEFINE t == FailChat(s, how)
           e == Plain("error")
           d == Plain("[DONE]")
<1>1. Stream(s.out, Quiet("chat"))
  BY DEF Calm
<1>2. e.t = FailsWith("chat")
  BY PlainType DEF FailsWith
<1>3. d.t = "[DONE]"
  BY PlainType
<1> HIDE DEF e, d
<1>4. DOMAIN t = fields /\ t.end = how /\ t.out = Append(Append(s.out, e), d)
  BY DEF FailChat, Over, Emit, Calm, e, d
<1> HIDE DEF t
<1>5. FailedOut(t.out, "chat")
  BY <1>1, <1>2, <1>3, <1>4 DEF FailedOut
<1>6. Lost(t, fields, "chat") /\ t.end \notin {"", "ok"}
  BY <1>4, <1>5 DEF Lost
<1> QED BY <1>6 DEF t

LEMMA DoneWon ==
    ASSUME NEW s, NEW fields, Calm(s, fields, "chat")
    PROVE  Won(Over(Emit(s, Plain("[DONE]")), "ok"), fields, "chat")
<1>1. Plain("[DONE]").t \in Ending("chat")
  BY PlainType DEF Ending
<1> QED BY <1>1, CalmWins

LEMMA FinishedWon ==
    ASSUME NEW s, NEW fields, Calm(s, fields, "chat"), NEW reason, NEW u
    PROVE  Won(Finished(s, reason, u), fields, "chat")
BY CalmFinish, DoneWon DEF Finished

\* What becomes of a leg that tells Chat: it ends well only where it may.
ToChat(t, fields, may) == Told(t, fields, "chat") /\ (t.end = "ok" => may)

LEMMA ToChatCalm == ASSUME NEW t, NEW fields, NEW may, Calm(t, fields, "chat") PROVE ToChat(t, fields, may)
BY DEF ToChat, Told, Calm

LEMMA ToChatFails ==
    ASSUME NEW s, NEW fields, NEW may, Calm(s, fields, "chat"), NEW how \in {"cut", "failed"}
    PROVE  ToChat(FailChat(s, how), fields, may)
BY FailChatLost DEF ToChat, Told

-----------------------------------------------------------------------------
(* MessagesToChat *)
MCFields == {"server", "calls", "sentFinish", "u", "out", "end"}
MessagesEvents == {"message_start", "content_block_start", "content_block_delta", "content_block_stop",
                   "message_delta", "message_stop", "error", "broken", "eof"}

LEMMA MCGiveCall ==
    ASSUME NEW s, Calm(s, MCFields, "chat"), NEW i, NEW p
    PROVE  Calm(GiveCall(s, i, p), MCFields, "chat")
<1> DEFINE n == CallAt(s.calls, i)
           t == Emit(s, Piece("call", n - 1, "", p))
<1>1. Calm(t, MCFields, "chat")
  BY CalmPiece
<1> HIDE DEF t, n
<1>2. Calm([t EXCEPT !.calls[n].given = TRUE], MCFields, "chat")
  BY <1>1 DEF Calm, MCFields
<1> QED BY <1>2 DEF GiveCall, t, n

LEMMA MCOpenBlock ==
    ASSUME NEW s, Calm(s, MCFields, "chat"), NEW e
    PROVE  Calm(OpenBlock(s, e), MCFields, "chat")
<1> DEFINE t == Emit(s, Piece("call", Len(s.calls), e.k, <<>>))
<1>1. Calm([s EXCEPT !.server = e.i], MCFields, "chat")
  BY DEF Calm, MCFields
<1>2. Calm(t, MCFields, "chat")
  BY CalmPiece
<1> HIDE DEF t
<1>3. Calm([t EXCEPT !.calls = Append(@, [i |-> e.i, given |-> FALSE])], MCFields, "chat")
  BY <1>2 DEF Calm, MCFields
<1>4. \/ OpenBlock(s, e) = [s EXCEPT !.server = e.i]
      \/ OpenBlock(s, e) = [t EXCEPT !.calls = Append(@, [i |-> e.i, given |-> FALSE])]
      \/ OpenBlock(s, e) = s
  <2>1. ~(e.k = "server" /\ e.k \in CallKinds)
    BY DEF CallKinds
  <2> QED BY <2>1, Zenon DEF OpenBlock, t
<1> QED BY <1>1, <1>3, <1>4

LEMMA MCMessageDelta ==
    ASSUME NEW s, Calm(s, MCFields, "chat"), NEW e, NEW may
    PROVE  ToChat(MessageDelta(s, e), MCFields, may)
<1> DEFINE finish == ResolveFinish(ToOpenAIFinish(e.k), Len(s.calls))
           noted == IF e.k = "refusal" /\ e.p # <<>> THEN Emit(s, Piece("text", 0, "text", e.p)) ELSE s
           t == Emit(noted, Final("finish", finish, s.u))
<1>1. Calm(noted, MCFields, "chat")
  BY CalmPiece
<1> HIDE DEF noted, finish
<1>2. Calm(t, MCFields, "chat")
  BY <1>1, CalmFinish
<1> HIDE DEF t
<1>3. Calm([t EXCEPT !.sentFinish = TRUE], MCFields, "chat")
  BY <1>2 DEF Calm, MCFields
<1>4. \/ MessageDelta(s, e) = s
      \/ MessageDelta(s, e) = FailChat(s, "failed")
      \/ MessageDelta(s, e) = [t EXCEPT !.sentFinish = TRUE]
  BY Zenon DEF MessageDelta, t, noted, finish
<1> QED BY <1>3, <1>4, ToChatCalm, ToChatFails

LEMMA MCMessageStop ==
    ASSUME NEW s, Calm(s, MCFields, "chat")
    PROVE  Won(MessageStop(s), MCFields, "chat")
<1> DEFINE told == IF s.sentFinish THEN s ELSE Emit(s, Final("finish", ResolveFinish("", Len(s.calls)), s.u))
<1>1. Calm(told, MCFields, "chat")
  BY CalmFinish
<1> QED BY <1>1, DoneWon DEF MessageStop

LEMMA MCStep ==
    ASSUME NEW s, DOMAIN s = MCFields, s.end = "", s.out = <<>>, NEW e, e.t \in MessagesEvents
    PROVE  ToChat(MessagesToChat(s, e), MCFields, e.t = "message_stop")
<1> DEFINE t == MessagesToChat(s, e)
           may == e.t = "message_stop"
<1>1. Calm(s, MCFields, "chat") /\ Calm(Counted(s, e), MCFields, "chat")
  BY StreamEmpty DEF Calm, MCFields, Counted
<1>2. CASE e.t = "message_start"
  <2>1. t = Emit(Counted(s, e), Plain("role"))
    BY <1>2 DEF MessagesToChat
  <2>2. Calm(t, MCFields, "chat")
    BY <1>1, <2>1, CalmPlain
  <2> QED BY <2>2, ToChatCalm
<1>3. CASE e.t = "content_block_start"
  <2>1. t = OpenBlock(s, e)
    BY <1>3 DEF MessagesToChat
  <2> QED BY <1>1, <2>1, MCOpenBlock, ToChatCalm
<1>4. CASE e.t \in {"content_block_delta", "content_block_stop"}
  <2>1. t = BlockDelta(s, e) \/ t = BlockStop(s, e)
    BY <1>4 DEF MessagesToChat
  <2>2. \/ BlockDelta(s, e) = s
        \/ BlockDelta(s, e) = Emit(s, Piece("text", 0, e.k, e.p))
        \/ BlockDelta(s, e) = GiveCall(s, e.i, e.p)
    BY Zenon DEF BlockDelta
  <2>3. \/ BlockStop(s, e) = s
        \/ BlockStop(s, e) = [s EXCEPT !.server = 0]
        \/ BlockStop(s, e) = GiveCall(s, e.i, NoArguments)
    BY Zenon DEF BlockStop
  <2>4. Calm([s EXCEPT !.server = 0], MCFields, "chat")
    BY <1>1 DEF Calm, MCFields
  <2>5. Calm(t, MCFields, "chat")
    BY <1>1, <2>1, <2>2, <2>3, <2>4, CalmPiece, MCGiveCall
  <2> QED BY <2>5, ToChatCalm
<1>5. CASE e.t = "message_delta"
  <2>1. t = MessageDelta(Counted(s, e), e)
    BY <1>5 DEF MessagesToChat
  <2> DEFINE c == Counted(s, e)
  <2> HIDE DEF may, c
  <2>2. Calm(c, MCFields, "chat")
    BY <1>1 DEF c
  <2>3. ToChat(MessageDelta(c, e), MCFields, may)
    BY <2>2, MCMessageDelta
  <2> QED BY <2>1, <2>3 DEF c, may
<1>6. CASE e.t = "message_stop"
  <2>1. t = MessageStop(s)
    BY <1>6 DEF MessagesToChat
  <2> QED BY <1>1, <1>6, <2>1, MCMessageStop DEF ToChat, Told
<1>7. CASE e.t \in {"error", "broken", "eof"}
  <2>1. t = FailChat(s, "failed") \/ t = FailChat(s, "cut")
    BY <1>7 DEF MessagesToChat
  <2> QED BY <1>1, <2>1, ToChatFails
<1> QED BY <1>2, <1>3, <1>4, <1>5, <1>6, <1>7 DEF MessagesEvents

-----------------------------------------------------------------------------
(* ResponsesToChat *)
\* A fold each step of which leaves a calm leg calm does.
LEMMA CalmAlong ==
    ASSUME NEW fold, NEW base, NEW seq, NEW last, NEW g, NEW fields, IsSeq(seq), Path(fold, base, seq, last, g),
           Calm(base, fields, "chat"),
           \A n \in 1 .. Len(seq) : Calm(g[n - 1], fields, "chat") => Calm(FoldStep(fold, g[n - 1], seq[n]), fields, "chat")
    PROVE  Calm(last, fields, "chat")
<1> DEFINE P == {n \in 0 .. Len(seq) : Calm(g[n], fields, "chat")}
<1>0. Len(seq) \in Nat
  BY SeqDomain
<1>1. 0 \in P
  BY <1>0 DEF Path
<1>2. \A n \in 1 .. Len(seq) : n - 1 \in P => n \in P
  BY <1>0 DEF Path
<1>3. Len(seq) \in P
  <2> HIDE DEF P
  <2> QED BY <1>0, <1>1, <1>2, Along
<1> QED BY <1>3 DEF Path

-----------------------------------------------------------------------------
RCFields == {"started", "calls", "seen", "out", "end"}
ResponsesEvents == {"response.created", "response.output_item.added", "delta", "arguments.done",
                    "response.output_item.done", "response.completed", "response.incomplete",
                    "response.failed", "broken", "eof"}

\* Of the legs that keep whether they have told the role.
LEMMA CalmRole ==
    ASSUME NEW s, NEW fields, Calm(s, fields, "chat"), "started" \in fields
    PROVE  Calm(WithRole(s), fields, "chat") /\ \A f \in fields : f \notin {"out", "started"} => WithRole(s)[f] = s[f]
<1> DEFINE t == Emit(s, Plain("role"))
<1>1. Calm(t, fields, "chat")
  BY CalmPlain
<1>2. \A f \in fields : f # "out" => t[f] = s[f]
  BY DEF Calm, Emit
<1> HIDE DEF t
<1>3. Calm([t EXCEPT !.started = TRUE], fields, "chat")
  BY <1>1 DEF Calm
<1>4. WithRole(s) = IF s.started THEN s ELSE [t EXCEPT !.started = TRUE]
  BY DEF WithRole, t
<1> QED BY <1>1, <1>2, <1>3, <1>4 DEF Calm

LEMMA RCShowCall ==
    ASSUME NEW s, Calm(s, RCFields, "chat"), NEW it
    PROVE  Calm(ShowCall(s, it), RCFields, "chat")
<1> DEFINE t == Emit(s, Piece("call", Len(s.calls), it.k, <<>>))
<1>1. Calm(t, RCFields, "chat")
  BY CalmPiece
<1> HIDE DEF t
<1>2. Calm([t EXCEPT !.calls = Append(@, [i |-> it.i, k |-> it.k, input |-> <<>>, given |-> FALSE])], RCFields, "chat")
  BY <1>1 DEF Calm, RCFields
<1> QED BY <1>2 DEF ShowCall, t

LEMMA RCConsumeDone ==
    ASSUME NEW s, Calm(s, RCFields, "chat"), NEW it
    PROVE  Calm(ConsumeDone(s, it), RCFields, "chat")
<1> DEFINE shown == ShowCall(s, it)
           n == CallAt(shown.calls, it.i)
           t == Emit(shown, Piece("call", n - 1, "", Arguments(shown.calls[n], it)))
           r == Emit(s, Piece("text", 0, it.k, it.p))
<1>1. Calm(shown, RCFields, "chat")
  BY RCShowCall
<1> HIDE DEF shown
<1>2. Calm(t, RCFields, "chat")
  BY <1>1, CalmPiece
<1>3. Calm(r, RCFields, "chat")
  BY CalmPiece
<1> HIDE DEF t, r, n
<1>4. Calm([t EXCEPT !.calls[n].given = TRUE], RCFields, "chat")
  BY <1>2 DEF Calm, RCFields
<1>5. Calm([r EXCEPT !.seen = @ \cup {it.i}], RCFields, "chat")
  BY <1>3 DEF Calm, RCFields
<1>6. \/ ConsumeDone(s, it) = shown \/ ConsumeDone(s, it) = s
      \/ ConsumeDone(s, it) = [t EXCEPT !.calls[n].given = TRUE]
      \/ ConsumeDone(s, it) = [r EXCEPT !.seen = @ \cup {it.i}]
  BY Zenon DEF ConsumeDone, DoneCall, DoneText, t, r, n, shown
<1> QED BY <1>1, <1>4, <1>5, <1>6

LEMMA RCItemDelta ==
    ASSUME NEW s, Calm(s, RCFields, "chat"), NEW e, NEW may
    PROVE  ToChat(ItemDelta(s, e), RCFields, may)
<1> DEFINE n == CallAt(s.calls, e.i)
           t == Emit(s, Piece("call", n - 1, "", e.p))
           r == Emit(s, Piece("text", 0, e.k, e.p))
           input == s.calls[n].input \o e.p
<1>1. Calm(t, RCFields, "chat") /\ Calm(r, RCFields, "chat")
  BY CalmPiece
<1> HIDE DEF t, r, n, input
<1>2. Calm([t EXCEPT !.calls[n].given = TRUE], RCFields, "chat")
  BY <1>1 DEF Calm, RCFields
<1>3. Calm([r EXCEPT !.seen = @ \cup {e.i}], RCFields, "chat")
  BY <1>1 DEF Calm, RCFields
<1>4. Calm([s EXCEPT !.calls[n].input = input], RCFields, "chat")
  BY DEF Calm, RCFields
<1>5. ~(e.k \in TextKinds /\ e.k \in CallKinds)
  BY DEF TextKinds, CallKinds
<1>6. e.k = "function" => e.k \in CallKinds
  BY DEF CallKinds
<1>7. \/ ItemDelta(s, e) = [r EXCEPT !.seen = @ \cup {e.i}]
      \/ ItemDelta(s, e) = FailChat(s, "failed")
      \/ ItemDelta(s, e) = [t EXCEPT !.calls[n].given = TRUE]
      \/ ItemDelta(s, e) = [s EXCEPT !.calls[n].input = input]
  BY <1>5, <1>6, Zenon DEF ItemDelta, t, r, n, input
<1> QED BY <1>2, <1>3, <1>4, <1>7, ToChatCalm, ToChatFails

LEMMA RCEndResponse ==
    ASSUME NEW s, Calm(s, RCFields, "chat"), NEW e, IsSeq(e.output)
    PROVE  Won(EndResponse(s, e), RCFields, "chat")
<1> DEFINE told == AllConsumeDone(s, e.output)
           finish == CASE e.k \in {"length", "content_filter"} -> e.k
                       [] e.k \notin {"length", "content_filter"} /\ told.calls # <<>> -> "tool_calls"
                       [] OTHER -> "stop"
           t == Emit(told, Final("finish", finish, e.u))
<1> HIDE DEF told, finish
<1>1. PICK g : Path("ConsumeDone", s, e.output, told, g)
  BY FoldConsumeDone DEF told
<1>2. \A n \in 1 .. Len(e.output) : Calm(g[n - 1], RCFields, "chat") => Calm(FoldStep("ConsumeDone", g[n - 1], e.output[n]), RCFields, "chat")
  BY RCConsumeDone DEF FoldStep
<1>3. Calm(told, RCFields, "chat")
  BY <1>1, <1>2, CalmAlong
<1>4. Calm(t, RCFields, "chat")
  BY <1>3, CalmFinish
<1> HIDE DEF t
<1>5. Won(Over(Emit(t, Plain("[DONE]")), "ok"), RCFields, "chat")
  BY <1>4, DoneWon
<1>6. EndResponse(s, e) = Over(Emit(t, Plain("[DONE]")), "ok")
  BY Zenon DEF EndResponse, AllConsumeDone, t, told, finish
<1> QED BY <1>5, <1>6

LEMMA RCStep ==
    ASSUME NEW s, DOMAIN s = RCFields, s.end = "", s.out = <<>>, NEW e, e.t \in ResponsesEvents, IsSeq(e.output)
    PROVE  ToChat(ResponsesToChat(s, e), RCFields, e.t \in {"response.completed", "response.incomplete"})
<1> DEFINE t == ResponsesToChat(s, e)
           r == WithRole(s)
           may == e.t \in {"response.completed", "response.incomplete"}
<1>1. Calm(s, RCFields, "chat")
  BY StreamEmpty DEF Calm, RCFields
<1>2. Calm(r, RCFields, "chat")
  BY <1>1, CalmRole DEF RCFields
<1> HIDE DEF may, r
<1>3. ASSUME NEW u, Calm(u, RCFields, "chat")
      PROVE  ToChat(FailChat(u, "failed"), RCFields, may) /\ ToChat(FailChat(u, "cut"), RCFields, may)
  BY <1>3, ToChatFails
<1>4. CASE e.t \in {"eof", "broken", "response.failed"}
  <2>1. t \in {FailChat(s, "cut"), FailChat(s, "failed"), FailChat(r, "failed")}
    BY <1>4 DEF ResponsesToChat, r
  <2> HIDE DEF t
  <2>2. ToChat(t, RCFields, may)
    BY <1>1, <1>2, <1>3, <2>1
  <2> QED BY <2>2 DEF t, may
<1>5. CASE e.t \in {"response.created", "response.output_item.added", "response.output_item.done"}
  <2>1. t = r \/ t = ShowCall(r, e) \/ t = ConsumeDone(r, e)
    BY <1>5 DEF ResponsesToChat, r
  <2> HIDE DEF t
  <2>2. Calm(t, RCFields, "chat")
    BY <1>2, <2>1, RCShowCall, RCConsumeDone
  <2>3. ToChat(t, RCFields, may)
    BY <2>2, ToChatCalm
  <2> QED BY <2>3 DEF t, may
<1>6. CASE e.t = "delta"
  <2>1. t = ItemDelta(r, e)
    BY <1>6 DEF ResponsesToChat, r
  <2> HIDE DEF t
  <2>2. ToChat(t, RCFields, may)
    BY <1>2, <2>1, RCItemDelta
  <2> QED BY <2>2 DEF t, may
<1>7. CASE e.t = "arguments.done"
  <2>1. t = ConsumeDone(r, e) \/ t = FailChat(r, "failed")
    BY <1>7 DEF ResponsesToChat, r
  <2> HIDE DEF t
  <2>2. Calm(ConsumeDone(r, e), RCFields, "chat")
    BY <1>2, RCConsumeDone
  <2>3. ToChat(t, RCFields, may)
    BY <1>2, <1>3, <2>1, <2>2, ToChatCalm
  <2> QED BY <2>3 DEF t, may
<1>8. CASE e.t \in {"response.completed", "response.incomplete"}
  <2>1. t = EndResponse(r, e)
    BY <1>8 DEF ResponsesToChat, r
  <2> HIDE DEF t
  <2>2. Won(t, RCFields, "chat")
    BY <1>2, <2>1, RCEndResponse
  <2> QED BY <1>8, <2>2 DEF t, ToChat, Told
<1> QED BY <1>4, <1>5, <1>6, <1>7, <1>8 DEF ResponsesEvents

-----------------------------------------------------------------------------
(* OllamaToChat *)
OCFields == {"calls", "out", "end"}
OllamaEvents == {"text", "call", "done", "error", "broken", "eof"}

\* t differs from s in what was told and in the calls numbered, and in no other field.
SameButCalls(t, s, fields) == \A f \in fields : f \notin {"out", "calls"} => t[f] = s[f]

\* Ollama and Gemini number calls.
LEMMA CalmWholeCall ==
    ASSUME NEW s, NEW fields, Calm(s, fields, "chat"), "calls" \in fields, NEW e
    PROVE  Calm(WholeCall(s, e), fields, "chat") /\ SameButCalls(WholeCall(s, e), s, fields)
<1> DEFINE t == Emit(s, Piece("call", s.calls, "function", OrNothing(e.p)))
<1>1. Calm(t, fields, "chat")
  BY CalmPiece
<1>2. \A f \in fields : f # "out" => t[f] = s[f]
  BY DEF Calm, Emit
<1> HIDE DEF t
<1>3. Calm([t EXCEPT !.calls = @ + 1], fields, "chat")
  BY <1>1 DEF Calm
<1>4. WholeCall(s, e) = [t EXCEPT !.calls = @ + 1]
  BY DEF WholeCall, t
<1> QED BY <1>1, <1>2, <1>3, <1>4 DEF Calm, SameButCalls

LEMMA CalmText ==
    ASSUME NEW s, NEW fields, Calm(s, fields, "chat"), NEW e, e.t = "text"
    PROVE  Calm(Emit(s, e), fields, "chat")
<1>1. e.t \in Quiet("chat")
  BY QuietChat
<1> QED BY <1>1, CalmEmit

LEMMA OCStep ==
    ASSUME NEW s, DOMAIN s = OCFields, s.end = "", s.out = <<>>, NEW e, e.t \in OllamaEvents
    PROVE  ToChat(OllamaToChat(s, e), OCFields, e.t = "done")
<1> DEFINE t == OllamaToChat(s, e)
           may == e.t = "done"
<1>1. Calm(s, OCFields, "chat")
  BY StreamEmpty DEF Calm, OCFields
<1> HIDE DEF may
<1>2. CASE e.t \in {"eof", "broken", "error"}
  <2>1. t = FailChat(s, "cut") \/ t = FailChat(s, "failed")
    BY <1>2 DEF OllamaToChat
  <2> HIDE DEF t
  <2>2. ToChat(t, OCFields, may)
    BY <1>1, <2>1, ToChatFails
  <2> QED BY <2>2 DEF t, may
<1>3. CASE e.t \in {"text", "call"}
  <2>1. t = s \/ (t = Emit(s, e) /\ e.t = "text") \/ t = WholeCall(s, e)
    BY <1>3 DEF OllamaToChat
  <2> HIDE DEF t
  <2>2. Calm(WholeCall(s, e), OCFields, "chat")
    BY <1>1, CalmWholeCall DEF OCFields
  <2>3. Calm(t, OCFields, "chat")
    BY <1>1, <2>1, <2>2, CalmText
  <2>4. ToChat(t, OCFields, may)
    BY <2>3, ToChatCalm
  <2> QED BY <2>4 DEF t, may
<1>4. CASE e.t = "done"
  <2>1. t = Finished(s, OllamaFinish(e.k, s.calls), e.u)
    BY <1>4 DEF OllamaToChat
  <2> HIDE DEF t
  <2>2. Won(t, OCFields, "chat")
    BY <1>1, <2>1, FinishedWon
  <2> QED BY <1>4, <2>2 DEF t, ToChat, Told
<1> QED BY <1>2, <1>3, <1>4 DEF OllamaEvents

-----------------------------------------------------------------------------
(* GeminiToChat *)
GCFields == {"started", "calls", "finish", "u", "out", "end"}
GeminiEvents == {"text", "call", "usage", "finish", "blocked", "part", "error", "broken", "eof"}

LEMMA GCStep ==
    ASSUME NEW s, DOMAIN s = GCFields, s.end = "", s.out = <<>>, NEW e, e.t \in GeminiEvents
    PROVE  LET t == GeminiToChat(s, e)
           IN /\ ToChat(t, GCFields, e.t = "eof" /\ s.finish # "")
              /\ t.end = "" => (t.finish # "" => s.finish # "" \/ e.t = "blocked" \/ (e.t = "finish" /\ e.k \in GeminiAnswers))
<1> DEFINE t == GeminiToChat(s, e)
           may == e.t = "eof" /\ s.finish # ""
           r == WithRole(s)
           found == t.finish # "" => s.finish # "" \/ e.t = "blocked" \/ (e.t = "finish" /\ e.k \in GeminiAnswers)
<1>1. Calm(s, GCFields, "chat")
  BY StreamEmpty DEF Calm, GCFields
<1>2. Calm(r, GCFields, "chat") /\ r.finish = s.finish
  BY <1>1, CalmRole DEF GCFields
<1> HIDE DEF may, r
<1>0. ASSUME Calm(t, GCFields, "chat"), found
      PROVE  ToChat(t, GCFields, may) /\ (t.end = "" => found)
  <2> HIDE DEF t
  <2> QED BY <1>0, ToChatCalm
<1>9. ASSUME NEW how \in {"cut", "failed"}
      PROVE  ToChat(FailChat(s, how), GCFields, may) /\ FailChat(s, how).end # ""
  BY <1>1, <1>9, ToChatFails, FailChatLost
<1>3. CASE e.t = "text"
  <2>1. t = s \/ t = Emit(r, e)
    BY <1>3 DEF GeminiToChat, r
  <2>2. Calm(Emit(r, e), GCFields, "chat") /\ Emit(r, e).finish = s.finish
    BY <1>2, <1>3, CalmText DEF Calm, Emit, GCFields
  <2>3. Calm(t, GCFields, "chat") /\ found
    BY <1>1, <2>1, <2>2
  <2> QED BY <1>0, <2>3 DEF may
<1>4. CASE e.t = "call"
  <2>1. t = WholeCall(r, e)
    BY <1>4 DEF GeminiToChat, r
  <2> DEFINE whole == WholeCall(r, e)
  <2>4. "calls" \in GCFields /\ "finish" \in GCFields
    BY DEF GCFields
  <2>5. Calm(whole, GCFields, "chat") /\ SameButCalls(whole, r, GCFields)
    <3>1. Calm(r, GCFields, "chat") /\ "calls" \in GCFields
      BY <1>2, <2>4
    <3> HIDE DEF t, found
    <3> QED BY <3>1, CalmWholeCall
  <2> HIDE DEF whole
  <2>2. Calm(whole, GCFields, "chat") /\ whole.finish = s.finish
    BY <1>2, <2>4, <2>5 DEF SameButCalls
  <2> USE DEF whole
  <2>3. Calm(t, GCFields, "chat") /\ found
    BY <2>1, <2>2
  <2> QED BY <1>0, <2>3 DEF may
<1>5. CASE e.t = "usage"
  <2>1. t = Counted(s, e)
    BY <1>5 DEF GeminiToChat
  <2>2. Calm(Counted(s, e), GCFields, "chat") /\ Counted(s, e).finish = s.finish
    BY <1>1 DEF Calm, GCFields, Counted
  <2>3. Calm(t, GCFields, "chat") /\ found
    BY <2>1, <2>2
  <2> QED BY <1>0, <2>3 DEF may
<1>6. CASE e.t = "finish" \/ e.t = "blocked"
  <2>1. \/ t = FailChat(s, "failed")
        \/ (e.t = "blocked" \/ e.k \in GeminiAnswers) /\ \E k : t = [s EXCEPT !.finish = k]
    BY <1>6 DEF GeminiToChat
  <2>2. CASE t = FailChat(s, "failed")
    <3> HIDE DEF t
    <3>1. ToChat(t, GCFields, may) /\ t.end # ""
      BY <2>2, <1>9
    <3> QED BY <3>1 DEF may, t
  <2>3. CASE (e.t = "blocked" \/ e.k \in GeminiAnswers) /\ \E k : t = [s EXCEPT !.finish = k]
    <3>1. Calm(t, GCFields, "chat")
      BY <1>1, <2>3 DEF Calm, GCFields
    <3>2. found
      BY <1>6, <2>3
    <3> QED BY <1>0, <3>1, <3>2 DEF may
  <2> QED BY <2>1, <2>2, <2>3
<1>7. CASE e.t \in {"part", "error", "broken"}
  <2>1. t = FailChat(s, "failed")
    BY <1>7 DEF GeminiToChat
  <2> HIDE DEF t
  <2>2. ToChat(t, GCFields, may) /\ t.end # ""
    BY <2>1, <1>9
  <2> QED BY <2>2 DEF may, t
<1>8. CASE e.t = "eof"
  <2>1. t = GeminiEnds(s)
    BY <1>8 DEF GeminiToChat
  <2>2. \/ s.finish = "" /\ GeminiEnds(s) = FailChat(s, "cut")
        \/ s.finish # "" /\ \E reason : GeminiEnds(s) = Finished(r, reason, s.u)
    BY DEF GeminiEnds, r
  <2> HIDE DEF t
  <2>3. CASE s.finish = "" /\ GeminiEnds(s) = FailChat(s, "cut")
    <3>1. ToChat(t, GCFields, may) /\ t.end # ""
      BY <2>1, <2>3, <1>9
    <3> QED BY <3>1 DEF may, t
  <2>4. CASE s.finish # "" /\ \E reason : GeminiEnds(s) = Finished(r, reason, s.u)
    <3>1. Won(t, GCFields, "chat")
      BY <1>2, <2>1, <2>4, FinishedWon
    <3>2. t.end = "ok"
      BY <3>1 DEF Won
    <3> QED BY <1>8, <2>4, <3>1, <3>2 DEF ToChat, Told, t
  <2> QED BY <2>2, <2>3, <2>4
<1> QED BY <1>3, <1>4, <1>5, <1>6, <1>7, <1>8 DEF GeminiEvents

-----------------------------------------------------------------------------
(* CommandToChat *)
DCFields == {"started", "calls", "finish", "u", "out", "end"}
CommandEvents == {"text", "tool-input-start", "tool-input-delta", "tool-call", "finish-step", "finish",
                  "unknown", "error", "broken", "eof"}
DCCalm(s) == Calm(s, DCFields, "chat") /\ IsSeq(s.calls)

LEMMA DCRole == ASSUME NEW s, DCCalm(s) PROVE DCCalm(WithRole(s))
<1>1. Calm(s, DCFields, "chat") /\ "started" \in DCFields /\ "calls" \in DCFields
  BY DEF DCCalm, DCFields
<1>2. Calm(WithRole(s), DCFields, "chat")
  BY <1>1, CalmRole
<1>3. \A f \in DCFields : f \notin {"out", "started"} => WithRole(s)[f] = s[f]
  BY <1>1, CalmRole
<1>4. WithRole(s).calls = s.calls
  BY <1>1, <1>3
<1> QED BY <1>2, <1>4 DEF DCCalm

LEMMA DCPiece ==
    ASSUME NEW s, DCCalm(s), NEW t \in {"text", "call"}, NEW i, NEW k, NEW p
    PROVE  DCCalm(Emit(s, Piece(t, i, k, p)))
<1>1. Calm(Emit(s, Piece(t, i, k, p)), DCFields, "chat")
  BY CalmPiece DEF DCCalm
<1>2. Emit(s, Piece(t, i, k, p)).calls = s.calls
  BY DEF Emit, DCCalm, Calm, DCFields
<1> QED BY <1>1, <1>2 DEF DCCalm

LEMMA DCCalls ==
    ASSUME NEW s, DCCalm(s), NEW calls, IsSeq(calls)
    PROVE  DCCalm([s EXCEPT !.calls = calls])
BY DEF DCCalm, Calm, DCFields

LEMMA DCAlias == ASSUME NEW s, DCCalm(s), NEW ids, NEW n PROVE DCCalm(Alias(s, ids, n))
<1> DEFINE all == s.calls[n].ids \cup {id \in ToSet(ids) : Names(s, id) = {}}
           calls == [s.calls EXCEPT ![n] = [@ EXCEPT !.ids = all]]
<1>1. calls = [m \in DOMAIN s.calls |-> calls[m]]
  OBVIOUS
<1>2. [s EXCEPT !.calls[n].ids = all] = [s EXCEPT !.calls = calls]
  <2> HIDE DEF all
  <2> QED OBVIOUS
<1>3. Alias(s, ids, n) = [s EXCEPT !.calls[n].ids = all]
  BY Zenon DEF Alias
<1> HIDE DEF calls, all
<1>4. IsSeq(calls)
  BY <1>1, SeqSame DEF DCCalm
<1> QED BY <1>2, <1>3, <1>4, DCCalls

LEMMA DCOpenCall == ASSUME NEW s, DCCalm(s), NEW e, NEW p PROVE DCCalm(OpenCall(s, e, p))
<1> DEFINE n == Len(s.calls) + 1
           t == Emit(WithRole(s), Piece("call", n - 1, "function", p))
           call == [ids |-> {}, tool |-> e.k, given |-> p # <<>>, done |-> FALSE]
           opened == [t EXCEPT !.calls = Append(@, call)]
<1>1. DCCalm(WithRole(s))
  BY DCRole
<1>2. DCCalm(t)
  BY <1>1, DCPiece
<1> HIDE DEF t, call
<1>3. IsSeq(Append(t.calls, call))
  BY <1>2, SeqAppend DEF DCCalm
<1>4. DCCalm(opened)
  BY <1>2, <1>3, DCCalls
<1> HIDE DEF opened
<1>5. DCCalm(Alias(opened, e.i, n))
  BY <1>4, DCAlias
<1>6. OpenCall(s, e, p) = Alias(opened, e.i, n)
  BY Zenon DEF OpenCall, opened, t, call
<1> QED BY <1>5, <1>6

\* A field of a call is changed.
LEMMA DCCallField ==
    ASSUME NEW s, DCCalm(s), NEW n
    PROVE  DCCalm([s EXCEPT !.calls[n].given = TRUE]) /\ DCCalm([s EXCEPT !.calls[n].done = TRUE])
<1> DEFINE given == [s.calls EXCEPT ![n] = [@ EXCEPT !.given = TRUE]]
           done == [s.calls EXCEPT ![n] = [@ EXCEPT !.done = TRUE]]
<1>1. given = [m \in DOMAIN s.calls |-> given[m]] /\ done = [m \in DOMAIN s.calls |-> done[m]]
  OBVIOUS
<1>2. /\ [s EXCEPT !.calls[n].given = TRUE] = [s EXCEPT !.calls = given]
      /\ [s EXCEPT !.calls[n].done = TRUE] = [s EXCEPT !.calls = done]
  OBVIOUS
<1> HIDE DEF given, done
<1>3. IsSeq(given)
  BY <1>1, SeqSame DEF DCCalm
<1>4. IsSeq(done)
  BY <1>1, SeqSame DEF DCCalm
<1> QED BY <1>2, <1>3, <1>4, DCCalls

LEMMA DCGiveInput == ASSUME NEW s, DCCalm(s), NEW n, NEW p PROVE DCCalm(GiveInput(s, n, p))
<1> DEFINE t == Emit(WithRole(s), Piece("call", n - 1, "", p))
<1>1. DCCalm(WithRole(s))
  BY DCRole
<1>2. DCCalm(t)
  BY <1>1, DCPiece
<1> HIDE DEF t
<1>3. DCCalm([t EXCEPT !.calls[n].given = TRUE])
  BY <1>2, DCCallField
<1> QED BY <1>3 DEF GiveInput, t

LEMMA DCToldWhole == ASSUME NEW s, DCCalm(s), NEW e PROVE DCCalm(ToldWhole(s, e))
<1> DEFINE n == Meant(s, e)
           aliased == Alias(s, e.i, n)
           known == [aliased EXCEPT !.calls[n].done = TRUE]
           opened == OpenCall(s, e, e.p)
           last == Len(s.calls) + 1
<1>1. DCCalm(aliased) /\ DCCalm(opened)
  BY DCAlias, DCOpenCall
<1> HIDE DEF n, aliased, opened, last
<1>2. DCCalm(known)
  BY <1>1, DCCallField
<1>3. DCCalm([opened EXCEPT !.calls[last].done = TRUE])
  BY <1>1, DCCallField
<1> HIDE DEF known
<1>4. DCCalm(GiveInput(known, n, e.p))
  BY <1>2, DCGiveInput
<1>5. \/ ToldWhole(s, e) = [opened EXCEPT !.calls[last].done = TRUE]
      \/ ToldWhole(s, e) = known \/ ToldWhole(s, e) = GiveInput(known, n, e.p)
  BY Zenon DEF ToldWhole, known, aliased, opened, n, last
<1> QED BY <1>2, <1>3, <1>4, <1>5

LEMMA DCGiveNothing ==
    ASSUME NEW s, DCCalm(s), NEW n
    PROVE  DCCalm(GiveNothing(s, n))
BY DCGiveInput DEF GiveNothing

LEMMA DCCommandEnds ==
    ASSUME NEW s, DCCalm(s), NEW e
    PROVE  Won(CommandEnds(s, e), DCFields, "chat") \/ CommandEnds(s, e) = FailChat(s, "failed")
<1> DEFINE reason == ResolveFinish(IF s.finish # "" THEN s.finish ELSE CommandFinish(e.k), Len(s.calls))
           seq == [n \in DOMAIN s.calls |-> n]
           closed == AllGiveNothing(s, seq)
           u == Counted(s, e).u
<1>1. IsSeq(seq)
  BY SeqSame DEF DCCalm
<1> HIDE DEF seq, closed
<1>2. PICK g : Path("GiveNothing", s, seq, closed, g)
  BY <1>1, FoldGiveNothing DEF closed
<1> DEFINE P == {n \in 0 .. Len(seq) : DCCalm(g[n])}
<1>3. Len(seq) \in Nat
  BY <1>1, SeqDomain
<1>4. 0 \in P
  BY <1>2, <1>3 DEF Path
<1>5. \A n \in 1 .. Len(seq) : n - 1 \in P => n \in P
  <2> SUFFICES ASSUME NEW n \in 1 .. Len(seq), DCCalm(g[n - 1]) PROVE DCCalm(g[n])
    OBVIOUS
  <2>1. g[n] = GiveNothing(g[n - 1], seq[n])
    BY <1>2 DEF Path, FoldStep
  <2> QED BY <2>1, DCGiveNothing
<1>6. Len(seq) \in P
  <2> HIDE DEF P
  <2> QED BY <1>3, <1>4, <1>5, Along
<1>7. Calm(closed, DCFields, "chat")
  BY <1>2, <1>6 DEF Path, DCCalm
<1> HIDE DEF reason, u
<1>8. Won(Finished(closed, reason, u), DCFields, "chat")
  BY <1>7, FinishedWon
<1>9. CommandEnds(s, e) = FailChat(s, "failed") \/ CommandEnds(s, e) = Finished(closed, reason, u)
  BY Zenon DEF CommandEnds, AllGiveNothing, reason, closed, seq, u
<1> QED BY <1>8, <1>9

LEMMA DCStep ==
    ASSUME NEW s, DOMAIN s = DCFields, IsSeq(s.calls), s.end = "", s.out = <<>>, NEW e, e.t \in CommandEvents
    PROVE  LET t == CommandToChat(s, e)
           IN ToChat(t, DCFields, e.t = "finish") /\ (t.end = "" => IsSeq(t.calls))
<1> DEFINE t == CommandToChat(s, e)
           may == e.t = "finish"
<1>1. DCCalm(s)
  BY StreamEmpty DEF DCCalm, Calm, DCFields
<1> HIDE DEF may
<1>2. ASSUME DCCalm(t) PROVE ToChat(t, DCFields, may) /\ (t.end = "" => IsSeq(t.calls))
  <2> HIDE DEF t
  <2>1. ToChat(t, DCFields, may)
    BY <1>2, ToChatCalm DEF DCCalm
  <2> QED BY <1>2, <2>1 DEF DCCalm
<1>3. ASSUME t = FailChat(s, "cut") \/ t = FailChat(s, "failed") PROVE ToChat(t, DCFields, may) /\ (t.end = "" => IsSeq(t.calls))
  <2> HIDE DEF t
  <2>0. Calm(s, DCFields, "chat")
    BY <1>1 DEF DCCalm
  <2>1. ToChat(t, DCFields, may)
    BY <1>3, <2>0, ToChatFails
  <2>2. t.end # ""
    BY <1>3, <2>0, FailChatLost
  <2> QED BY <2>1, <2>2
<1>4. CASE e.t = "text"
  <2>1. t = s \/ t = Emit(WithRole(s), e)
    BY <1>4 DEF CommandToChat
  <2>2. DCCalm(WithRole(s))
    BY <1>1, DCRole
  <2>3. Calm(Emit(WithRole(s), e), DCFields, "chat")
    BY <1>4, <2>2, CalmText DEF DCCalm
  <2>4. DCCalm(Emit(WithRole(s), e))
    BY <2>2, <2>3 DEF DCCalm, Calm, Emit, DCFields
  <2>5. DCCalm(t)
    BY <1>1, <2>1, <2>4
  <2> QED BY <1>2, <2>5 DEF may
<1>5. CASE e.t \in {"tool-input-start", "tool-call"}
  <2>1. t = s \/ t = OpenCall(s, e, <<>>) \/ t = ToldWhole(s, e)
    BY <1>5 DEF CommandToChat
  <2>2. DCCalm(t)
    BY <1>1, <2>1, DCOpenCall, DCToldWhole
  <2> QED BY <1>2, <2>2 DEF may
<1>6. CASE e.t = "tool-input-delta"
  <2> DEFINE delta == CASE e.p = <<>> -> s
                        [] e.p # <<>> /\ LookedUp(s, e.i) = 0 -> FailChat(s, "failed")
                        [] OTHER -> GiveInput(s, LookedUp(s, e.i), e.p)
  <2>1. t = delta
    BY <1>6 DEF CommandToChat
  <2>2. delta = s \/ delta = GiveInput(s, LookedUp(s, e.i), e.p) \/ delta = FailChat(s, "failed")
    BY Zenon
  <2>3. t = s \/ t = GiveInput(s, LookedUp(s, e.i), e.p) \/ t = FailChat(s, "failed")
    BY <2>1, <2>2
  <2>4. DCCalm(GiveInput(s, LookedUp(s, e.i), e.p))
    BY <1>1, DCGiveInput
  <2>5. DCCalm(t) \/ t = FailChat(s, "failed")
    BY <1>1, <2>3, <2>4
  <2> QED BY <1>2, <1>3, <2>5 DEF may
<1>7. CASE e.t = "finish-step"
  <2>1. DCCalm(Counted(s, e))
    BY <1>1 DEF Counted, DCCalm, Calm, DCFields
  <2>2. \E k : t = [Counted(s, e) EXCEPT !.finish = k]
    BY <1>7 DEF CommandToChat
  <2>3. DCCalm(t)
    BY <2>1, <2>2 DEF DCCalm, Calm, DCFields
  <2> QED BY <1>2, <2>3 DEF may
<1>8. CASE e.t = "finish"
  <2>1. t = CommandEnds(s, e)
    BY <1>8 DEF CommandToChat
  <2>2. Won(t, DCFields, "chat") \/ t = FailChat(s, "failed")
    BY <1>1, <2>1, DCCommandEnds
  <2>3. CASE Won(t, DCFields, "chat")
    <3> HIDE DEF t
    <3>1. t.end = "ok"
      BY <2>3 DEF Won
    <3> QED BY <1>8, <2>3, <3>1 DEF t, ToChat, Told
  <2> QED BY <1>3, <2>2, <2>3 DEF may
<1>9. CASE e.t = "unknown"
  <2>1. t = s \/ t = FailChat(s, "failed")
    BY <1>9 DEF CommandToChat
  <2>2. DCCalm(t) \/ t = FailChat(s, "failed")
    BY <1>1, <2>1
  <2> QED BY <1>2, <1>3, <2>2 DEF may
<1>10. CASE e.t \in {"error", "broken", "eof"}
  <2>1. t = FailChat(s, "failed") \/ t = FailChat(s, "cut")
    BY <1>10 DEF CommandToChat
  <2> QED BY <1>3, <2>1 DEF may
<1> QED BY <1>4, <1>5, <1>6, <1>7, <1>8, <1>9, <1>10 DEF CommandEvents

-----------------------------------------------------------------------------
(* The tools and the calls of Kiro's machine *)
\* The recursion of FlattenSeq has a solution.
LEMMA FlattenExists ==
    ASSUME NEW seqs, NEW N \in Nat
    PROVE  \E f : f = [i \in 1 .. N |-> IF i = 1 THEN seqs[i] ELSE f[i - 1] \o seqs[i]]
<1> DEFINE Def(m, f) == f = [i \in 1 .. m |-> IF i = 1 THEN seqs[i] ELSE f[i - 1] \o seqs[i]]
           P == {m \in Nat : \E f : Def(m, f)}
<1>1. 0 \in P
  <2> DEFINE f == [i \in 1 .. 0 |-> seqs[i]]
  <2>1. Def(0, f)
    OBVIOUS
  <2> QED BY <2>1
<1>2. \A m \in Nat : m \in P => m + 1 \in P
  <2> SUFFICES ASSUME NEW m \in Nat, m \in P PROVE m + 1 \in P
    OBVIOUS
  <2>1. PICK g : Def(m, g)
    OBVIOUS
  <2> DEFINE f == [i \in 1 .. m + 1 |-> IF i = 1 THEN seqs[i] ELSE g[i - 1] \o seqs[i]]
  <2>2. ASSUME NEW i \in 1 .. m + 1
        PROVE  f[i] = IF i = 1 THEN seqs[i] ELSE f[i - 1] \o seqs[i]
    <3>1. CASE i = 1
      BY <3>1
    <3>2. CASE i # 1
      <4>1. i - 1 \in 1 .. m /\ i - 1 \in 1 .. m + 1
        BY <3>2
      <4>2. f[i - 1] = g[i - 1]
        BY <2>1, <4>1
      <4> QED BY <3>2, <4>2
    <3> QED BY <3>1, <3>2
  <2>3. Def(m + 1, f)
    BY <2>2, Zenon
  <2>4. \E h : Def(m + 1, h)
    BY <2>3, Zenon
  <2>5. m + 1 \in Nat
    OBVIOUS
  <2> HIDE DEF Def
  <2> QED BY <2>4, <2>5
<1>3. N \in P
  <2> HIDE DEF P
  <2> QED BY <1>1, <1>2, SetInduction
<1> QED BY <1>3

LEMMA FlattenStream ==
    ASSUME NEW T, NEW seqs, IsSeq(seqs), \A n \in 1 .. Len(seqs) : Stream(seqs[n], T)
    PROVE  Stream(FlattenSeq(seqs), T)
<1> DEFINE Def(f) == f = [i \in 1 .. Len(seqs) |-> IF i = 1 THEN seqs[i] ELSE f[i - 1] \o seqs[i]]
           flatten == CHOOSE f : Def(f)
<1>1. Len(seqs) \in Nat
  BY SeqDomain
<1>2. \E f : Def(f)
  BY <1>1, FlattenExists
<1>3. Def(flatten)
  BY <1>2, Zenon
<1>4. FlattenSeq(seqs) = IF Len(seqs) = 0 THEN seqs ELSE flatten[Len(seqs)]
  BY Zenon DEF FlattenSeq
<1>5. CASE Len(seqs) = 0
  <2>1. seqs = <<>>
    BY <1>5 DEF IsSeq
  <2> QED BY <1>4, <1>5, <2>1, StreamEmpty
<1>6. CASE Len(seqs) # 0
  <2> HIDE DEF flatten
  <2> DEFINE P == {n \in 0 .. Len(seqs) : n = 0 \/ Stream(flatten[n], T)}
  <2>1. \A n \in 1 .. Len(seqs) : n - 1 \in P => n \in P
    <3> SUFFICES ASSUME NEW n \in 1 .. Len(seqs), n - 1 = 0 \/ Stream(flatten[n - 1], T)
                 PROVE  Stream(flatten[n], T)
      BY <1>1
    <3>1. flatten[n] = IF n = 1 THEN seqs[n] ELSE flatten[n - 1] \o seqs[n]
      BY <1>3
    <3>2. CASE n = 1
      BY <3>1, <3>2
    <3>3. CASE n # 1
      <4>1. Stream(flatten[n - 1], T) /\ Stream(seqs[n], T)
        BY <1>1, <3>3
      <4> QED BY <3>1, <3>3, <4>1, StreamConcat
    <3> QED BY <3>2, <3>3
  <2>2. Len(seqs) \in P
    <3>1. 0 \in P
      BY <1>1
    <3> HIDE DEF P
    <3> QED BY <1>1, <2>1, <3>1, Along
  <2> QED BY <1>4, <1>6, <2>2
<1> QED BY <1>5, <1>6

LEMMA StreamOne == ASSUME NEW T, NEW e, e.t \in T PROVE Stream(<<e>>, T)
<1>1. Stream(Append(<<>>, e), T)
  BY StreamEmpty, StreamAppend
<1>2. <<e>> = Append(<<>>, e)
  OBVIOUS
<1> QED BY <1>1, <1>2

LEMMA StreamTwo == ASSUME NEW T, NEW e, NEW d, e.t \in T, d.t \in T PROVE Stream(<<e, d>>, T)
<1>1. Stream(Append(<<e>>, d), T)
  BY StreamOne, StreamAppend
<1>2. <<e, d>> = Append(<<e>>, d)
  OBVIOUS
<1> QED BY <1>1, <1>2

LEMMA StreamMore == ASSUME NEW out, NEW S, NEW T, Stream(out, S), S \subseteq T PROVE Stream(out, T)
BY DEF Stream

-----------------------------------------------------------------------------
\* The chunks that the calls of Kiro's machine are told in.
LEMMA CallChunksStream ==
    ASSUME NEW m, IsSeq(m.tools)
    PROVE  Stream(CallChunks(m), {"call"})
<1> DEFINE seqs == [n \in DOMAIN m.tools |-> ToolChunks(m.tools, n)]
<1>1. CallChunks(m) = FlattenSeq(seqs)
  BY Zenon DEF CallChunks
<1>2. ASSUME NEW n PROVE Stream(ToolChunks(m.tools, n), {"call"})
  <2> DEFINE index == Cardinality({k \in 1 .. n - 1 : Usable(m.tools[k])})
             e == Piece("call", index, "function", <<>>)
             d == Piece("call", index, "", OrNothing(m.tools[n].p))
  <2>1. ToolChunks(m.tools, n) = IF ~Usable(m.tools[n]) THEN <<>> ELSE <<e, d>>
    BY Zenon DEF ToolChunks
  <2>2. e.t = "call" /\ d.t = "call"
    BY PieceType
  <2> HIDE DEF e, d
  <2> QED BY <2>1, <2>2, StreamTwo, StreamEmpty
<1>3. IsSeq(seqs) /\ Len(seqs) = Len(m.tools)
  BY SeqSame, SeqDomain
<1>4. \A n \in 1 .. Len(seqs) : Stream(seqs[n], {"call"})
  BY <1>2, <1>3, SeqDomain
<1> HIDE DEF seqs
<1>5. Stream(FlattenSeq(seqs), {"call"})
  BY <1>3, <1>4, FlattenStream
<1> QED BY <1>1, <1>5

-----------------------------------------------------------------------------
(* Kiro's machine *)
GateFields == {"m", "attempt", "asks", "out", "end"}
MachineFields == {"tools", "used", "stop", "explicit", "delivered", "rejected", "u", "out"}
FrameEvents == {"text", "tool", "messageStop", "metadata", "metrics"}
KiroEvents == FrameEvents \cup {"eof", "broken", "error", "refused"}

\* The shape of the gate's machine.
MachineOK(m) == DOMAIN m = MachineFields /\ IsSeq(m.tools) /\ Stream(m.out, {"text"})

LEMMA MachineDelivers ==
    ASSUME NEW m, MachineOK(m), NEW k, NEW p
    PROVE  /\ MachineOK(DeliverText(m, k, p))
           /\ DeliverText(m, k, p).tools = m.tools /\ DeliverText(m, k, p).stop = m.stop
<1> DEFINE e == Piece("text", 0, k, p)
<1>1. e.t \in {"text"}
  BY PieceType
<1> HIDE DEF e
<1>2. Stream(Append(m.out, e), {"text"})
  BY <1>1, StreamAppend DEF MachineOK
<1>3. DeliverText(m, k, p) = [Emit(m, e) EXCEPT !.delivered = TRUE]
  BY DEF DeliverText, e
<1> QED BY <1>2, <1>3 DEF MachineOK, MachineFields, Emit

LEMMA MachineFragment ==
    ASSUME NEW m, MachineOK(m), NEW e
    PROVE  MachineOK(Fragment(m, e)) /\ Fragment(m, e).stop = m.stop
<1> DEFINE new == [i |-> e.i, kind |-> "", p |-> <<>>, bad |-> FALSE]
           known == IF Known(m.tools, e.i) THEN m.tools ELSE Append(m.tools, new)
           n == CHOOSE n \in DOMAIN known : known[n].i = e.i
           kind == IF e.k = "bad" THEN "string" ELSE e.k
           given == [known EXCEPT ![n].kind = kind, ![n].bad = @ \/ e.k = "bad",
                                  ![n].p = IF kind = "object" THEN e.p ELSE @ \o e.p]
<1>1. IsSeq(known)
  <2> HIDE DEF new
  <2>1. IsSeq(Append(m.tools, new))
    BY SeqAppend DEF MachineOK
  <2> QED BY <2>1 DEF MachineOK
<1> HIDE DEF known, n
<1>2. given = [j \in DOMAIN known |-> given[j]]
  OBVIOUS
<1> HIDE DEF given
<1>3. IsSeq(given)
  BY <1>1, <1>2, SeqSame
<1>4. \/ Fragment(m, e) = [m EXCEPT !.used = TRUE, !.rejected = TRUE]
      \/ Fragment(m, e) = [m EXCEPT !.used = TRUE, !.tools = known]
      \/ Fragment(m, e) = [m EXCEPT !.used = TRUE, !.tools = known, !.rejected = TRUE]
      \/ Fragment(m, e) = [m EXCEPT !.used = TRUE, !.tools = given]
  BY Zenon DEF Fragment, given, kind, n, known, new
<1> QED BY <1>1, <1>3, <1>4 DEF MachineOK, MachineFields

LEMMA MachineStop ==
    ASSUME NEW m, MachineOK(m), NEW reason
    PROVE  MachineOK(Stop(m, reason)) /\ Stop(m, reason).tools = m.tools
BY DEF Stop, MachineOK, MachineFields

LEMMA MachineHandles ==
    ASSUME NEW m, MachineOK(m), NEW e, e.t \in FrameEvents
    PROVE  MachineOK(Handle(m, e))
<1>1. CASE e.t = "text"
  <2>1. Handle(m, e) = m \/ Handle(m, e) = [m EXCEPT !.delivered = TRUE] \/ \E k : Handle(m, e) = DeliverText(m, k, e.p)
    BY <1>1 DEF Handle
  <2>2. MachineOK([m EXCEPT !.delivered = TRUE])
    BY DEF MachineOK, MachineFields
  <2>3. CASE \E k : Handle(m, e) = DeliverText(m, k, e.p)
    <3>1. PICK k : Handle(m, e) = DeliverText(m, k, e.p)
      BY <2>3
    <3> QED BY <3>1, MachineDelivers
  <2> QED BY <2>1, <2>2, <2>3
<1>2. CASE e.t = "tool"
  BY <1>2, MachineFragment DEF Handle
<1>3. CASE e.t \in {"messageStop", "metadata"}
  <2>1. \E reason, explicit : Handle(m, e) = [Stop(m, reason) EXCEPT !.explicit = explicit]
    BY <1>3 DEF Handle
  <2>2. PICK reason, explicit : Handle(m, e) = [Stop(m, reason) EXCEPT !.explicit = explicit]
    BY <2>1
  <2>3. MachineOK(Stop(m, reason))
    BY MachineStop
  <2> QED BY <2>2, <2>3 DEF MachineOK, MachineFields
<1>4. CASE e.t = "metrics"
  BY <1>4 DEF Handle, Counted, MachineOK, MachineFields
<1> QED BY <1>1, <1>2, <1>3, <1>4 DEF FrameEvents

-----------------------------------------------------------------------------
\* What the gate lets through.
LEMMA MachineStream ==
    ASSUME NEW m, MachineOK(m)
    PROVE  Stream(m.out \o CallChunks(m), {"text", "call"})
<1>1. Stream(m.out, {"text", "call"})
  BY StreamMore DEF MachineOK
<1>2. Stream(CallChunks(m), {"text", "call"})
  BY CallChunksStream, StreamMore DEF MachineOK
<1> QED BY <1>1, <1>2, StreamConcat

LEMMA KCReleases ==
    ASSUME NEW s, DOMAIN s = GateFields, s.end = "", MachineOK(s.m), NEW reason
    PROVE  Won(ReleaseChat(s, reason), GateFields, "chat")
<1> DEFINE out == <<Plain("role")>> \o s.m.out \o CallChunks(s.m)
           t == [s EXCEPT !.out = out]
<1>1. Stream(out, Quiet("chat"))
  <2>1. Stream(s.m.out, Quiet("chat")) /\ Stream(CallChunks(s.m), Quiet("chat"))
    <3>1. Stream(s.m.out, Quiet("chat"))
      BY QuietChat, StreamMore DEF MachineOK
    <3>2. Stream(CallChunks(s.m), {"call"})
      BY CallChunksStream DEF MachineOK
    <3> QED BY <3>1, <3>2, QuietChat, StreamMore
  <2>2. Stream(<<Plain("role")>>, Quiet("chat"))
    <3>1. Plain("role").t \in Quiet("chat")
      BY PlainType, QuietChat
    <3> QED BY <3>1, StreamOne
  <2>3. Stream(<<Plain("role")>> \o s.m.out, Quiet("chat"))
    BY <2>1, <2>2, StreamConcat
  <2> QED BY <2>1, <2>3, StreamConcat
<1> HIDE DEF out
<1>2. Calm(t, GateFields, "chat")
  BY <1>1 DEF Calm, GateFields
<1> HIDE DEF t
<1>3. Won(Finished(t, reason, s.m.u), GateFields, "chat")
  BY <1>2, FinishedWon
<1> QED BY <1>3 DEF ReleaseChat, t, out

\* The blocks of an answer that is written for Messages.
BlocksOK(b) == DOMAIN b = {"kind", "index", "next", "out"} /\ Stream(b.out, Quiet("messages"))

LEMMA BlocksEmit ==
    ASSUME NEW b, BlocksOK(b), NEW t \in {"content_block_start", "content_block_delta", "content_block_stop"}, NEW i, NEW k, NEW p
    PROVE  BlocksOK(Emit(b, Piece(t, i, k, p)))
<1> DEFINE e == Piece(t, i, k, p)
<1>1. e.t = t
  BY PieceType
<1>2. e.t \in Quiet("messages")
  BY <1>1, QuietMessages
<1> HIDE DEF e
<1>3. Stream(Append(b.out, e), Quiet("messages"))
  BY <1>2, StreamAppend DEF BlocksOK
<1>4. BlocksOK(Emit(b, e))
  BY <1>3 DEF BlocksOK, Emit
<1> QED BY <1>4 DEF e

LEMMA BlocksStop == ASSUME NEW b, BlocksOK(b) PROVE BlocksOK(StopRun(b))
<1> DEFINE t == Emit(b, Piece("content_block_stop", b.index, "", <<>>))
<1>1. BlocksOK(t)
  BY BlocksEmit
<1> HIDE DEF t
<1>2. BlocksOK([t EXCEPT !.kind = ""])
  BY <1>1 DEF BlocksOK
<1> QED BY <1>2 DEF StopRun, t

LEMMA BlocksOpen == ASSUME NEW b, BlocksOK(b), NEW k PROVE BlocksOK(OpenRun(b, k))
<1> DEFINE t == Emit(b, Piece("content_block_start", b.next, k, <<>>))
<1>1. BlocksOK(t)
  BY BlocksEmit
<1> HIDE DEF t
<1>2. BlocksOK([t EXCEPT !.index = b.next, !.next = @ + 1])
  BY <1>1 DEF BlocksOK
<1> QED BY <1>2 DEF OpenRun, t

LEMMA BlocksAccept == ASSUME NEW b, BlocksOK(b), NEW d PROVE BlocksOK(Accept(b, d))
<1> DEFINE opened == OpenRun(StopRun(b), d.k)
           run == IF d.t # "text" \/ b.kind = d.k THEN b ELSE [opened EXCEPT !.kind = d.k]
           given == Emit(b, Piece("content_block_delta", b.index, "function", d.p))
<1>1. BlocksOK(StopRun(b))
  BY BlocksStop
<1>2. BlocksOK(opened)
  BY <1>1, BlocksOpen
<1> HIDE DEF opened
<1>3. BlocksOK([opened EXCEPT !.kind = d.k])
  BY <1>2 DEF BlocksOK
<1>4. BlocksOK(run)
  BY <1>3
<1>5. BlocksOK(given)
  BY BlocksEmit
<1> HIDE DEF run, given
<1>6. BlocksOK(Emit(run, Piece("content_block_delta", run.index, d.k, d.p)))
  BY <1>4, BlocksEmit
<1>7. BlocksOK(Emit(given, Piece("content_block_stop", b.index, "", <<>>)))
  BY <1>5, BlocksEmit
<1>8. ~(d.t = "text" /\ d.t = "call")
  OBVIOUS
<1>9. \/ Accept(b, d) = Emit(run, Piece("content_block_delta", run.index, d.k, d.p))
      \/ Accept(b, d) = opened
      \/ Accept(b, d) = Emit(given, Piece("content_block_stop", b.index, "", <<>>))
  BY <1>8, Zenon DEF Accept, run, opened, given
<1> QED BY <1>2, <1>6, <1>7, <1>9

LEMMA BlocksAlong ==
    ASSUME NEW base, NEW seq, NEW last, NEW g, IsSeq(seq), Path("Accept", base, seq, last, g), BlocksOK(base)
    PROVE  BlocksOK(last)
<1> DEFINE P == {n \in 0 .. Len(seq) : BlocksOK(g[n])}
<1>1. Len(seq) \in Nat
  BY SeqDomain
<1>2. 0 \in P
  BY <1>1 DEF Path
<1>3. \A n \in 1 .. Len(seq) : n - 1 \in P => n \in P
  <2> SUFFICES ASSUME NEW n \in 1 .. Len(seq), BlocksOK(g[n - 1]) PROVE BlocksOK(g[n])
    OBVIOUS
  <2>1. g[n] = Accept(g[n - 1], seq[n])
    BY DEF Path, FoldStep
  <2> QED BY <2>1, BlocksAccept
<1>4. Len(seq) \in P
  <2> HIDE DEF P
  <2> QED BY <1>1, <1>2, <1>3, Along
<1> QED BY <1>4 DEF Path

\* Adding two elements at once is adding one and the other.
Joins(x, a, b) == x \o <<a, b>> = Append(Append(x, a), b)
LEMMA AppendTwo == ASSUME NEW x, IsSeq(x), NEW a, NEW b PROVE Joins(x, a, b)
<1>1. PICK S : x \in Seq(S)
  BY DEF IsSeq
<1>2. x \in Seq(S \cup {a, b})
  BY <1>1
<1> QED BY <1>2 DEF Joins

LEMMA KMReleases ==
    ASSUME NEW s, DOMAIN s = GateFields, s.end = "", MachineOK(s.m), NEW reason
    PROVE  Won(ReleaseMessages(s, reason), GateFields, "messages")
<1> DEFINE blocks == [kind |-> "", index |-> 0, next |-> 1, out |-> <<Plain("message_start")>>]
           seq == s.m.out \o CallChunks(s.m)
           folded == AllAccept(blocks, seq)
           all == StopRun(folded)
           start == Piece("content_block_start", 1, "text", <<>>)
           stop == Piece("content_block_stop", 1, "", <<>>)
           shown == all.out \o IF all.next > 1 THEN <<>> ELSE <<start, stop>>
           delta == Final("message_delta", MessageStopReason(reason), s.m.u)
           last == Plain("message_stop")
           t == Over([s EXCEPT !.out = shown \o <<delta, last>>], "ok")
<1>1. IsSeq(seq)
  BY MachineStream DEF Stream, IsSeq
<1>2. BlocksOK(blocks)
  <2>1. Plain("message_start").t \in Quiet("messages")
    BY PlainType, QuietMessages
  <2>2. Stream(<<Plain("message_start")>>, Quiet("messages"))
    BY <2>1, StreamOne
  <2> QED BY <2>2 DEF BlocksOK
<1> HIDE DEF blocks, seq, folded
<1>3. PICK g : Path("Accept", blocks, seq, folded, g)
  BY <1>1, FoldAccept DEF folded
<1>4. BlocksOK(folded)
  BY <1>1, <1>2, <1>3, BlocksAlong
<1>5. BlocksOK(all)
  BY <1>4, BlocksStop
<1> HIDE DEF all
<1>10. start.t = "content_block_start" /\ stop.t = "content_block_stop"
  <2> HIDE DEF shown, delta, last, t
  <2>1. start.t = "content_block_start"
    BY DEF Plain, Piece
  <2>2. stop.t = "content_block_stop"
    BY DEF Plain, Piece
  <2> HIDE DEF start, stop
  <2> QED BY <2>1, <2>2
<1> HIDE DEF start, stop
<1>11. Stream(<<start, stop>>, Quiet("messages")) /\ Stream(<<>>, Quiet("messages"))
  BY <1>10, QuietMessages, StreamTwo, StreamEmpty
<1>12. Stream(shown, Quiet("messages"))
  BY <1>5, <1>11, StreamConcat DEF BlocksOK
<1>13. delta.t = "message_delta" /\ last.t = "message_stop"
  BY FinalType, PlainType
<1> HIDE DEF shown, delta, last
<1>14. Stream(Append(shown, delta), Quiet("messages"))
  BY <1>12, <1>13, StreamAppend, QuietMessages
<1>15. shown \o <<delta, last>> = Append(Append(shown, delta), last)
  <2>1. IsSeq(shown)
    BY <1>12 DEF Stream, IsSeq
  <2>2. Joins(shown, delta, last)
    BY <2>1, AppendTwo
  <2> QED BY <2>2, Zenon DEF Joins
<1>16. last.t \in Ending("messages")
  BY <1>13 DEF Ending
<1>17. DOMAIN t = GateFields /\ t.end = "ok" /\ t.out = Append(Append(shown, delta), last)
  BY <1>15 DEF Over, GateFields
<1> HIDE DEF t
<1>18. Won(t, GateFields, "messages")
  BY <1>14, <1>16, <1>17 DEF Won
<1>19. ReleaseMessages(s, reason) = t
  BY Zenon DEF ReleaseMessages, AllAccept, t, shown, delta, last, start, stop, all, folded, seq, blocks
<1> QED BY <1>18, <1>19

-----------------------------------------------------------------------------
\* The gate after an event: it goes on reading, asks once more, or lets the answer
\* through or fails it.
GateStep(s, e, t, protocol) ==
    \/ e.t \in FrameEvents /\ t = [s EXCEPT !.m = Handle(s.m, e)]
    \/ e.t \in {"eof", "broken"} /\ t = Repeat(s)
    \/ e.t \in {"eof", "broken"} /\ GateVerdict(s.m, e) \in Finishes /\ Won(t, GateFields, protocol)
    \/ Lost(t, GateFields, protocol)

LEMMA GatedSplit ==
    ASSUME NEW s, NEW e, NEW released, NEW failed
    PROVE  \/ e.t \in FrameEvents /\ Gated(s, e, released, failed) = [s EXCEPT !.m = Handle(s.m, e)]
           \/ e.t \in {"eof", "broken"} /\ GateVerdict(s.m, e) \in Finishes /\ Gated(s, e, released, failed) = released
           \/ e.t \in {"eof", "broken"} /\ Gated(s, e, released, failed) = Repeat(s)
           \/ Gated(s, e, released, failed) = failed
<1> DEFINE v == GateVerdict(s.m, e)
<1>1. ~(e.t \in FrameEvents /\ e.t \in {"eof", "broken"})
  BY DEF FrameEvents
<1>2. ~(v \in Finishes /\ v \in Repeated)
  BY DEF Finishes, Repeated
<1> HIDE DEF v
<1>3. Gated(s, e, released, failed) =
        CASE e.t \in FrameEvents -> [s EXCEPT !.m = Handle(s.m, e)]
          [] e.t \in {"eof", "broken"} /\ v \in Finishes -> released
          [] e.t \in {"eof", "broken"} /\ v \in Repeated /\ s.attempt = 1 -> Repeat(s)
          [] OTHER -> failed
  BY Zenon DEF Gated, FrameEvents, v
<1> QED BY <1>1, <1>2, <1>3, Zenon DEF v

LEMMA KCStep ==
    ASSUME NEW s, DOMAIN s = GateFields, s.end = "", s.out = <<>>, MachineOK(s.m), NEW e
    PROVE  GateStep(s, e, KiroToChat(s, e), "chat")
<1> DEFINE released == ReleaseChat(s, GateVerdict(s.m, e))
           failed == FailChat(s, "failed")
<1>1. Won(released, GateFields, "chat")
  BY KCReleases
<1>2. Lost(failed, GateFields, "chat")
  <2>1. Calm(s, GateFields, "chat")
    BY StreamEmpty DEF Calm, GateFields
  <2> QED BY <2>1, FailChatLost
<1> HIDE DEF released, failed
<1>3. KiroToChat(s, e) = Gated(s, e, released, failed)
  BY DEF KiroToChat, released, failed
<1>4. \/ e.t \in FrameEvents /\ Gated(s, e, released, failed) = [s EXCEPT !.m = Handle(s.m, e)]
      \/ e.t \in {"eof", "broken"} /\ GateVerdict(s.m, e) \in Finishes /\ Gated(s, e, released, failed) = released
      \/ e.t \in {"eof", "broken"} /\ Gated(s, e, released, failed) = Repeat(s)
      \/ Gated(s, e, released, failed) = failed
  BY GatedSplit, Zenon
<1> QED BY <1>1, <1>2, <1>3, <1>4, Zenon DEF GateStep

LEMMA KMStep ==
    ASSUME NEW s, DOMAIN s = GateFields, s.end = "", s.out = <<>>, MachineOK(s.m), NEW e
    PROVE  GateStep(s, e, KiroToMessages(s, e), "messages")
<1> DEFINE released == ReleaseMessages(s, GateVerdict(s.m, e))
           failed == FailMessages(s, "failed")
<1>1. Won(released, GateFields, "messages")
  BY KMReleases
<1>2. Lost(failed, GateFields, "messages")
  BY FailMessagesLost DEF GateFields
<1> HIDE DEF released, failed
<1>3. KiroToMessages(s, e) = Gated(s, e, released, failed)
  BY DEF KiroToMessages, released, failed
<1>4. \/ e.t \in FrameEvents /\ Gated(s, e, released, failed) = [s EXCEPT !.m = Handle(s.m, e)]
      \/ e.t \in {"eof", "broken"} /\ GateVerdict(s.m, e) \in Finishes /\ Gated(s, e, released, failed) = released
      \/ e.t \in {"eof", "broken"} /\ Gated(s, e, released, failed) = Repeat(s)
      \/ Gated(s, e, released, failed) = failed
  BY GatedSplit, Zenon
<1> QED BY <1>1, <1>2, <1>3, <1>4, Zenon DEF GateStep

-----------------------------------------------------------------------------
(* The client *)
ClientFields == {"started", "blocks", "reason", "u", "failed", "over", "bad"}
\* A client that was told neither the end of the answer nor a failure.
Listening(c) == DOMAIN c = ClientFields /\ ~c.over /\ ~c.failed
\* A client that was told the end, after a failure or not.
Heard(c, failed) == DOMAIN c = ClientFields /\ c.over /\ c.failed = failed

LEMMA ListeningOn ==
    ASSUME NEW c, Listening(c), NEW e
    PROVE  Listening(Bad(c)) /\ Listening(Starts(c)) /\ Listening(Opens(c, e)) /\ Listening(Extends(c, e))
           /\ Listening(Closes(c, e)) /\ Listening(OpensItem(c, e)) /\ Listening(ReadCall(c, e))
<1>1. Listening(Bad(c))
  BY DEF Listening, ClientFields, Bad
<1>2. Listening(Starts(c))
  BY <1>1 DEF Listening, ClientFields, Starts
<1>3. Listening(Opens(c, e))
  <2>1. \A x : Listening([c EXCEPT !.blocks = x])
    BY DEF Listening, ClientFields
  <2> QED BY <1>1, <2>1, Zenon DEF Opens
<1>4. ASSUME NEW x PROVE Listening([c EXCEPT !.blocks = x])
  BY DEF Listening, ClientFields
<1>5. ASSUME NEW n, NEW x PROVE Listening([c EXCEPT !.blocks[n].p = x])
  BY DEF Listening, ClientFields
<1>10. ASSUME NEW n PROVE Listening([c EXCEPT !.blocks[n].open = FALSE])
  BY DEF Listening, ClientFields
<1>6. Listening(Extends(c, e))
  <2> DEFINE x == c.blocks[e.i].p \o e.p
  <2>1. Extends(c, e) = Bad(c) \/ Extends(c, e) = [c EXCEPT !.blocks[e.i].p = x]
    BY Zenon DEF Extends
  <2> HIDE DEF x
  <2>2. Listening([c EXCEPT !.blocks[e.i].p = x])
    BY <1>5, Zenon
  <2> QED BY <1>1, <2>1, <2>2, Zenon
<1>7. Listening(Closes(c, e))
  <2>1. Closes(c, e) = Bad(c) \/ Closes(c, e) = [c EXCEPT !.blocks[e.i].open = FALSE]
    BY Zenon DEF Closes
  <2>2. Listening([c EXCEPT !.blocks[e.i].open = FALSE])
    BY <1>10, Zenon
  <2> QED BY <1>1, <2>1, <2>2, Zenon
<1>8. Listening(OpensItem(c, e))
  <2> DEFINE x == [n \in 1 .. Max({e.i, Len(c.blocks)}) |->
                     IF n = e.i THEN Block(e.k, TRUE) ELSE IF n <= Len(c.blocks) THEN c.blocks[n] ELSE Block("", FALSE)]
  <2>1. OpensItem(c, e) = Bad(c) \/ OpensItem(c, e) = [c EXCEPT !.blocks = x]
    BY Zenon DEF OpensItem
  <2> HIDE DEF x
  <2> QED BY <1>1, <1>4, <2>1
<1>9. Listening(ReadCall(c, e))
  <2> DEFINE x == Append(c.blocks, [Block(e.k, FALSE) EXCEPT !.p = e.p])
             n == Nth(c, e.i)
             y == c.blocks[n].p \o e.p
  <2>1. ~(e.k # "" /\ e.k = "")
    OBVIOUS
  <2>2. ReadCall(c, e) = Bad(c) \/ ReadCall(c, e) = [c EXCEPT !.blocks = x] \/ ReadCall(c, e) = [c EXCEPT !.blocks[n].p = y]
    BY <2>1, Zenon DEF ReadCall
  <2> HIDE DEF x, n, y
  <2> QED BY <1>1, <1>4, <1>5, <2>2
<1> QED BY <1>1, <1>2, <1>3, <1>6, <1>7, <1>8, <1>9

LEMMA ListeningMessages ==
    ASSUME NEW c, Listening(c), NEW e
    PROVE  /\ e.t \in Quiet("messages") => Listening(ReadMessages(c, e))
           /\ e.t \in Ending("messages") => Heard(ReadMessages(c, e), FALSE)
           /\ e.t = "error" => Heard(ReadMessages(c, e), TRUE)
<1>1. CASE e.t = "message_delta"
  <2>1. ReadMessages(c, e) = IF AllClosed(c) /\ c.reason = "" THEN [c EXCEPT !.reason = e.k, !.u = e.u] ELSE Bad(c)
    BY <1>1 DEF ReadMessages
  <2>2. Listening([c EXCEPT !.reason = e.k, !.u = e.u])
    BY DEF Listening, ClientFields
  <2> QED BY <1>1, <2>1, <2>2, ListeningOn DEF Ending
<1>2. CASE e.t \in {"message_start", "content_block_start", "content_block_delta", "content_block_stop"}
  <2>1. ReadMessages(c, e) \in {Starts(c), Opens(c, e), Extends(c, e), Closes(c, e)}
    BY <1>2 DEF ReadMessages
  <2>2. Listening(ReadMessages(c, e))
    BY <2>1, ListeningOn
  <2> QED BY <1>2, <2>2 DEF Ending
<1>3. CASE e.t = "message_stop"
  <2>1. ReadMessages(c, e) = [c EXCEPT !.over = TRUE, !.bad = @ \/ c.reason = ""]
    BY <1>3 DEF ReadMessages
  <2>2. Heard(ReadMessages(c, e), FALSE)
    BY <2>1 DEF Heard, Listening, ClientFields
  <2> QED BY <1>3, <2>2, QuietMessages
<1>4. CASE e.t = "error"
  <2>1. ReadMessages(c, e) = Fails(c)
    BY <1>4 DEF ReadMessages
  <2>2. Heard(ReadMessages(c, e), TRUE)
    BY <2>1 DEF Heard, Listening, ClientFields, Fails
  <2> QED BY <1>4, <2>2, QuietMessages DEF Ending
<1> QED BY <1>1, <1>2, <1>3, <1>4, QuietMessages DEF Ending

LEMMA ListeningResponses ==
    ASSUME NEW c, Listening(c), NEW e
    PROVE  /\ e.t \in Quiet("responses") => Listening(ReadResponses(c, e))
           /\ e.t \in Ending("responses") => Heard(ReadResponses(c, e), FALSE)
           /\ e.t = "response.failed" => Heard(ReadResponses(c, e), TRUE)
<1>1. CASE e.t = "response.output_item.done"
  <2> DEFINE t == Closes(c, e)
  <2>1. ReadResponses(c, e) = Bad(c) \/ ReadResponses(c, e) = [t EXCEPT !.blocks[e.i].p = e.p]
    BY <1>1 DEF ReadResponses
  <2>2. Listening(t)
    BY ListeningOn
  <2> HIDE DEF t
  <2>3. Listening([t EXCEPT !.blocks[e.i].p = e.p])
    BY <2>2 DEF Listening, ClientFields
  <2> QED BY <1>1, <2>1, <2>3, ListeningOn DEF Ending
<1>2. CASE e.t \in {"response.created", "response.output_item.added", "delta"}
  <2>1. ReadResponses(c, e) \in {Starts(c), OpensItem(c, e), Extends(c, e)}
    BY <1>2 DEF ReadResponses
  <2>2. Listening(ReadResponses(c, e))
    BY <2>1, ListeningOn
  <2> QED BY <1>2, <2>2 DEF Ending
<1>3. CASE e.t \in {"response.completed", "response.incomplete"}
  <2>1. \E b : ReadResponses(c, e) = [c EXCEPT !.reason = e.k, !.u = e.u, !.over = TRUE, !.bad = b]
    BY <1>3 DEF ReadResponses
  <2>2. Heard(ReadResponses(c, e), FALSE)
    BY <2>1 DEF Heard, Listening, ClientFields
  <2> QED BY <1>3, <2>2, QuietResponses
<1>4. CASE e.t = "response.failed"
  <2>1. ReadResponses(c, e) = Fails(c)
    BY <1>4 DEF ReadResponses
  <2>2. Heard(ReadResponses(c, e), TRUE)
    BY <2>1 DEF Heard, Listening, ClientFields, Fails
  <2> QED BY <1>4, <2>2, QuietResponses DEF Ending
<1> QED BY <1>1, <1>2, <1>3, <1>4, QuietResponses DEF Ending

\* A Chat client reads an error object, and then the marker.
Warned(c) == DOMAIN c = ClientFields /\ ~c.over /\ c.failed

LEMMA ListeningChat ==
    ASSUME NEW c, Listening(c), NEW e
    PROVE  /\ e.t \in Quiet("chat") => Listening(ReadChat(c, e))
           /\ e.t \in Ending("chat") => Heard(ReadChat(c, e), FALSE)
           /\ e.t = "error" => Warned(ReadChat(c, e))
<1>1. CASE e.t \in {"text", "finish"}
  <2> DEFINE x == Append(c.blocks, [Block(e.k, FALSE) EXCEPT !.p = e.p])
  <2>1. ReadChat(c, e) \in {Bad(c), [c EXCEPT !.blocks = x], [c EXCEPT !.reason = e.k, !.u = e.u]}
    BY <1>1 DEF ReadChat
  <2> HIDE DEF x
  <2>2. Listening([c EXCEPT !.blocks = x]) /\ Listening([c EXCEPT !.reason = e.k, !.u = e.u])
    BY DEF Listening, ClientFields
  <2>3. Listening(ReadChat(c, e))
    BY <2>1, <2>2, ListeningOn
  <2> QED BY <1>1, <2>3 DEF Ending
<1>2. CASE e.t \in {"role", "call"}
  <2>1. ReadChat(c, e) \in {Starts(c), ReadCall(c, e), Bad(c)}
    BY <1>2 DEF ReadChat
  <2>2. Listening(ReadChat(c, e))
    BY <2>1, ListeningOn
  <2> QED BY <1>2, <2>2 DEF Ending
<1>3. CASE e.t = "[DONE]"
  <2>1. \E b : ReadChat(c, e) = [c EXCEPT !.over = TRUE, !.bad = b]
    BY <1>3 DEF ReadChat
  <2>2. Heard(ReadChat(c, e), FALSE)
    BY <2>1 DEF Heard, Listening, ClientFields
  <2> QED BY <1>3, <2>2, QuietChat
<1>4. CASE e.t = "error"
  <2>1. ReadChat(c, e) = [c EXCEPT !.failed = TRUE]
    BY <1>4 DEF ReadChat
  <2>2. Warned(ReadChat(c, e))
    BY <2>1 DEF Warned, Listening, ClientFields
  <2> QED BY <1>4, <2>2, QuietChat DEF Ending
<1> QED BY <1>1, <1>2, <1>3, <1>4, QuietChat DEF Ending

LEMMA WarnedChat ==
    ASSUME NEW c, Warned(c), NEW e, e.t = "[DONE]"
    PROVE  Heard(ReadChat(c, e), TRUE)
<1>1. \E b : ReadChat(c, e) = [c EXCEPT !.over = TRUE, !.bad = b]
  BY DEF ReadChat
<1> QED BY <1>1 DEF Heard, Warned, ClientFields

-----------------------------------------------------------------------------
Protocols == {"messages", "responses", "chat"}

LEMMA ReadNextIs ==
    ASSUME Hears \in Protocols, NEW c, ~c.over, NEW e
    PROVE  /\ Hears = "messages" => ReadNext(c, e) = ReadMessages(c, e)
           /\ Hears = "responses" => ReadNext(c, e) = ReadResponses(c, e)
           /\ Hears = "chat" => ReadNext(c, e) = ReadChat(c, e)
BY Zenon DEF ReadNext, Protocols

LEMMA ReadQuiet ==
    ASSUME Hears \in Protocols, NEW c, Listening(c), NEW e, e.t \in Quiet(Hears)
    PROVE  Listening(ReadNext(c, e))
<1>1. ~c.over
  BY DEF Listening
<1>2. CASE Hears = "messages"
  <2>1. ReadNext(c, e) = ReadMessages(c, e)
    BY <1>1, <1>2, ReadNextIs
  <2> QED BY <1>2, <2>1, ListeningMessages
<1>3. CASE Hears = "responses"
  <2>1. ReadNext(c, e) = ReadResponses(c, e)
    BY <1>1, <1>3, ReadNextIs
  <2> QED BY <1>3, <2>1, ListeningResponses
<1>4. CASE Hears = "chat"
  <2>1. ReadNext(c, e) = ReadChat(c, e)
    BY <1>1, <1>4, ReadNextIs
  <2> QED BY <1>4, <2>1, ListeningChat
<1> QED BY <1>2, <1>3, <1>4 DEF Protocols

LEMMA ReadEnding ==
    ASSUME Hears \in Protocols, NEW c, Listening(c), NEW e, e.t \in Ending(Hears)
    PROVE  Heard(ReadNext(c, e), FALSE)
<1>1. ~c.over
  BY DEF Listening
<1>2. CASE Hears = "messages"
  <2>1. ReadNext(c, e) = ReadMessages(c, e)
    BY <1>1, <1>2, ReadNextIs
  <2> QED BY <1>2, <2>1, ListeningMessages
<1>3. CASE Hears = "responses"
  <2>1. ReadNext(c, e) = ReadResponses(c, e)
    BY <1>1, <1>3, ReadNextIs
  <2> QED BY <1>3, <2>1, ListeningResponses
<1>4. CASE Hears = "chat"
  <2>1. ReadNext(c, e) = ReadChat(c, e)
    BY <1>1, <1>4, ReadNextIs
  <2> QED BY <1>4, <2>1, ListeningChat
<1> QED BY <1>2, <1>3, <1>4 DEF Protocols

LEMMA ReadFailing ==
    ASSUME Hears \in Protocols, NEW c, Listening(c), NEW e, e.t = FailsWith(Hears)
    PROVE  IF Hears = "chat" THEN Warned(ReadNext(c, e)) ELSE Heard(ReadNext(c, e), TRUE)
<1>1. ~c.over
  BY DEF Listening
<1>2. CASE Hears = "messages"
  <2>1. ReadNext(c, e) = ReadMessages(c, e)
    BY <1>1, <1>2, ReadNextIs
  <2> QED BY <1>2, <2>1, ListeningMessages DEF FailsWith
<1>3. CASE Hears = "responses"
  <2>1. ReadNext(c, e) = ReadResponses(c, e)
    BY <1>1, <1>3, ReadNextIs
  <2> QED BY <1>3, <2>1, ListeningResponses DEF FailsWith
<1>4. CASE Hears = "chat"
  <2>1. ReadNext(c, e) = ReadChat(c, e)
    BY <1>1, <1>4, ReadNextIs
  <2> QED BY <1>4, <2>1, ListeningChat DEF FailsWith
<1> QED BY <1>2, <1>3, <1>4 DEF Protocols

LEMMA ReadMarker ==
    ASSUME Hears = "chat", NEW c, Warned(c), NEW e, e.t = "[DONE]"
    PROVE  Heard(ReadNext(c, e), TRUE)
<1>1. ~c.over /\ Hears \in Protocols
  BY DEF Warned, Protocols
<1> QED BY <1>1, ReadNextIs, WarnedChat

\* What a client makes of the first events of a leg.
LEMMA ReadFront ==
    ASSUME Hears \in Protocols, NEW base, NEW seq, NEW last, NEW g, Path("ReadNext", base, seq, last, g),
           Len(seq) \in Nat, NEW m \in 0 .. Len(seq), \A n \in 1 .. m : seq[n].t \in Quiet(Hears), Listening(base)
    PROVE  Listening(g[m])
<1> DEFINE P == {n \in 0 .. m : Listening(g[n])}
<1>1. 0 \in P
  BY DEF Path
<1>2. \A n \in 1 .. m : n - 1 \in P => n \in P
  <2> SUFFICES ASSUME NEW n \in 1 .. m, Listening(g[n - 1]) PROVE Listening(g[n])
    OBVIOUS
  <2>1. g[n] = ReadNext(g[n - 1], seq[n])
    BY DEF Path, FoldStep
  <2> QED BY <2>1, ReadQuiet
<1>3. m \in P
  <2> HIDE DEF P
  <2> QED BY <1>1, <1>2, Along
<1> QED BY <1>3

LEMMA AppendEnds ==
    ASSUME NEW x, IsSeq(x), NEW e
    PROVE  /\ Len(x) \in Nat /\ Len(Append(x, e)) = Len(x) + 1 /\ Append(x, e)[Len(x) + 1] = e
           /\ \A n \in 1 .. Len(x) : Append(x, e)[n] = x[n]
BY DEF IsSeq

\* A client that is told what a leg wrote since it was last told.
LEMMA ReadTold ==
    ASSUME Hears \in Protocols, NEW c, Listening(c), NEW s, NEW fields, Told(s, fields, Hears)
    PROVE  LET after == AllReadNext(c, s.out)
           IN IF s.end = "" THEN Listening(after) ELSE \E failed \in BOOLEAN : Heard(after, failed) /\ (failed <=> s.end # "ok")
<1> DEFINE after == AllReadNext(c, s.out)
<1> HIDE DEF after
<1>1. ASSUME NEW front, Stream(front, Quiet(Hears)) PROVE IsSeq(front) /\ \A n \in 1 .. Len(front) : front[n].t \in Quiet(Hears)
  <2>1. IsSeq(front)
    BY <1>1 DEF Stream, IsSeq
  <2> QED BY <1>1, <2>1, StreamElements
<1>2. CASE Calm(s, fields, Hears)
  <2>1. s.end = "" /\ IsSeq(s.out) /\ \A n \in 1 .. Len(s.out) : s.out[n].t \in Quiet(Hears)
    BY <1>1, <1>2 DEF Calm
  <2>2. PICK g : Path("ReadNext", c, s.out, after, g)
    BY <2>1, FoldReadNext DEF after
  <2>6. Len(s.out) \in Nat
    BY <2>1, SeqDomain
  <2>3. Len(s.out) \in Nat /\ Len(s.out) \in 0 .. Len(s.out)
    BY <2>6
  <2>4. Listening(g[Len(s.out)])
    BY <2>1, <2>2, <2>3, ReadFront
  <2>5. Listening(after)
    BY <2>2, <2>4 DEF Path
  <2> QED BY <2>1, <2>5 DEF after
<1>3. CASE Won(s, fields, Hears)
  <2>1. PICK front, e : s.out = Append(front, e) /\ Stream(front, Quiet(Hears)) /\ e.t \in Ending(Hears)
    BY <1>3 DEF Won
  <2>2. IsSeq(front) /\ \A n \in 1 .. Len(front) : front[n].t \in Quiet(Hears)
    BY <1>1, <2>1
  <2>3. IsSeq(s.out)
    BY <2>1, <2>2, SeqAppend
  <2>4. PICK g : Path("ReadNext", c, s.out, after, g)
    BY <2>3, FoldReadNext DEF after
  <2>5. /\ Len(front) \in Nat /\ Len(s.out) = Len(front) + 1 /\ s.out[Len(front) + 1] = e
        /\ \A n \in 1 .. Len(front) : s.out[n] = front[n]
    BY <2>1, <2>2, AppendEnds
  <2>6. Listening(g[Len(front)])
    <3>1. Len(s.out) \in Nat /\ Len(front) \in 0 .. Len(s.out)
      BY <2>5
    <3>2. \A n \in 1 .. Len(front) : s.out[n].t \in Quiet(Hears)
      BY <2>2, <2>5
    <3> QED BY <2>4, <3>1, <3>2, ReadFront
  <2>7. after = ReadNext(g[Len(front)], e)
    BY <2>4, <2>5 DEF Path, FoldStep
  <2>8. Heard(after, FALSE)
    BY <2>1, <2>6, <2>7, ReadEnding
  <2> QED BY <1>3, <2>8 DEF Won, after
<1>4. CASE Lost(s, fields, Hears)
  <2>1. PICK front, e :
           /\ Stream(front, Quiet(Hears)) /\ e.t = FailsWith(Hears)
           /\ IF Hears = "chat" THEN \E d : d.t = "[DONE]" /\ s.out = Append(Append(front, e), d)
              ELSE s.out = Append(front, e)
    BY <1>4 DEF Lost, FailedOut
  <2>2. IsSeq(front) /\ \A n \in 1 .. Len(front) : front[n].t \in Quiet(Hears)
    BY <1>1, <2>1
  <2>3. IsSeq(Append(front, e))
    BY <2>2, SeqAppend
  <2>4. /\ Len(front) \in Nat /\ Len(Append(front, e)) = Len(front) + 1 /\ Append(front, e)[Len(front) + 1] = e
        /\ \A n \in 1 .. Len(front) : Append(front, e)[n] = front[n]
    BY <2>2, AppendEnds
  <2>5. CASE Hears # "chat"
    <3>1. s.out = Append(front, e)
      BY <2>1, <2>5
    <3>2. PICK g : Path("ReadNext", c, s.out, after, g)
      BY <2>3, <3>1, FoldReadNext DEF after
    <3>3. Listening(g[Len(front)])
      <4>1. Len(s.out) \in Nat /\ Len(front) \in 0 .. Len(s.out)
        BY <2>4, <3>1
      <4>2. \A n \in 1 .. Len(front) : s.out[n].t \in Quiet(Hears)
        BY <2>2, <2>4, <3>1
      <4> QED BY <3>2, <4>1, <4>2, ReadFront
    <3>4. after = ReadNext(g[Len(front)], e)
      BY <2>4, <3>1, <3>2 DEF Path, FoldStep
    <3>5. Heard(after, TRUE)
      BY <2>1, <2>5, <3>3, <3>4, ReadFailing
    <3> QED BY <1>4, <3>5 DEF Lost, after
  <2>6. CASE Hears = "chat"
    <3>1. PICK d : d.t = "[DONE]" /\ s.out = Append(Append(front, e), d)
      BY <2>1, <2>6
    <3> DEFINE f == Append(front, e)
               N == Len(front)
    <3> HIDE DEF f, N
    <3>2. Len(s.out) = Len(f) + 1 /\ s.out[Len(f) + 1] = d /\ \A n \in 1 .. Len(f) : s.out[n] = f[n]
      BY <2>3, <3>1, AppendEnds DEF f
    <3>3. N \in Nat /\ Len(f) = N + 1 /\ f[N + 1] = e /\ \A n \in 1 .. N : f[n] = front[n]
      BY <2>4 DEF f, N
    <3>4. Len(s.out) = N + 2 /\ s.out[N + 2] = d /\ s.out[N + 1] = e /\ \A n \in 1 .. N : s.out[n] = front[n]
      BY <3>2, <3>3
    <3>5. IsSeq(s.out)
      BY <2>3, <3>1, SeqAppend
    <3>6. PICK g : Path("ReadNext", c, s.out, after, g)
      BY <3>5, FoldReadNext DEF after
    <3>7. Listening(g[N])
      <4>1. Len(s.out) \in Nat /\ N \in 0 .. Len(s.out)
        BY <3>3, <3>4
      <4>2. \A n \in 1 .. N : s.out[n].t \in Quiet(Hears)
        BY <2>2, <3>4 DEF N
      <4> QED BY <3>6, <4>1, <4>2, ReadFront
    <3>8. g[N + 1] = ReadNext(g[N], e)
      BY <3>3, <3>4, <3>6 DEF Path, FoldStep
    <3>9. after = ReadNext(g[N + 1], d)
      <4>1. N + 2 \in 1 .. Len(s.out) /\ (N + 2) - 1 = N + 1
        BY <3>3, <3>4
      <4>2. after = g[N + 2] /\ g[N + 2] = FoldStep("ReadNext", g[(N + 2) - 1], s.out[N + 2])
        BY <3>4, <3>6, <4>1 DEF Path
      <4> QED BY <3>4, <4>1, <4>2 DEF FoldStep
    <3>10. Warned(g[N + 1])
      BY <2>1, <2>6, <3>7, <3>8, ReadFailing
    <3>11. Heard(after, TRUE)
      BY <2>6, <3>1, <3>9, <3>10, ReadMarker
    <3> QED BY <1>4, <3>11 DEF Lost, after
  <2> QED BY <2>5, <2>6
<1> QED BY <1>2, <1>3, <1>4 DEF Told

-----------------------------------------------------------------------------
(* Every leg *)
LegNames == {"CM", "CR", "MC", "RC", "OC", "GC", "DC", "KC", "KM"}

Fields(leg) ==
    CASE leg = "CM" -> CMFields [] leg = "CR" -> CRFields [] leg = "MC" -> MCFields [] leg = "RC" -> RCFields
      [] leg = "OC" -> OCFields [] leg = "GC" -> GCFields [] leg = "DC" -> DCFields [] OTHER -> GateFields

Tells(leg) == CASE leg \in {"CM", "KM"} -> "messages" [] leg = "CR" -> "responses" [] OTHER -> "chat"

\* The sequences that a leg keeps.
Kept(leg, s) ==
    /\ leg \in {"CM", "DC"} => IsSeq(s.calls)
    /\ leg = "CR" => IsSeq(s.items)
    /\ leg \in Gates => MachineOK(s.m)

\* The events a leg may be given.
Takes(leg, e) ==
    /\ leg \in {"CM", "CR"} => e.t \in ChatEvents
    /\ leg = "MC" => e.t \in MessagesEvents
    /\ leg = "RC" => e.t \in ResponsesEvents /\ IsSeq(e.output)
    /\ leg = "OC" => e.t \in OllamaEvents
    /\ leg = "GC" => e.t \in GeminiEvents
    /\ leg = "DC" => e.t \in CommandEvents

\* The events with which a leg may end well.
Completes(leg, s, e) ==
    /\ leg = "CM" => (e.t = "[DONE]" /\ s.started) \/ (e.t = "eof" /\ s.seen)
    /\ leg = "CR" => e.t = "[DONE]" /\ s.started
    /\ leg = "MC" => e.t = "message_stop"
    /\ leg = "RC" => e.t \in {"response.completed", "response.incomplete"}
    /\ leg = "OC" => e.t = "done"
    /\ leg = "GC" => e.t = "eof" /\ s.finish # ""
    /\ leg = "DC" => e.t = "finish"
    /\ leg \in Gates => e.t \in {"eof", "broken"} /\ GateVerdict(s.m, e) \in Finishes

\* What a leg makes of an event.
Made(leg, s, e, t) ==
    /\ Told(t, Fields(leg), Tells(leg))
    /\ t.end = "" => Kept(leg, t)
    /\ t.end = "ok" => Completes(leg, s, e)

LEMMA NewMachine == MachineOK(Machine0)
<1>1. IsSeq(<<>>)
  BY DEF IsSeq
<1> QED BY <1>1, StreamEmpty DEF MachineOK, Machine0, MachineFields

LEMMA GateMade ==
    ASSUME NEW leg, leg \in Gates, NEW s, DOMAIN s = GateFields, s.end = "", s.out = <<>>, MachineOK(s.m), NEW e, NEW t,
           GateStep(s, e, t, Tells(leg))
    PROVE  Made(leg, s, e, t)
<1>0. Fields(leg) = GateFields /\ leg \notin LegNames \ Gates
  BY DEF Fields, Gates, LegNames
<1>1. CASE Lost(t, GateFields, Tells(leg))
  BY <1>0, <1>1 DEF Made, Told, Lost
<1>2. CASE e.t \in {"eof", "broken"} /\ GateVerdict(s.m, e) \in Finishes /\ Won(t, GateFields, Tells(leg))
  <2>1. Completes(leg, s, e)
    BY <1>0, <1>2 DEF Completes, Gates, LegNames
  <2> QED BY <1>0, <1>2, <2>1 DEF Made, Told, Won
<1>3. ASSUME NEW m, MachineOK(m), t.m = m, t.out = <<>>, t.end = "", DOMAIN t = GateFields
      PROVE  Made(leg, s, e, t)
  <2>1. Calm(t, GateFields, Tells(leg))
    BY <1>3, StreamEmpty DEF Calm, GateFields
  <2>2. Kept(leg, t)
    BY <1>0, <1>3 DEF Kept, Gates, LegNames
  <2> QED BY <1>0, <1>3, <2>1, <2>2 DEF Made, Told
<1>4. CASE e.t \in FrameEvents /\ t = [s EXCEPT !.m = Handle(s.m, e)]
  <2> DEFINE m == Handle(s.m, e)
  <2>1. MachineOK(m)
    BY <1>4, MachineHandles
  <2> HIDE DEF m
  <2>2. t = [s EXCEPT !.m = m]
    BY <1>4 DEF m
  <2>3. t.m = m /\ t.out = <<>> /\ t.end = "" /\ DOMAIN t = GateFields
    BY <2>2 DEF GateFields
  <2> QED BY <1>3, <2>1, <2>3
<1>5. CASE e.t \in {"eof", "broken"} /\ t = Repeat(s)
  <2>1. t.m = Machine0 /\ t.out = <<>> /\ t.end = "" /\ DOMAIN t = GateFields
    BY <1>5 DEF GateFields, Repeat
  <2> QED BY <1>3, <2>1, NewMachine
<1> QED BY <1>1, <1>2, <1>4, <1>5 DEF GateStep

LEMMA LegMakes ==
    ASSUME NEW leg, leg \in LegNames, NEW s, DOMAIN s = Fields(leg), s.end = "", s.out = <<>>, Kept(leg, s),
           NEW e, Takes(leg, e)
    PROVE  Made(leg, s, e, Step(leg, s, e))
<1> DEFINE t == Step(leg, s, e)
<1>1. CASE leg = "CM"
  <2>1. t = ChatToMessages(s, e) /\ Fields(leg) = CMFields /\ Tells(leg) = "messages"
    BY <1>1 DEF Step, Fields, Tells
  <2>2. DOMAIN s = CMFields /\ IsSeq(s.calls) /\ e.t \in ChatEvents
    BY <1>1, <2>1 DEF Kept, Takes
  <2> HIDE DEF t
  <2>3. Told(t, CMFields, "messages")
    BY <2>1, <2>2, CMStep
  <2>4. t.end = "" => IsSeq(t.calls)
    BY <2>1, <2>2, CMStep
  <2>5. t.end = "ok" => (e.t = "[DONE]" /\ s.started) \/ (e.t = "eof" /\ s.seen)
    BY <2>1, <2>2, CMStep
  <2> QED BY <1>1, <2>1, <2>3, <2>4, <2>5 DEF t, Made, Kept, Completes, Gates
<1>2. CASE leg = "CR"
  <2>1. t = ChatToResponses(s, e) /\ Fields(leg) = CRFields /\ Tells(leg) = "responses"
    BY <1>2 DEF Step, Fields, Tells
  <2>2. DOMAIN s = CRFields /\ IsSeq(s.items) /\ e.t \in ChatEvents
    BY <1>2, <2>1 DEF Kept, Takes
  <2> HIDE DEF t
  <2>3. Told(t, CRFields, "responses")
    BY <2>1, <2>2, CRStep
  <2>4. t.end = "" => IsSeq(t.items)
    BY <2>1, <2>2, CRStep
  <2>5. t.end = "ok" => e.t = "[DONE]" /\ s.started
    BY <2>1, <2>2, CRStep
  <2> QED BY <1>2, <2>1, <2>3, <2>4, <2>5 DEF t, Made, Kept, Completes, Gates
<1>3. CASE leg = "MC"
  <2>1. t = MessagesToChat(s, e) /\ Fields(leg) = MCFields /\ Tells(leg) = "chat"
    BY <1>3 DEF Step, Fields, Tells
  <2>2. DOMAIN s = MCFields /\ e.t \in MessagesEvents
    BY <1>3, <2>1 DEF Takes
  <2> HIDE DEF t
  <2>3. ToChat(t, MCFields, e.t = "message_stop")
    BY <2>1, <2>2, MCStep
  <2> QED BY <1>3, <2>1, <2>3 DEF t, Made, Kept, Completes, Gates, ToChat
<1>4. CASE leg = "RC"
  <2>1. t = ResponsesToChat(s, e) /\ Fields(leg) = RCFields /\ Tells(leg) = "chat"
    BY <1>4 DEF Step, Fields, Tells
  <2>2. DOMAIN s = RCFields /\ e.t \in ResponsesEvents /\ IsSeq(e.output)
    BY <1>4, <2>1 DEF Takes
  <2> HIDE DEF t
  <2>3. ToChat(t, RCFields, e.t \in {"response.completed", "response.incomplete"})
    BY <2>1, <2>2, RCStep
  <2> QED BY <1>4, <2>1, <2>3 DEF t, Made, Kept, Completes, Gates, ToChat
<1>5. CASE leg = "OC"
  <2>1. t = OllamaToChat(s, e) /\ Fields(leg) = OCFields /\ Tells(leg) = "chat"
    BY <1>5 DEF Step, Fields, Tells
  <2>2. DOMAIN s = OCFields /\ e.t \in OllamaEvents
    BY <1>5, <2>1 DEF Takes
  <2> HIDE DEF t
  <2>3. ToChat(t, OCFields, e.t = "done")
    BY <2>1, <2>2, OCStep
  <2> QED BY <1>5, <2>1, <2>3 DEF t, Made, Kept, Completes, Gates, ToChat
<1>6. CASE leg = "GC"
  <2>1. t = GeminiToChat(s, e) /\ Fields(leg) = GCFields /\ Tells(leg) = "chat"
    BY <1>6 DEF Step, Fields, Tells
  <2>2. DOMAIN s = GCFields /\ e.t \in GeminiEvents
    BY <1>6, <2>1 DEF Takes
  <2> HIDE DEF t
  <2>3. ToChat(t, GCFields, e.t = "eof" /\ s.finish # "")
    BY <2>1, <2>2, GCStep
  <2> QED BY <1>6, <2>1, <2>3 DEF t, Made, Kept, Completes, Gates, ToChat
<1>7. CASE leg = "DC"
  <2>1. t = CommandToChat(s, e) /\ Fields(leg) = DCFields /\ Tells(leg) = "chat"
    BY <1>7 DEF Step, Fields, Tells
  <2>2. DOMAIN s = DCFields /\ IsSeq(s.calls) /\ e.t \in CommandEvents
    BY <1>7, <2>1 DEF Takes, Kept
  <2> HIDE DEF t
  <2>3. ToChat(t, DCFields, e.t = "finish") /\ (t.end = "" => IsSeq(t.calls))
    BY <2>1, <2>2, DCStep
  <2> QED BY <1>7, <2>1, <2>3 DEF t, Made, Kept, Completes, Gates, ToChat
<1>8. CASE leg \in Gates
  <2>1. Fields(leg) = GateFields
    BY <1>8 DEF Fields, Gates
  <2>2. DOMAIN s = GateFields /\ MachineOK(s.m)
    BY <1>8, <2>1 DEF Kept
  <2>3. GateStep(s, e, t, Tells(leg))
    <3>1. CASE leg = "KC"
      <4>1. t = KiroToChat(s, e) /\ Tells(leg) = "chat"
        BY <3>1 DEF Step, Tells
      <4> QED BY <2>2, <4>1, KCStep
    <3>2. CASE leg = "KM"
      <4>1. t = KiroToMessages(s, e) /\ Tells(leg) = "messages"
        BY <3>2 DEF Step, Tells
      <4> QED BY <2>2, <4>1, KMStep
    <3> QED BY <1>8, <3>1, <3>2 DEF Gates
  <2> HIDE DEF t
  <2>4. Made(leg, s, e, t)
    BY <1>8, <2>2, <2>3, GateMade
  <2> QED BY <2>4 DEF t
<1> QED BY <1>1, <1>2, <1>3, <1>4, <1>5, <1>6, <1>7, <1>8 DEF LegNames, Gates

-----------------------------------------------------------------------------
\* An answer goes through one leg, or through one that tells Chat and one that hears it.
LEMMA RouteOK ==
    ASSUME NEW r, r \in AllRoutes
    PROVE  \/ Len(r) = 1 /\ DOMAIN r = {1} /\ r[1] \in LegNames
           \/ /\ Len(r) = 2 /\ DOMAIN r = {1, 2} /\ r[1] \in LegNames \ {"CM", "CR", "KM"} /\ r[2] \in {"CM", "CR"}
              /\ Tells(r[1]) = "chat"
<1>1. CASE r \in {<<"CM">>, <<"CR">>, <<"KM">>} \cup {<<leg>> : leg \in {"MC", "RC", "OC", "GC", "DC", "KC"}}
  BY <1>1 DEF LegNames
<1>2. CASE r \in {<<leg, "CM">> : leg \in {"MC", "RC", "OC", "GC", "DC", "KC"} \ {"MC", "KC"}}
  <2>1. PICK leg \in {"RC", "OC", "GC", "DC"} : r = <<leg, "CM">>
    BY <1>2
  <2>2. Tells(leg) = "chat" /\ leg \in LegNames \ {"CM", "CR", "KM"}
    BY DEF Tells, LegNames
  <2> QED BY <2>1, <2>2
<1>3. CASE r \in {<<leg, "CR">> : leg \in {"MC", "RC", "OC", "GC", "DC", "KC"} \ {"RC"}}
  <2>1. PICK leg \in {"MC", "OC", "GC", "DC", "KC"} : r = <<leg, "CR">>
    BY <1>3
  <2>2. Tells(leg) = "chat" /\ leg \in LegNames \ {"CM", "CR", "KM"}
    BY DEF Tells, LegNames
  <2> QED BY <2>1, <2>2
<1> QED BY <1>1, <1>2, <1>3 DEF AllRoutes

LEMMA HearsIs ==
    ASSUME route[Len(route)] \in LegNames
    PROVE  Hears = Tells(route[Len(route)]) /\ Hears \in Protocols
<1>1. LegNames = {"CM", "CR", "KM"} \cup {"MC", "RC", "OC", "GC", "DC", "KC"}
  BY DEF LegNames
<1>2. Hears = Tells(route[Len(route)])
  BY <1>1, Zenon DEF Hears, Tells
<1> QED BY <1>2 DEF Tells, Protocols

-----------------------------------------------------------------------------
\* Adding at the end leaves the head.
Behind(x, f, d) ==
    /\ Head(Append(Append(x, f), d)) = Head(Append(x, f))
    /\ Tail(Append(Append(x, f), d)) = Append(Tail(Append(x, f)), d)

LEMMA TailAppend == ASSUME NEW x, IsSeq(x), NEW f, NEW d PROVE Behind(x, f, d)
<1>1. PICK S : x \in Seq(S)
  BY DEF IsSeq
<1> DEFINE y == Append(x, f)
<1>2. y \in Seq(S \cup {f, d}) /\ y # <<>>
  BY <1>1
<1> HIDE DEF y
<1>3. Head(Append(y, d)) = Head(y) /\ Tail(Append(y, d)) = Append(Tail(y), d)
  BY <1>2
<1> QED BY <1>3 DEF Behind, y

\* What the second leg reads of the first.
LEMMA HandHead ==
    ASSUME NEW s, NEW fields, {"out", "end"} \subseteq fields, Told(s, fields, "chat"), s.out # <<>>
    PROVE  LET e == Head(s.out)
           IN /\ e.t \in Quiet("chat") \cup {"[DONE]", "error"}
              /\ e.t = "[DONE]" => s.end = "ok" /\ Tail(s.out) = <<>>
              /\ e.t \in Quiet("chat") => Told([s EXCEPT !.out = Tail(@)], fields, "chat")
<1> DEFINE e == Head(s.out)
           r == [s EXCEPT !.out = Tail(@)]
<1>0. e.t \in Quiet("chat") => e.t \notin {"[DONE]", "error"}
  BY QuietChat
<1>1. CASE Calm(s, fields, "chat")
  <2>1. e.t \in Quiet("chat") /\ Stream(Tail(s.out), Quiet("chat"))
    BY <1>1, StreamTail DEF Calm
  <2>2. Calm(r, fields, "chat")
    BY <1>1, <2>1 DEF Calm
  <2> QED BY <1>0, <2>1, <2>2 DEF Told
<1>2. ASSUME NEW front, Stream(front, Quiet("chat")), NEW d
      PROVE  /\ front = <<>> => Head(Append(front, d)) = d /\ Tail(Append(front, d)) = <<>>
             /\ front # <<>> => /\ Head(Append(front, d)) = Head(front) /\ Head(front).t \in Quiet("chat")
                                /\ Tail(Append(front, d)) = Append(Tail(front), d)
                                /\ Stream(Tail(front), Quiet("chat"))
  <2>1. PICK S : front \in Seq(S)
    BY <1>2 DEF Stream
  <2>2. CASE front = <<>>
    BY <2>2
  <2>3. CASE front # <<>>
    <3>1. Head(front).t \in Quiet("chat") /\ Stream(Tail(front), Quiet("chat"))
      BY <1>2, <2>3, StreamTail
    <3>2. front \in Seq(S \cup {d})
      BY <2>1
    <3> QED BY <2>3, <3>1, <3>2
  <2> QED BY <2>2, <2>3
<1>3. CASE Won(s, fields, "chat")
  <2>1. PICK front, d : s.out = Append(front, d) /\ Stream(front, Quiet("chat")) /\ d.t \in Ending("chat")
    BY <1>3 DEF Won
  <2>2. d.t = "[DONE]" /\ s.end = "ok" /\ DOMAIN s = fields
    BY <1>3, <2>1 DEF Ending, Won
  <2>3. CASE front = <<>>
    <3>1. e = d /\ Tail(s.out) = <<>>
      BY <1>2, <2>1, <2>3
    <3> QED BY <1>0, <2>2, <3>1
  <2>4. CASE front # <<>>
    <3>1. e.t \in Quiet("chat") /\ Tail(s.out) = Append(Tail(front), d) /\ Stream(Tail(front), Quiet("chat"))
      BY <1>2, <2>1, <2>4
    <3>2. r.out = Append(Tail(front), d) /\ r.end = "ok" /\ DOMAIN r = fields
      BY <1>3, <2>2, <3>1 DEF Won
    <3> HIDE DEF r
    <3>3. Won(r, fields, "chat")
      BY <2>1, <3>1, <3>2 DEF Won
    <3> QED BY <1>0, <3>1, <3>3 DEF Told, r
  <2> QED BY <2>3, <2>4
<1>4. CASE Lost(s, fields, "chat")
  <2>6. FailedOut(s.out, "chat")
    BY <1>4 DEF Lost
  <2>7. PICK front, f : Stream(front, Quiet("chat")) /\ f.t = "error" /\ \E d : d.t = "[DONE]" /\ s.out = Append(Append(front, f), d)
    BY <2>6, Zenon DEF FailedOut, FailsWith
  <2>1. PICK d : Stream(front, Quiet("chat")) /\ f.t = "error" /\ d.t = "[DONE]" /\ s.out = Append(Append(front, f), d)
    BY <2>7
  <2>2. s.end \notin {"", "ok"} /\ DOMAIN s = fields
    BY <1>4 DEF Lost
  <2>3. /\ Head(Append(Append(front, f), d)) = Head(Append(front, f))
        /\ Tail(Append(Append(front, f), d)) = Append(Tail(Append(front, f)), d)
    <3>1. IsSeq(front)
      BY <2>1 DEF Stream, IsSeq
    <3>2. Behind(front, f, d)
      BY <3>1, TailAppend
    <3> QED BY <3>2, Zenon DEF Behind
  <2>4. CASE front = <<>>
    <3>1. e = f
      BY <1>2, <2>1, <2>3, <2>4
    <3> QED BY <1>0, <2>1, <3>1
  <2>5. CASE front # <<>>
    <3>1. e.t \in Quiet("chat") /\ Tail(s.out) = Append(Append(Tail(front), f), d) /\ Stream(Tail(front), Quiet("chat"))
      BY <1>2, <2>1, <2>3, <2>5
    <3> DEFINE tail == Tail(s.out)
    <3>5. tail = Append(Append(Tail(front), f), d)
      BY <3>1
    <3> HIDE DEF tail
    <3>6. r = [s EXCEPT !.out = tail]
      BY DEF tail
    <3>7. r.out = tail /\ r.end = s.end /\ DOMAIN r = fields
      BY <2>2, <3>6
    <3>2. r.out = Append(Append(Tail(front), f), d) /\ r.end = s.end /\ DOMAIN r = fields
      BY <3>5, <3>7
    <3> HIDE DEF r
    <3>3. FailedOut(r.out, "chat")
      BY <2>1, <3>1, <3>2 DEF FailedOut, FailsWith
    <3>4. Lost(r, fields, "chat")
      BY <2>2, <3>2, <3>3 DEF Lost
    <3> QED BY <1>0, <3>1, <3>4 DEF Told, r
  <2> QED BY <2>4, <2>5
<1> QED BY <1>1, <1>3, <1>4 DEF Told

-----------------------------------------------------------------------------
(* The inductive invariant of Translation *)
\* What the tools that Kiro's machine holds have of those the provider told.
ToolKind(tool) == IF tool.bad THEN "bad" ELSE IF tool.kind = "" THEN "none" ELSE "function"
ToolTold(tool, told) ==
    /\ DOMAIN tool = {"i", "kind", "p", "bad"} /\ tool.bad \in BOOLEAN
    /\ tool.kind \in {"", IF tool.i = 0 THEN "string" ELSE "object"}
    /\ tool.i # 0 => ~tool.bad
    /\ \E j \in DOMAIN told : told[j].key = <<"call", tool.i>>
    /\ \A j \in DOMAIN told : told[j].key = <<"call", tool.i>> => told[j].k = ToolKind(tool)

ToolsTold(tools, told) ==
    /\ \A n \in DOMAIN tools : ToolTold(tools[n], told)
    /\ \A n, m \in DOMAIN tools : tools[n].i = tools[m].i => n = m
    /\ \A i \in {0, 1} : (\E j \in DOMAIN told : told[j].key = <<"call", i>>) => \E n \in DOMAIN tools : tools[n].i = i
    /\ IsSeq(tools) /\ IsSeq(told) /\ \A j \in DOMAIN told : {"key", "k"} \subseteq DOMAIN told[j]

\* And its stop reason of those.
StopTold(stop, stops) ==
    /\ stop \in {"", "end_turn", "tool_use", "max_tokens"} \cup Failures
    /\ \A f \in Failures : f \in stops <=> stop = f

KiroLinked(s, told, up) ==
    /\ s.out = <<>>
    /\ IF s.asks THEN s.m = Machine0 /\ up.ended
       ELSE StopTold(s.m.stop, up.stops) /\ ToolsTold(s.m.tools, told)

\* What the first leg knows of the provider's stream while it reads it.
Linked ==
    LET s == legs[1]
    IN /\ route[1] \in {"CM", "CR"} => (s.started => upstream.started)
       /\ route[1] = "CM" => (s.seen => upstream.finished)
       /\ route[1] = "GC" => (s.finish # "" => upstream.finished)
       /\ route[1] = "RC" => IsSeq(said)
       /\ route[1] \in Gates => KiroLinked(s, said, upstream)

UpstreamFields == {"started", "reasoned", "finished", "ended", "pieces", "u", "stops"}

Frame ==
    /\ route \in Routes /\ DOMAIN legs = DOMAIN route /\ DOMAIN upstream = UpstreamFields
    /\ \A n \in DOMAIN route : DOMAIN legs[n] = Fields(route[n]) /\ (legs[n].end = "" => Kept(route[n], legs[n]))

\* The client that is there was told all that the last leg wrote, or will be.
Shown ==
    LET s == legs[LastLeg]
    IN IF s.end # "" /\ s.out = <<>>
       THEN \E failed \in BOOLEAN : Heard(client, failed) /\ (failed <=> s.end # "ok")
       ELSE Listening(client) /\ Told(s, Fields(route[LastLeg]), Tells(route[LastLeg]))

\* And so was the second leg by the first.
Handed ==
    Chained => /\ legs[2].end = "" => Told(legs[1], Fields(route[1]), "chat")
               /\ legs[2].end = "ok" => legs[1].end = "ok" /\ legs[1].out = <<>>

Finality ==
    /\ stopped => Chained /\ legs[2].end # ""
    /\ result # "" => (\A n \in DOMAIN route : Returned(n)) /\ (result = "ok" <=> legs[LastLeg].end = "ok")

TranslationInv ==
    /\ Frame
    /\ legs[1].end = "" => Linked
    /\ legs[1].end = "ok" => upstream.finished
    /\ Complete(client) => upstream.finished
    /\ present => Shown /\ Handed /\ Finality

\* Whoever wrote an ending has something to write.
LEMMA ToldShape ==
    ASSUME NEW s, NEW fields, NEW protocol, Told(s, fields, protocol)
    PROVE  DOMAIN s = fields /\ (s.end # "" => s.out # <<>>)
<1>1. \A x, e : Stream(x, Quiet(protocol)) => Append(x, e) # <<>>
  <2> SUFFICES ASSUME NEW x, NEW e, Stream(x, Quiet(protocol)) PROVE Append(x, e) # <<>>
    OBVIOUS
  <2>1. IsSeq(x)
    BY DEF Stream, IsSeq
  <2>2. Len(x) \in Nat /\ Len(Append(x, e)) = Len(x) + 1
    BY <2>1, AppendEnds
  <2> QED BY <2>2
<1>2. CASE Calm(s, fields, protocol)
  BY <1>2 DEF Calm
<1>3. CASE Won(s, fields, protocol)
  BY <1>1, <1>3 DEF Won
<1>4. CASE Lost(s, fields, protocol)
  <2>1. DOMAIN s = fields
    BY <1>4 DEF Lost
  <2>2. PICK front, e :
           /\ Stream(front, Quiet(protocol))
           /\ (\E d : s.out = Append(Append(front, e), d)) \/ s.out = Append(front, e)
    <3>1. FailedOut(s.out, protocol)
      BY <1>4 DEF Lost
    <3> QED BY <3>1, Zenon DEF FailedOut
  <2>3. CASE s.out = Append(front, e)
    BY <1>1, <2>1, <2>2, <2>3
  <2>4. CASE \E d : s.out = Append(Append(front, e), d)
    <3>1. PICK d : s.out = Append(Append(front, e), d)
      BY <2>4
    <3>2. IsSeq(front)
      BY <2>2 DEF Stream, IsSeq
    <3>3. IsSeq(Append(front, e))
      BY <3>2, SeqAppend
    <3>4. Len(Append(front, e)) \in Nat /\ Len(s.out) = Len(Append(front, e)) + 1
      BY <3>1, <3>3, AppendEnds
    <3>5. s.out # <<>>
      BY <3>4
    <3> QED BY <2>1, <3>5
  <2> QED BY <2>2, <2>3, <2>4
<1> QED BY <1>2, <1>3, <1>4 DEF Told

LEMMA InvRoute ==
    ASSUME Frame
    PROVE  /\ \/ Len(route) = 1 /\ DOMAIN route = {1} /\ route[1] \in LegNames
              \/ /\ Len(route) = 2 /\ DOMAIN route = {1, 2} /\ route[1] \in LegNames \ {"CM", "CR", "KM"}
                 /\ route[2] \in {"CM", "CR"} /\ Tells(route[1]) = "chat"
           /\ route[1] \in LegNames /\ route[Len(route)] \in LegNames
           /\ DOMAIN legs = DOMAIN route /\ 1 \in DOMAIN legs /\ Len(route) \in DOMAIN legs
<1>1. route \in AllRoutes
  BY TranslationAssumption DEF Frame
<1>2. {"CM", "CR"} \subseteq LegNames
  BY DEF LegNames
<1> QED BY <1>1, <1>2, RouteOK DEF Frame

LEMMA FieldsHave == ASSUME NEW leg PROVE {"out", "end"} \subseteq Fields(leg)
BY DEF Fields, CMFields, CRFields, MCFields, RCFields, OCFields, GCFields, DCFields, GateFields

\* While the first leg reads for a client that is there, the client hears on.
LEMMA StillListening ==
    ASSUME TranslationInv, present, legs[1].end = ""
    PROVE  /\ ~Complete(client) /\ result = "" /\ legs[LastLeg].end # "ok"
           /\ Len(route) = 1 => Listening(client)
           /\ Chained => legs[2].end # "ok"
<1>0. Frame
  BY DEF TranslationInv
<1>1. /\ Len(route) = 1 \/ (Len(route) = 2 /\ Chained)
      /\ DOMAIN legs = DOMAIN route /\ 1 \in DOMAIN route
  <2>1. (Len(route) = 1 /\ DOMAIN route = {1}) \/ (Len(route) = 2 /\ DOMAIN route = {1, 2})
    BY <1>0, InvRoute
  <2>2. DOMAIN legs = DOMAIN route
    BY <1>0, InvRoute
  <2>3. Len(route) = 2 => Chained
    BY DEF Chained, LastLeg
  <2> QED BY <2>1, <2>2, <2>3
<1>2. Chained => legs[2].end # "ok"
  BY DEF TranslationInv, Handed
<1>3. result = ""
  BY <1>1 DEF TranslationInv, Finality, Returned
<1>4. legs[LastLeg].end # "ok"
  BY <1>1, <1>2 DEF LastLeg, Chained
<1>5. ~Complete(client)
  BY <1>4 DEF TranslationInv, Shown, Heard, Listening, Complete
<1>6. Len(route) = 1 => Listening(client)
  BY DEF TranslationInv, Shown, LastLeg
<1> QED BY <1>2, <1>3, <1>4, <1>5, <1>6

-----------------------------------------------------------------------------
\* An event the first leg reads, with what the provider's stream becomes.
Given(e) ==
    /\ Reads(e) /\ Takes(route[1], e) /\ DOMAIN upstream' = UpstreamFields
    /\ legs'[1].end = "" => Linked'
    /\ Completes(route[1], legs[1], e) => upstream'.finished

\* The first leg becomes t, and the provider's stream goes on to match.
Moves(t) ==
    /\ present /\ legs[1].end = "" /\ legs' = [legs EXCEPT ![1] = t]
    /\ UNCHANGED <<route, client, present, stopped, result>>
    /\ Told(t, Fields(route[1]), Tells(route[1])) /\ (t.end = "" => Kept(route[1], t))
    /\ DOMAIN upstream' = UpstreamFields
    /\ t.end = "" => Linked'
    /\ t.end = "ok" => upstream'.finished

LEMMA FirstMoves == ASSUME TranslationInv, NEW t, Moves(t) PROVE TranslationInv'
<1> DEFINE leg == route[1]
           s == legs[1]
<1>1. /\ s.end = "" /\ present /\ legs' = [legs EXCEPT ![1] = t]
      /\ UNCHANGED <<route, client, present, stopped, result>>
  BY DEF Moves
<1>2. /\ \/ Len(route) = 1 /\ DOMAIN route = {1} /\ route[1] \in LegNames
         \/ /\ Len(route) = 2 /\ DOMAIN route = {1, 2} /\ route[1] \in LegNames
            /\ route[2] \in {"CM", "CR"} /\ Tells(route[1]) = "chat"
      /\ leg \in LegNames /\ DOMAIN legs = DOMAIN route /\ 1 \in DOMAIN legs
  BY InvRoute DEF TranslationInv
<1>5. legs'[1] = t /\ DOMAIN legs' = DOMAIN legs /\ \A n \in DOMAIN legs : n # 1 => legs'[n] = legs[n]
  BY <1>1, <1>2
<1>16. Len(route) = 2 => /\ legs'[2] = legs[2] /\ LastLeg = 2 /\ LastLeg' = 2 /\ Chained
                         /\ Tells(leg) = "chat" /\ route' = route /\ client' = client
  <2> SUFFICES ASSUME Len(route) = 2
               PROVE  /\ legs'[2] = legs[2] /\ LastLeg = 2 /\ LastLeg' = 2 /\ Chained
                      /\ Tells(leg) = "chat" /\ route' = route /\ client' = client
    OBVIOUS
  <2>1. DOMAIN route = {1, 2} /\ Tells(leg) = "chat"
    BY <1>2
  <2>2. legs'[2] = legs[2]
    BY <1>2, <1>5, <2>1
  <2>3. route' = route /\ client' = client
    BY <1>1
  <2>4. LastLeg = 2 /\ Chained
    BY DEF LastLeg, Chained
  <2>5. LastLeg' = 2
    BY <2>3 DEF LastLeg
  <2> QED BY <2>1, <2>2, <2>3, <2>4, <2>5
<1>6. Told(t, Fields(leg), Tells(leg)) /\ (t.end = "" => Kept(leg, t)) /\ (t.end = "ok" => upstream'.finished)
  BY DEF Moves
<1>7. DOMAIN t = Fields(leg) /\ (t.end # "" => t.out # <<>>)
  BY <1>6, ToldShape
<1>8. Frame'
  <2>1. \A n \in DOMAIN route : DOMAIN legs'[n] = Fields(route[n]) /\ (legs'[n].end = "" => Kept(route[n], legs'[n]))
    BY <1>2, <1>5, <1>6, <1>7 DEF TranslationInv, Frame
  <2>2. DOMAIN upstream' = UpstreamFields
    BY DEF Moves
  <2> QED BY <1>1, <1>2, <1>5, <2>1, <2>2 DEF TranslationInv, Frame
<1>9. legs'[1].end = "" => Linked'
  BY <1>5 DEF Moves
<1>10. legs'[1].end = "ok" => upstream'.finished
  BY <1>5, <1>6
<1>11. ~Complete(client) /\ result = "" /\ (Len(route) = 1 => Listening(client)) /\ (Chained => legs[2].end # "ok")
  BY <1>1, StillListening
<1>12. Shown'
  <2>1. CASE Len(route) = 1
    <3>1. Listening(client') /\ LastLeg' = 1 /\ route' = route
      BY <1>1, <1>11, <2>1 DEF LastLeg
    <3> QED BY <1>5, <1>6, <1>7, <3>1 DEF Shown
  <2>2. CASE Len(route) = 2
    <3>1. legs'[2] = legs[2] /\ client' = client /\ LastLeg = 2 /\ LastLeg' = 2 /\ route' = route
      BY <1>16, <2>2
    <3>2. Shown
      BY <1>1 DEF TranslationInv
    <3> QED BY <3>1, <3>2 DEF Shown
  <2> QED BY <1>2, <2>1, <2>2
<1>13. Handed'
  <2>1. CASE Len(route) = 2
    <3>1. legs'[2] = legs[2] /\ route' = route
      BY <1>16, <2>1
    <3>2. legs[2].end # "ok" /\ Tells(leg) = "chat"
      BY <1>11, <1>16, <2>1
    <3> QED BY <1>5, <1>6, <3>1, <3>2 DEF Handed
  <2>2. CASE Len(route) = 1
    <3>1. route' = route
      BY <1>1
    <3>2. ~Chained'
      BY <2>2, <3>1 DEF Chained, LastLeg
    <3> QED BY <3>2 DEF Handed
  <2> QED BY <1>2, <2>1, <2>2
<1>14. Finality'
  <2>1. result' = "" /\ stopped' = stopped
    BY <1>1, <1>11
  <2>2. stopped => Chained /\ legs[2].end # ""
    BY <1>1 DEF TranslationInv, Finality
  <2>3. stopped => Chained' /\ legs'[2].end # ""
    <3>1. Chained => Len(route) = 2
      BY DEF Chained, LastLeg
    <3>2. Len(route) = 2 => legs'[2] = legs[2] /\ Chained'
      BY <1>16 DEF Chained
    <3> QED BY <2>2, <3>1, <3>2
  <2> QED BY <2>1, <2>3 DEF Finality
<1>15. ~Complete(client')
  BY <1>1, <1>11
<1> QED BY <1>8, <1>9, <1>10, <1>12, <1>13, <1>14, <1>15 DEF TranslationInv

LEMMA GivenKeeps == ASSUME TranslationInv, NEW e, Given(e) PROVE TranslationInv'
<1> DEFINE leg == route[1]
           s == legs[1]
           t == Step(leg, s, e)
<1>1. /\ s.end = "" /\ s.out = <<>> /\ present /\ legs' = [legs EXCEPT ![1] = t]
      /\ UNCHANGED <<route, client, present, stopped, result>>
  BY DEF Given, Reads, Working
<1>2. leg \in LegNames /\ DOMAIN legs = DOMAIN route /\ 1 \in DOMAIN legs
  BY InvRoute DEF TranslationInv
<1>3. DOMAIN s = Fields(leg) /\ Kept(leg, s)
  BY <1>1, <1>2 DEF TranslationInv, Frame
<1>4. Made(leg, s, e, t)
  BY <1>1, <1>2, <1>3, LegMakes DEF Given
<1> HIDE DEF t
<1>5. legs'[1] = t
  BY <1>1, <1>2
<1>6. Told(t, Fields(leg), Tells(leg)) /\ (t.end = "" => Kept(leg, t)) /\ (t.end = "ok" => upstream'.finished)
  BY <1>4 DEF Made, Given
<1>7. DOMAIN upstream' = UpstreamFields /\ (t.end = "" => Linked')
  BY <1>5 DEF Given
<1>8. Moves(t)
  BY <1>1, <1>6, <1>7 DEF Moves
<1> QED BY <1>8, FirstMoves

-----------------------------------------------------------------------------
(* The steps of the legs keep it *)
\* What the first leg knows stays so while it is not written or is written out.
LEMMA LinkedStays ==
    ASSUME Frame, Linked, UNCHANGED <<route, said, upstream>>, NEW x,
           legs'[1] = legs[1] \/ (legs'[1] = [legs[1] EXCEPT !.out = x] /\ (x = <<>> \/ route[1] \notin Gates))
    PROVE  Linked'
<1>1. DOMAIN legs[1] = Fields(route[1])
  BY InvRoute DEF Frame
<1>2. \A f \in Fields(route[1]) : f # "out" => legs'[1][f] = legs[1][f]
  BY <1>1
<1>3. route[1] \in Gates /\ legs[1].out = <<>> => legs'[1].out = <<>>
  BY <1>1, FieldsHave
<1>4. route' = route /\ said' = said /\ upstream' = upstream
  OBVIOUS
<1>5. CASE route[1] \in Gates
  <2>1. {"asks", "m"} \subseteq Fields(route[1])
    BY <1>5 DEF Gates, Fields, GateFields
  <2>2. legs'[1].asks = legs[1].asks /\ legs'[1].m = legs[1].m
    BY <1>2, <2>1
  <2>3. KiroLinked(legs[1], said, upstream)
    BY <1>5 DEF Linked
  <2>4. legs'[1].out = <<>>
    BY <1>3, <1>5, <2>3 DEF KiroLinked
  <2>5. KiroLinked(legs'[1], said', upstream')
    BY <1>4, <2>2, <2>3, <2>4 DEF KiroLinked
  <2> QED BY <1>4, <1>5, <2>5 DEF Linked, Gates
<1>6. CASE route[1] \notin Gates
  <2>1. route[1] \in {"CM", "CR"} => legs'[1].started = legs[1].started
    BY <1>2 DEF Fields, CMFields, CRFields
  <2>2. route[1] = "CM" => legs'[1].seen = legs[1].seen
    BY <1>2 DEF Fields, CMFields
  <2>3. route[1] = "GC" => legs'[1].finish = legs[1].finish
    BY <1>2 DEF Fields, GCFields
  <2> QED BY <1>4, <1>6, <2>1, <2>2, <2>3 DEF Linked
<1> QED BY <1>5, <1>6

LEMMA KeptOut ==
    ASSUME NEW leg, NEW s, Kept(leg, s), NEW x
    PROVE  Kept(leg, [s EXCEPT !.out = x])
BY DEF Kept

\* A leg whose write failed has ended, not well, and has no more to write.
LEMMA UnwrittenEnds ==
    ASSUME NEW n \in DOMAIN legs, {"out", "end"} \subseteq DOMAIN legs[n], NEW why, why \notin {"", "ok"}, Unwritten(n, why)
    PROVE  /\ DOMAIN legs' = DOMAIN legs /\ DOMAIN legs'[n] = DOMAIN legs[n]
           /\ legs'[n].out = <<>> /\ legs'[n].end \notin {"", "ok"}
           /\ \A m \in DOMAIN legs : m # n => legs'[m] = legs[m]
<1>1. PICK end \in Causes(n, why) : legs' = [legs EXCEPT ![n].out = <<>>, ![n].end = end]
  BY DEF Unwritten
<1>2. end \notin {"", "ok"}
  <2>1. CASE legs[n].end \in {"", "ok"}
    <3>1. Causes(n, why) = {why}
      BY <2>1 DEF Causes
    <3> QED BY <1>1, <3>1
  <2>2. CASE legs[n].end \notin {"", "ok"} /\ route[n] \in {"CR", "RC"}
    <3>1. Causes(n, why) = {why, legs[n].end}
      BY <2>2 DEF Causes
    <3> QED BY <1>1, <2>2, <3>1
  <2>3. CASE legs[n].end \notin {"", "ok"} /\ route[n] \notin {"CR", "RC"}
    <3>1. Causes(n, why) = {legs[n].end}
      BY <2>3 DEF Causes
    <3> QED BY <1>1, <2>3, <3>1
  <2> QED BY <2>1, <2>2, <2>3
<1> QED BY <1>1, <1>2

\* Nothing more is owed to a client that left.
LEMMA Absent ==
    ASSUME Frame', legs'[1].end = "" => Linked', legs'[1].end = "ok" => upstream'.finished,
           Complete(client') => upstream'.finished, ~present'
    PROVE  TranslationInv'
BY DEF TranslationInv

\* The shape stays when some legs become others of that shape.
LEMMA FrameStays ==
    ASSUME Frame, UNCHANGED <<route, upstream>>, DOMAIN legs' = DOMAIN legs,
           \A n \in DOMAIN legs : \/ legs'[n] = legs[n]
                                  \/ /\ DOMAIN legs'[n] = Fields(route[n])
                                     /\ legs'[n].end = "" => Kept(route[n], legs'[n])
    PROVE  Frame'
BY DEF Frame

\* What one or two legs mean for LastLeg and Chained.
LEMMA Shape ==
    ASSUME Frame
    PROVE  /\ LastLeg = Len(route) /\ LastLeg \in DOMAIN legs /\ 1 \in DOMAIN legs /\ DOMAIN legs = DOMAIN route
           /\ LastLeg = 1 \/ LastLeg = 2
           /\ Chained <=> LastLeg = 2
           /\ Chained => /\ DOMAIN route = {1, 2} /\ route[2] \in {"CM", "CR"} /\ Tells(route[1]) = "chat"
           /\ ~Chained => DOMAIN route = {1}
<1>1. LastLeg = Len(route) /\ (Chained <=> LastLeg = 2)
  BY DEF LastLeg, Chained
<1>2. \/ Len(route) = 1 /\ DOMAIN route = {1}
      \/ Len(route) = 2 /\ DOMAIN route = {1, 2} /\ route[2] \in {"CM", "CR"} /\ Tells(route[1]) = "chat"
  BY InvRoute
<1>3. DOMAIN legs = DOMAIN route
  BY DEF Frame
<1> QED BY <1>1, <1>2, <1>3

LEMMA LegFields ==
    ASSUME Frame, NEW n \in DOMAIN legs
    PROVE  DOMAIN legs[n] = Fields(route[n]) /\ {"out", "end"} \subseteq DOMAIN legs[n]
<1>1. DOMAIN legs[n] = Fields(route[n])
  BY DEF Frame
<1> QED BY <1>1, FieldsHave

\* A leg whose write fails after the client left.
LEMMA UnwrittenKeeps ==
    ASSUME TranslationInv, NEW n \in DOMAIN legs, NEW why, why \notin {"", "ok"}, Unwritten(n, why), ~present,
           UNCHANGED <<route, said, upstream, client, present>>
    PROVE  TranslationInv'
<1>1. Frame /\ DOMAIN legs[n] = Fields(route[n]) /\ {"out", "end"} \subseteq DOMAIN legs[n]
  BY LegFields DEF TranslationInv
<1>2. /\ DOMAIN legs' = DOMAIN legs /\ DOMAIN legs'[n] = DOMAIN legs[n]
      /\ legs'[n].out = <<>> /\ legs'[n].end \notin {"", "ok"}
      /\ \A m \in DOMAIN legs : m # n => legs'[m] = legs[m]
  BY <1>1, UnwrittenEnds
<1>3. Frame'
  BY <1>1, <1>2, FrameStays
<1>4. 1 \in DOMAIN legs
  BY <1>1, Shape
<1>5. legs'[1].end = "" => Linked'
  <2>1. legs'[1].end = "" => legs'[1] = legs[1]
    BY <1>2, <1>4
  <2>2. legs[1].end = "" => Linked
    BY DEF TranslationInv
  <2> QED BY <1>1, <2>1, <2>2, LinkedStays
<1>6. legs'[1].end = "ok" => upstream'.finished
  BY <1>2, <1>4 DEF TranslationInv
<1>7. Complete(client') => upstream'.finished
  BY DEF TranslationInv
<1> QED BY <1>3, <1>5, <1>6, <1>7, Absent

LEMMA WriteKeeps == ASSUME TranslationInv, WriteClient PROVE TranslationInv'
<1> DEFINE s == legs[LastLeg]
<1>1. Frame /\ LastLeg \in DOMAIN legs /\ DOMAIN s = Fields(route[LastLeg]) /\ {"out", "end"} \subseteq DOMAIN s
  BY LegFields, Shape DEF TranslationInv
<1>2. s.out # <<>> /\ UNCHANGED <<route, said, upstream, present, stopped, result>>
  BY DEF WriteClient, ToClient
<1>3. CASE ~present
  <2>1. Unwritten(LastLeg, "canceled") /\ client' = client
    BY <1>3 DEF WriteClient
  <2> QED BY <1>1, <1>2, <1>3, <2>1, UnwrittenKeeps
<1>4. CASE present
  <2> DEFINE t == [s EXCEPT !.out = <<>>]
  <2>1. legs' = [legs EXCEPT ![LastLeg] = t] /\ client' = AllReadNext(client, s.out)
    BY <1>4, Zenon DEF WriteClient, AllReadNext
  <2>2. /\ legs'[LastLeg] = t /\ DOMAIN legs' = DOMAIN legs /\ t.end = s.end /\ t.out = <<>> /\ DOMAIN t = DOMAIN s
        /\ \A n \in DOMAIN legs : n # LastLeg => legs'[n] = legs[n]
    BY <1>1, <2>1
  <2>3. Listening(client) /\ Told(s, Fields(route[LastLeg]), Tells(route[LastLeg]))
    BY <1>2, <1>4 DEF TranslationInv, Shown
  <2>4. Hears = Tells(route[LastLeg]) /\ Hears \in Protocols
    BY <1>1, InvRoute, HearsIs DEF LastLeg
  <2>5. IF s.end = "" THEN Listening(client') ELSE \E failed \in BOOLEAN : Heard(client', failed) /\ (failed <=> s.end # "ok")
    BY <2>1, <2>3, <2>4, ReadTold
  <2>6. s.end = "" => Told(t, Fields(route[LastLeg]), Tells(route[LastLeg]))
    <3>1. s.end = "" => Calm(t, Fields(route[LastLeg]), Tells(route[LastLeg]))
      BY <1>1, <2>2, StreamEmpty DEF Calm
    <3> QED BY <3>1 DEF Told
  <2>7. Kept(route[LastLeg], s) => Kept(route[LastLeg], t)
    BY KeptOut
  <2> HIDE DEF t
  <2>8. Frame'
    <3>1. s.end = "" => Kept(route[LastLeg], s)
      BY <1>1 DEF Frame
    <3>2. legs'[LastLeg].end = "" => Kept(route[LastLeg], legs'[LastLeg])
      BY <2>2, <2>7, <3>1
    <3> QED BY <1>1, <1>2, <2>2, <3>2, FrameStays
  <2>9. legs'[1].end = legs[1].end /\ (LastLeg = 2 => legs'[1] = legs[1])
    <3>1. LastLeg = 1 \/ (LastLeg = 2 /\ 1 \in DOMAIN legs)
      BY <1>1, Shape
    <3> QED BY <2>2, <3>1
  <2>10. legs'[1].end = "" => Linked'
    <3>1. legs[1].end = "" => Linked
      BY DEF TranslationInv
    <3>2. legs'[1] = legs[1] \/ legs'[1] = [legs[1] EXCEPT !.out = <<>>]
      <4>1. LastLeg = 1 \/ LastLeg = 2
        BY <1>1, Shape
      <4> QED BY <2>2, <2>9, <4>1 DEF t
    <3> QED BY <1>1, <1>2, <2>9, <3>1, <3>2, LinkedStays
  <2>11. legs'[1].end = "ok" => upstream'.finished
    BY <1>2, <2>9 DEF TranslationInv
  <2>12. s.end = "ok" => upstream.finished
    <3>1. LastLeg = 1 \/ (LastLeg = 2 /\ Chained)
      BY <1>1, Shape
    <3> QED BY <1>4, <3>1 DEF TranslationInv, Handed
  <2>13. Complete(client') => upstream'.finished
    BY <1>2, <2>5, <2>12 DEF Complete, Heard, Listening
  <2>14. Shown'
    <3>1. LastLeg' = LastLeg /\ route' = route
      BY <1>2 DEF LastLeg
    <3> QED BY <2>2, <2>5, <2>6, <3>1 DEF Shown
  <2>15. Handed'
    <3>1. CASE Chained
      <4>1. LastLeg = 2 /\ 2 \in DOMAIN legs
        BY <1>1, <3>1, Shape
      <4>2. legs'[2].end = legs[2].end /\ legs'[1] = legs[1] /\ route' = route
        BY <1>2, <2>2, <2>9, <4>1
      <4> QED BY <1>4, <3>1, <4>2 DEF TranslationInv, Handed
    <3>2. CASE ~Chained
      <4>1. ~Chained'
        BY <1>2, <3>2 DEF Chained, LastLeg
      <4> QED BY <4>1 DEF Handed
    <3> QED BY <3>1, <3>2
  <2>16. Finality'
    <3>1. result = ""
      BY <1>1, <1>2, <1>4, Shape DEF TranslationInv, Finality, Returned
    <3>2. stopped => Chained' /\ legs'[2].end # ""
      <4>1. stopped => Chained /\ legs[2].end # ""
        BY <1>4 DEF TranslationInv, Finality
      <4>2. Chained => LastLeg = 2 /\ Chained'
        BY <1>2 DEF Chained, LastLeg
      <4> QED BY <2>2, <4>1, <4>2
    <3> QED BY <1>2, <3>1, <3>2 DEF Finality
  <2> QED BY <2>8, <2>10, <2>11, <2>13, <2>14, <2>15, <2>16 DEF TranslationInv
<1> QED BY <1>3, <1>4

\* What the second leg makes of an event the first handed to it.
LEMMA SecondMakes ==
    ASSUME Frame, Chained, Working(2), NEW e, e.t \in ChatEvents
    PROVE  LET t == Step(route[2], legs[2], e)
           IN /\ Made(route[2], legs[2], e, t)
              /\ t.end = "" => e.t \notin {"[DONE]", "eof", "broken", "error"}
              /\ t.end = "ok" => e.t \in {"[DONE]", "eof"}
<1> DEFINE s == legs[2]
           t == Step(route[2], s, e)
<1>1. route[2] \in {"CM", "CR"} /\ 2 \in DOMAIN route
  BY Shape
<1>2. DOMAIN s = Fields(route[2]) /\ s.end = "" /\ s.out = <<>> /\ Kept(route[2], s)
  BY <1>1 DEF Frame, Working
<1>3. Takes(route[2], e) /\ route[2] \in LegNames
  BY <1>1 DEF Takes, LegNames
<1>4. Made(route[2], s, e, t)
  BY <1>2, <1>3, LegMakes
<1>5. CASE route[2] = "CM"
  <2>1. t = ChatToMessages(s, e) /\ DOMAIN s = CMFields /\ IsSeq(s.calls)
    BY <1>2, <1>5 DEF Step, Fields, Kept
  <2> HIDE DEF t
  <2>2. (t.end = "" => e.t \notin {"[DONE]", "eof", "broken", "error"}) /\ (t.end = "ok" => e.t \in {"[DONE]", "eof"})
    BY <1>2, <2>1, CMStep
  <2> QED BY <1>4, <2>2 DEF t
<1>6. CASE route[2] = "CR"
  <2>1. t = ChatToResponses(s, e) /\ DOMAIN s = CRFields /\ IsSeq(s.items)
    BY <1>2, <1>6 DEF Step, Fields, Kept
  <2> HIDE DEF t
  <2>2. (t.end = "" => e.t \notin {"[DONE]", "eof", "broken", "error"}) /\ (t.end = "ok" => e.t \in {"[DONE]", "eof"})
    BY <1>2, <2>1, CRStep
  <2> QED BY <1>4, <2>2 DEF t
<1> QED BY <1>1, <1>5, <1>6

LEMMA HandKeeps == ASSUME TranslationInv, Hand PROVE TranslationInv'
<1> DEFINE s == legs[1]
           r == Rest(s)
<1>1. /\ Chained /\ s.out # <<>> /\ present /\ Working(2)
      /\ UNCHANGED <<route, said, upstream, client, present, stopped, result>>
  BY DEF Hand
<1>2. /\ Frame /\ LastLeg = 2 /\ DOMAIN legs = {1, 2} /\ DOMAIN route = {1, 2}
      /\ route[2] \in {"CM", "CR"} /\ Tells(route[1]) = "chat"
  BY <1>1, Shape DEF TranslationInv
<1>3. DOMAIN s = Fields(route[1]) /\ {"out", "end"} \subseteq Fields(route[1]) /\ legs[2].end = "" /\ legs[2].out = <<>>
  BY <1>1, <1>2, LegFields DEF Working
<1>4. Told(s, Fields(route[1]), "chat")
  BY <1>1, <1>3 DEF TranslationInv, Handed
<1>5. PICK e \in Limited(Head(s.out)) : legs' = [legs EXCEPT ![1] = r, ![2] = Step(route[2], @, e)]
  BY DEF Hand
<1> DEFINE t == Step(route[2], legs[2], e)
<1>6. legs' = [legs EXCEPT ![1] = r, ![2] = t]
  BY <1>2, <1>5
<1>7. /\ Head(s.out).t \in Quiet("chat") \cup {"[DONE]", "error"}
      /\ Head(s.out).t = "[DONE]" => s.end = "ok" /\ Tail(s.out) = <<>>
      /\ Head(s.out).t \in Quiet("chat") => Told(r, Fields(route[1]), "chat")
  BY <1>1, <1>3, <1>4, HandHead DEF Rest
<1>8. e.t = "broken" \/ e = Head(s.out)
  BY <1>5, PlainType DEF Limited
<1>9. e.t \in ChatEvents /\ e.t # "eof"
  BY <1>7, <1>8, QuietChat DEF ChatEvents
<1>10. /\ Made(route[2], legs[2], e, t)
       /\ t.end = "" => e.t \notin {"[DONE]", "broken", "error"}
       /\ t.end = "ok" => e.t = "[DONE]"
  BY <1>1, <1>2, <1>9, SecondMakes
<1> HIDE DEF t
<1>11. r.end = s.end /\ DOMAIN r = DOMAIN s /\ r.out = Tail(s.out) /\ r = [s EXCEPT !.out = Tail(@)]
  BY <1>3 DEF Rest
<1>12. Kept(route[1], s) => Kept(route[1], r)
  BY KeptOut DEF Rest
<1> HIDE DEF r
<1>13. legs'[1] = r /\ legs'[2] = t /\ DOMAIN legs' = {1, 2}
  BY <1>2, <1>6
<1>14. DOMAIN t = Fields(route[2]) /\ (t.end # "" => t.out # <<>>) /\ Told(t, Fields(route[2]), Tells(route[2]))
  BY <1>10, ToldShape DEF Made
<1>15. Frame'
  <2>1. \A n \in DOMAIN legs : DOMAIN legs'[n] = Fields(route[n]) /\ (legs'[n].end = "" => Kept(route[n], legs'[n]))
    <3>1. DOMAIN r = Fields(route[1]) /\ (r.end = "" => Kept(route[1], r))
      BY <1>2, <1>3, <1>11, <1>12 DEF Frame
    <3>2. DOMAIN t = Fields(route[2]) /\ (t.end = "" => Kept(route[2], t))
      BY <1>10, <1>14 DEF Made
    <3> QED BY <1>2, <1>13, <3>1, <3>2
  <2>2. UNCHANGED <<route, upstream>> /\ DOMAIN legs' = DOMAIN legs
    BY <1>1, <1>2, <1>13
  <2> QED BY <1>2, <2>1, <2>2, FrameStays
<1>16. legs'[1].end = "" => Linked'
  <2> SUFFICES ASSUME s.end = "" PROVE Linked'
    BY <1>11, <1>13
  <2>1. Linked
    BY DEF TranslationInv
  <2>2. route[1] \notin Gates
    BY <1>1, <2>1 DEF Linked, KiroLinked
  <2>3. legs'[1] = [legs[1] EXCEPT !.out = Tail(s.out)]
    BY <1>11, <1>13
  <2> QED BY <1>1, <1>2, <2>1, <2>2, <2>3, LinkedStays
<1>17. legs'[1].end = "ok" => upstream'.finished
  BY <1>1, <1>11, <1>13 DEF TranslationInv
<1>18. Complete(client') => upstream'.finished
  BY <1>1 DEF TranslationInv
<1>19. route' = route /\ client' = client /\ LastLeg' = 2 /\ Chained'
  BY <1>1, <1>2 DEF LastLeg, Chained
<1>20. Shown'
  <2>1. Listening(client)
    BY <1>1, <1>2, <1>3 DEF TranslationInv, Shown
  <2> QED BY <1>13, <1>14, <1>19, <2>1 DEF Shown
<1>21. Handed'
  <2>1. t.end = "" => Told(r, Fields(route[1]), "chat")
    BY <1>7, <1>8, <1>10
  <2>2. t.end = "ok" => r.end = "ok" /\ r.out = <<>>
    BY <1>7, <1>8, <1>10, <1>11
  <2> QED BY <1>13, <1>19, <2>1, <2>2 DEF Handed
<1>22. Finality'
  <2>1. ~stopped /\ result = ""
    BY <1>1, <1>2, <1>3 DEF TranslationInv, Finality, Returned
  <2> QED BY <1>1, <2>1 DEF Finality
<1>23. TranslationInv'
  BY <1>15, <1>16, <1>17, <1>18, <1>20, <1>21, <1>22 DEF TranslationInv
<1> QED BY <1>23

LEMMA PipeEndsKeeps == ASSUME TranslationInv, PipeEnds PROVE TranslationInv'
<1> DEFINE e == Plain(IF legs[1].end \in {"ok", "cut"} THEN "eof" ELSE "broken")
           t == Step(route[2], legs[2], e)
<1>1. /\ Chained /\ legs[1].end # "" /\ legs[1].out = <<>> /\ Working(2)
      /\ UNCHANGED <<route, said, upstream, client, present, stopped, result>>
  BY DEF PipeEnds, Returned
<1>2. Frame /\ DOMAIN legs = {1, 2} /\ DOMAIN route = {1, 2}
  BY <1>1, Shape DEF TranslationInv
<1>3. legs' = [legs EXCEPT ![2] = t]
  BY DEF PipeEnds
<1>4. ~present
  <2>1. present => Told(legs[1], Fields(route[1]), "chat")
    BY <1>1 DEF TranslationInv, Handed, Working
  <2> QED BY <1>1, <2>1, ToldShape
<1>5. e.t \in ChatEvents
  BY PlainType DEF ChatEvents
<1> HIDE DEF e
<1>6. Made(route[2], legs[2], e, t)
  BY <1>1, <1>2, <1>5, SecondMakes
<1> HIDE DEF t
<1>7. DOMAIN t = Fields(route[2]) /\ (t.end = "" => Kept(route[2], t))
  BY <1>6, ToldShape DEF Made
<1>8. legs'[2] = t /\ legs'[1] = legs[1] /\ DOMAIN legs' = DOMAIN legs
  BY <1>2, <1>3
<1>9. Frame'
  BY <1>1, <1>2, <1>7, <1>8, FrameStays
<1>10. legs'[1].end = "ok" => upstream'.finished
  BY <1>1, <1>8 DEF TranslationInv
<1>11. Complete(client') => upstream'.finished
  BY <1>1 DEF TranslationInv
<1>12. legs'[1].end # "" /\ ~present'
  BY <1>1, <1>4, <1>8
<1> QED BY <1>9, <1>10, <1>11, <1>12, Absent

LEMMA PipeBreaksKeeps == ASSUME TranslationInv, PipeBreaks PROVE TranslationInv'
<1> DEFINE why == IF ~present THEN "canceled" ELSE IF legs[2].end = "ok" THEN "pipe" ELSE legs[2].end
<1>1. /\ Chained /\ legs[1].out # <<>> /\ (~present \/ (legs[2].end # "" /\ legs[2].out = <<>>)) /\ Unwritten(1, why)
      /\ UNCHANGED <<route, said, upstream, client, present, stopped, result>>
  BY DEF PipeBreaks, Returned
<1>2. /\ Frame /\ LastLeg = 2 /\ DOMAIN legs = {1, 2} /\ DOMAIN route = {1, 2}
      /\ {"out", "end"} \subseteq DOMAIN legs[1] /\ DOMAIN legs[1] = Fields(route[1])
  BY <1>1, Shape, LegFields DEF TranslationInv
<1>3. why \notin {"", "ok"}
  BY <1>1
<1> HIDE DEF why
<1>4. CASE ~present
  BY <1>1, <1>2, <1>3, <1>4, UnwrittenKeeps
<1>5. CASE present
  <2>1. legs[2].end # "ok" /\ legs[2].end # ""
    BY <1>1, <1>5 DEF TranslationInv, Handed
  <2>2. /\ DOMAIN legs' = DOMAIN legs /\ DOMAIN legs'[1] = DOMAIN legs[1]
        /\ legs'[1].out = <<>> /\ legs'[1].end \notin {"", "ok"} /\ legs'[2] = legs[2]
    <3>1. 1 \in DOMAIN legs /\ 2 \in DOMAIN legs
      BY <1>2
    <3>2. /\ DOMAIN legs' = DOMAIN legs /\ DOMAIN legs'[1] = DOMAIN legs[1]
          /\ legs'[1].out = <<>> /\ legs'[1].end \notin {"", "ok"}
          /\ \A m \in DOMAIN legs : m # 1 => legs'[m] = legs[m]
      BY <1>1, <1>2, <1>3, <3>1, UnwrittenEnds
    <3>3. 2 # 1
      OBVIOUS
    <3>4. legs'[2] = legs[2]
      BY <3>1, <3>2, <3>3, Zenon
    <3> QED BY <3>2, <3>4
  <2>3. Frame'
    BY <1>1, <1>2, <2>2, FrameStays
  <2>4. Chained' /\ LastLeg' = 2
    BY <1>1, <1>2 DEF Chained, LastLeg
  <2>5. Shown'
    BY <1>1, <1>2, <1>5, <2>2, <2>4 DEF TranslationInv, Shown
  <2>6. Handed'
    BY <2>1, <2>2 DEF Handed
  <2>7. result = ""
    BY <1>1, <1>2, <1>5 DEF TranslationInv, Finality, Returned
  <2>8. Finality'
    BY <1>1, <2>1, <2>2, <2>4, <2>7 DEF Finality
  <2>9. Complete(client') => upstream'.finished
    BY <1>1 DEF TranslationInv
  <2> QED BY <2>2, <2>3, <2>5, <2>6, <2>8, <2>9 DEF TranslationInv
<1> QED BY <1>4, <1>5

LEMMA ReadFailsKeeps == ASSUME TranslationInv, ReadFails PROVE TranslationInv'
<1> DEFINE t == Over(legs[1], IF present THEN "failed" ELSE "canceled")
<1>1. /\ legs[1].end = "" /\ legs[1].out = <<>> /\ (~present \/ stopped) /\ legs' = [legs EXCEPT ![1] = t]
      /\ UNCHANGED <<route, said, upstream, client, present, stopped, result>>
  BY DEF ReadFails, Working
<1>2. Frame /\ 1 \in DOMAIN legs /\ DOMAIN legs[1] = Fields(route[1]) /\ {"out", "end"} \subseteq DOMAIN legs[1]
  BY Shape, LegFields DEF TranslationInv
<1>3. DOMAIN t = DOMAIN legs[1] /\ t.end \notin {"", "ok"}
  BY <1>2 DEF Over
<1> HIDE DEF t
<1>4. legs'[1] = t /\ DOMAIN legs' = DOMAIN legs /\ \A n \in DOMAIN legs : n # 1 => legs'[n] = legs[n]
  BY <1>1, <1>2
<1>5. Frame'
  BY <1>1, <1>2, <1>3, <1>4, FrameStays
<1>6. Complete(client') => upstream'.finished
  BY <1>1 DEF TranslationInv
<1>7. CASE ~present
  BY <1>1, <1>3, <1>4, <1>5, <1>6, <1>7, Absent
<1>8. CASE present
  <2>1. Chained /\ legs[2].end # ""
    BY <1>1, <1>8 DEF TranslationInv, Finality
  <2>2. LastLeg = 2 /\ DOMAIN legs = {1, 2} /\ DOMAIN route = {1, 2}
    BY <1>2, <2>1, Shape
  <2>3. legs'[2] = legs[2]
    BY <1>4, <2>2
  <2>4. legs[2].end # "ok"
    BY <1>1, <1>8, <2>1 DEF TranslationInv, Handed
  <2>5. Chained' /\ LastLeg' = 2
    BY <1>1, <2>2 DEF Chained, LastLeg
  <2>6. Shown'
    BY <1>1, <1>8, <2>2, <2>3, <2>5 DEF TranslationInv, Shown
  <2>7. Handed'
    BY <2>1, <2>3, <2>4 DEF Handed
  <2>8. result = ""
    BY <1>1, <1>8, <2>2 DEF TranslationInv, Finality, Returned
  <2>9. Finality'
    BY <1>1, <2>1, <2>3, <2>5, <2>8 DEF Finality
  <2> QED BY <1>3, <1>4, <1>5, <1>6, <2>6, <2>7, <2>9 DEF TranslationInv
<1> QED BY <1>7, <1>8

LEMMA StopFirstKeeps == ASSUME TranslationInv, StopFirst PROVE TranslationInv'
<1>1. Chained /\ legs[2].end # "" /\ stopped' /\ UNCHANGED <<route, said, upstream, legs, client, present, result>>
  BY DEF StopFirst, Returned
<1>2. Frame' /\ (Linked => Linked')
  BY <1>1, LinkedStays DEF TranslationInv, Frame
<1>3. LastLeg' = LastLeg /\ Chained' /\ \A n : Returned(n)' <=> Returned(n)
  BY <1>1 DEF LastLeg, Chained, Returned
<1>4. (Shown => Shown') /\ (Handed => Handed')
  BY <1>1, <1>3 DEF Shown, Handed
<1>5. Finality => Finality'
  BY <1>1, <1>3 DEF Finality
<1> QED BY <1>1, <1>2, <1>4, <1>5 DEF TranslationInv

LEMMA ReturnsKeeps == ASSUME TranslationInv, Returns PROVE TranslationInv'
<1>1. /\ \A n \in DOMAIN route : Returned(n)
      /\ Chained => stopped
      /\ result' = IF Chained THEN ChainError(legs[2].end, legs[1].end) ELSE legs[1].end
      /\ UNCHANGED <<route, said, upstream, legs, client, present, stopped>>
  BY DEF Returns
<1>2. Frame' /\ (Linked => Linked')
  BY <1>1, LinkedStays DEF TranslationInv, Frame
<1>3. LastLeg' = LastLeg /\ (Chained <=> Chained') /\ \A n : Returned(n)' <=> Returned(n)
  BY <1>1 DEF LastLeg, Chained, Returned
<1>4. (Shown => Shown') /\ (Handed => Handed')
  BY <1>1, <1>3 DEF Shown, Handed
<1>5. present => Finality'
  <2> SUFFICES ASSUME present PROVE Finality'
    OBVIOUS
  <2>1. stopped => Chained /\ legs[2].end # ""
    BY DEF TranslationInv, Finality
  <2>2. result' = "ok" <=> legs[LastLeg].end = "ok"
    <3>1. CASE Chained
      <4>1. legs[2].end = "ok" => legs[1].end = "ok"
        BY <3>1 DEF TranslationInv, Handed
      <4>2. LastLeg = 2
        BY <3>1 DEF Chained
      <4> QED BY <1>1, <3>1, <4>1, <4>2 DEF ChainError
    <3>2. CASE ~Chained
      <4>1. LastLeg = 1
        BY <3>2, Shape DEF TranslationInv
      <4> QED BY <1>1, <3>2, <4>1
    <3> QED BY <3>1, <3>2
  <2> QED BY <1>1, <1>3, <2>1, <2>2 DEF Finality
<1> QED BY <1>1, <1>2, <1>4, <1>5 DEF TranslationInv

LEMMA ClientLeavesKeeps == ASSUME TranslationInv, ClientLeaves PROVE TranslationInv'
<1>1. ~present' /\ UNCHANGED <<route, said, upstream, legs, client, stopped, result>>
  BY DEF ClientLeaves
<1>2. Frame' /\ (Linked => Linked')
  BY <1>1, LinkedStays DEF TranslationInv, Frame
<1> QED BY <1>1, <1>2 DEF TranslationInv

LEMMA StutterKeeps == ASSUME TranslationInv, UNCHANGED answerVars PROVE TranslationInv'
<1>1. UNCHANGED <<route, said, upstream, legs, client, present, stopped, result>>
  BY DEF answerVars
<1>2. Frame' /\ (Linked => Linked')
  BY <1>1, LinkedStays DEF TranslationInv, Frame
<1>3. LastLeg' = LastLeg /\ (Chained <=> Chained') /\ \A n : Returned(n)' <=> Returned(n)
  BY <1>1 DEF LastLeg, Chained, Returned
<1>4. (Shown => Shown') /\ (Handed => Handed')
  BY <1>1, <1>3 DEF Shown, Handed
<1>5. Finality => Finality'
  BY <1>1, <1>3 DEF Finality
<1> QED BY <1>1, <1>2, <1>4, <1>5 DEF TranslationInv

LEMMA LegStepKeeps == ASSUME TranslationInv, LegStep PROVE TranslationInv'
BY WriteKeeps, HandKeeps, PipeBreaksKeeps, PipeEndsKeeps, ReadFailsKeeps, StopFirstKeeps, ReturnsKeeps DEF LegStep

-----------------------------------------------------------------------------
(* The steps of the provider keep it *)
\* The first leg for each wire.
LEMMA SpeaksIs ==
    ASSUME Frame
    PROVE  /\ route[1] \in LegNames
           /\ Speaks = "chat" => route[1] \in {"CM", "CR"}
           /\ Speaks = "messages" => route[1] = "MC"
           /\ Speaks = "responses" => route[1] = "RC"
           /\ Speaks = "ollama" => route[1] = "OC"
           /\ Speaks = "gemini" => route[1] = "GC"
           /\ Speaks = "commandcode" => route[1] = "DC"
           /\ Speaks = "kiro" => route[1] \in Gates
           /\ route[1] \in Gates => Speaks = "kiro"
<1>1. route[1] \in LegNames
  BY InvRoute
<1>2. Speaks = [CM |-> "chat", CR |-> "chat", MC |-> "messages", RC |-> "responses", OC |-> "ollama",
                GC |-> "gemini", DC |-> "commandcode", KC |-> "kiro", KM |-> "kiro"][route[1]]
  BY DEF Speaks
<1> QED BY <1>1, <1>2 DEF LegNames, Gates

LEMMA ReadsOf ==
    ASSUME TranslationInv, NEW e, Reads(e)
    PROVE  /\ Frame /\ Linked /\ present /\ ~upstream.ended /\ DOMAIN upstream = UpstreamFields
           /\ DOMAIN legs[1] = Fields(route[1]) /\ legs[1].end = "" /\ legs[1].out = <<>> /\ Kept(route[1], legs[1])
           /\ legs'[1] = Step(route[1], legs[1], e) /\ UNCHANGED <<route, client, present, stopped, result>>
           /\ route' = route
<1>1. /\ legs[1].end = "" /\ legs[1].out = <<>> /\ present /\ ~upstream.ended
      /\ legs' = [legs EXCEPT ![1] = Step(route[1], legs[1], e)]
      /\ UNCHANGED <<route, client, present, stopped, result>>
  BY DEF Reads, Working
<1>2. Frame /\ Linked
  BY <1>1 DEF TranslationInv
<1>3. 1 \in DOMAIN legs /\ DOMAIN legs = DOMAIN route
  BY <1>2, Shape
<1>4. DOMAIN legs[1] = Fields(route[1]) /\ Kept(route[1], legs[1]) /\ DOMAIN upstream = UpstreamFields
  BY <1>1, <1>2, <1>3 DEF Frame
<1> QED BY <1>1, <1>2, <1>3, <1>4

-----------------------------------------------------------------------------
\* A Chat provider.
ChatGoes(e) ==
    /\ e.t \in ChatEvents /\ DOMAIN upstream' = UpstreamFields
    /\ upstream.started \/ e.t \in {"role", "text", "call", "finish"} => upstream'.started
    /\ upstream.finished \/ e.t = "finish" \/ (e.t = "[DONE]" /\ upstream.started) => upstream'.finished

LEMMA ChatGiven ==
    ASSUME TranslationInv, Speaks = "chat", NEW e, Reads(e), ChatGoes(e)
    PROVE  TranslationInv'
<1> DEFINE s == legs[1]
           t == Step(route[1], s, e)
<1>1. /\ Linked /\ DOMAIN s = Fields(route[1]) /\ s.end = "" /\ s.out = <<>> /\ Kept(route[1], s)
      /\ legs'[1] = t /\ route' = route /\ Frame
  BY ReadsOf
<1>2. route[1] \in {"CM", "CR"}
  BY <1>1, SpeaksIs
<1>3. e.t \in ChatEvents /\ Takes(route[1], e) /\ DOMAIN upstream' = UpstreamFields
  BY <1>2 DEF ChatGoes, Takes
<1>4. /\ t.end = "" => /\ e.t \notin {"[DONE]", "eof", "broken", "error"}
                       /\ e.t = "usage" => t.started = s.started
                       /\ route[1] = "CM" => (t.seen => s.seen \/ e.t = "finish")
  <2>1. CASE route[1] = "CM"
    <3>1. t = ChatToMessages(s, e) /\ DOMAIN s = CMFields /\ IsSeq(s.calls)
      BY <1>1, <2>1 DEF Step, Fields, Kept
    <3> HIDE DEF t
    <3> DEFINE u == ChatToMessages(s, e)
    <3>2. u.end = "" => /\ e.t \notin {"[DONE]", "eof", "broken", "error"}
                        /\ e.t = "usage" => u.started = s.started
                        /\ u.seen => s.seen \/ e.t = "finish"
      BY <1>1, <1>3, <3>1, CMStep
    <3> HIDE DEF u
    <3>3. t = u
      BY <3>1 DEF u
    <3> QED BY <3>2, <3>3
  <2>2. CASE route[1] = "CR"
    <3>1. t = ChatToResponses(s, e) /\ DOMAIN s = CRFields /\ IsSeq(s.items)
      BY <1>1, <2>2 DEF Step, Fields, Kept
    <3> HIDE DEF t
    <3>2. t.end = "" => e.t \notin {"[DONE]", "eof", "broken", "error"} /\ (e.t = "usage" => t.started = s.started)
      <4> DEFINE u == ChatToResponses(s, e)
      <4>1. u.end = "" => e.t \notin {"[DONE]", "eof", "broken", "error"} /\ (e.t = "usage" => u.started = s.started)
        BY <1>1, <1>3, <3>1, CRStep
      <4> HIDE DEF u
      <4>2. t = u
        BY <3>1 DEF u
      <4> QED BY <4>1, <4>2
    <3> QED BY <2>2, <3>2
  <2> QED BY <1>2, <2>1, <2>2
<1> HIDE DEF t
<1>5. (s.started => upstream.started) /\ (route[1] = "CM" => (s.seen => upstream.finished))
  BY <1>1, <1>2 DEF Linked
<1>6. legs'[1].end = "" => Linked'
  <2> SUFFICES ASSUME t.end = "" PROVE Linked'
    BY <1>1
  <2>1. e.t \in {"usage", "role", "text", "call", "finish"}
    BY <1>3, <1>4 DEF ChatEvents
  <2>2. t.started => upstream'.started
    BY <1>4, <1>5, <2>1 DEF ChatGoes
  <2>3. route[1] = "CM" => (t.seen => upstream'.finished)
    BY <1>4, <1>5 DEF ChatGoes
  <2> QED BY <1>1, <1>2, <2>2, <2>3 DEF Linked, Gates
<1>7. Completes(route[1], s, e) => upstream'.finished
  BY <1>2, <1>5 DEF Completes, ChatGoes
<1>8. Given(e)
  BY <1>3, <1>6, <1>7 DEF Given
<1> QED BY <1>8, GivenKeeps

\* What a provider's history does to the stream.
LEMMA SaysCounts ==
    ASSUME DOMAIN upstream = UpstreamFields, Counts
    PROVE  /\ DOMAIN upstream' = UpstreamFields /\ upstream'.started /\ upstream'.finished = upstream.finished
           /\ upstream'.stops = upstream.stops /\ upstream'.ended = upstream.ended
BY DEF Counts, UpstreamFields

LEMMA ChatKeeps == ASSUME TranslationInv, Speaks = "chat", Chat PROVE TranslationInv'
<1>0. DOMAIN upstream = UpstreamFields
  BY DEF TranslationInv, Frame
<1>1. ASSUME NEW t \in {"text", "call"}, NEW i, NEW k, NEW p, Reads(Piece(t, i, k, p)), Counts PROVE TranslationInv'
  <2> DEFINE e == Piece(t, i, k, p)
  <2>1. e.t = t
    BY PieceType
  <2> HIDE DEF e
  <2>2. ChatGoes(e)
    BY <1>0, <1>1, <2>1, SaysCounts DEF ChatGoes, ChatEvents
  <2>3. Reads(e)
    BY <1>1 DEF e
  <2> QED BY <2>2, <2>3, ChatGiven
<1>2. ASSUME NEW k, ChatText(k) PROVE TranslationInv'
  BY <1>1, <1>2 DEF ChatText, Says
<1>3. ASSUME NEW i, NEW k, NEW p, ChatCall(i, k, p) PROVE TranslationInv'
  BY <1>1, <1>3 DEF ChatCall, Says
<1>4. ASSUME NEW i, NEW k, ChatArguments(i, k) PROVE TranslationInv'
  BY <1>1, <1>4 DEF ChatArguments, Says
<1>5. ASSUME NEW r, ChatFinish(r) PROVE TranslationInv'
  <2> DEFINE e == Final("finish", r, 0)
  <2>1. e.t = "finish"
    BY FinalType
  <2>2. Reads(e) /\ upstream' = [upstream EXCEPT !.started = TRUE, !.finished = TRUE]
    BY <1>5 DEF ChatFinish
  <2> HIDE DEF e
  <2>3. ChatGoes(e)
    BY <1>0, <2>1, <2>2 DEF ChatGoes, ChatEvents, UpstreamFields
  <2> QED BY <2>2, <2>3, ChatGiven
<1>6. ASSUME ChatUsage PROVE TranslationInv'
  <2> DEFINE e == Final("usage", "", upstream.u + 1)
  <2>1. e.t = "usage"
    BY FinalType
  <2>2. Reads(e) /\ upstream' = [upstream EXCEPT !.u = @ + 1]
    BY <1>6 DEF ChatUsage
  <2> HIDE DEF e
  <2>3. ChatGoes(e)
    BY <1>0, <2>1, <2>2 DEF ChatGoes, ChatEvents, UpstreamFields
  <2> QED BY <2>2, <2>3, ChatGiven
<1>7. ASSUME ChatDone PROVE TranslationInv'
  <2> DEFINE e == Plain("[DONE]")
  <2>1. e.t = "[DONE]"
    BY PlainType
  <2>2. Reads(e) /\ upstream' = [upstream EXCEPT !.finished = @ \/ upstream.started, !.ended = TRUE]
    BY <1>7 DEF ChatDone
  <2> HIDE DEF e
  <2>3. ChatGoes(e)
    BY <1>0, <2>1, <2>2 DEF ChatGoes, ChatEvents, UpstreamFields
  <2> QED BY <2>2, <2>3, ChatGiven
<1> QED BY <1>2, <1>3, <1>4, <1>5, <1>6, <1>7 DEF Chat

\* A provider of a wire whose leg needs only know which event ends the answer well.
Whole(e) ==
    CASE Speaks = "messages" -> e.t = "message_stop"
      [] Speaks = "responses" -> e.t \in {"response.completed", "response.incomplete"}
              [] Speaks = "ollama" -> e.t = "done" [] OTHER -> e.t = "finish"
WireGoes(e) ==
    /\ e.t \in CASE Speaks = "messages" -> MessagesEvents [] Speaks = "responses" -> ResponsesEvents
                 [] Speaks = "ollama" -> OllamaEvents [] OTHER -> CommandEvents
    /\ Speaks = "responses" => IsSeq(e.output) /\ IsSeq(said')
    /\ Whole(e) => upstream'.finished
    /\ DOMAIN upstream' = UpstreamFields

LEMMA WireGiven ==
    ASSUME TranslationInv, Speaks \in {"messages", "responses", "ollama", "commandcode"}, NEW e, Reads(e), WireGoes(e)
    PROVE  TranslationInv'
<1>1. Frame /\ route' = route /\ DOMAIN upstream' = UpstreamFields
  BY ReadsOf DEF WireGoes
<1>2. CASE Speaks = "messages"
  <2>1. route[1] = "MC"
    BY <1>1, <1>2, SpeaksIs
  <2>2. e.t \in MessagesEvents /\ (e.t = "message_stop" => upstream'.finished)
    BY <1>2 DEF WireGoes, Whole
  <2>3. Takes(route[1], e) /\ (Completes(route[1], legs[1], e) => upstream'.finished) /\ Linked'
    BY <1>1, <2>1, <2>2 DEF Takes, Completes, Linked, Gates
  <2>4. Given(e)
    BY <1>1, <2>3 DEF Given
  <2> QED BY <2>4, GivenKeeps
<1>3. CASE Speaks = "responses"
  <2>1. route[1] = "RC"
    BY <1>1, <1>3, SpeaksIs
  <2>2. /\ e.t \in ResponsesEvents /\ (e.t \in {"response.completed", "response.incomplete"} => upstream'.finished)
        /\ IsSeq(e.output) /\ IsSeq(said')
    BY <1>3 DEF WireGoes, Whole
  <2>3. Takes(route[1], e) /\ (Completes(route[1], legs[1], e) => upstream'.finished) /\ Linked'
    BY <1>1, <2>1, <2>2 DEF Takes, Completes, Linked, Gates
  <2>4. Given(e)
    BY <1>1, <2>3 DEF Given
  <2> QED BY <2>4, GivenKeeps
<1>4. CASE Speaks = "ollama"
  <2>1. route[1] = "OC"
    BY <1>1, <1>4, SpeaksIs
  <2>2. e.t \in OllamaEvents /\ (e.t = "done" => upstream'.finished)
    BY <1>4 DEF WireGoes, Whole
  <2>3. Takes(route[1], e) /\ (Completes(route[1], legs[1], e) => upstream'.finished) /\ Linked'
    BY <1>1, <2>1, <2>2 DEF Takes, Completes, Linked, Gates
  <2>4. Given(e)
    BY <1>1, <2>3 DEF Given
  <2> QED BY <2>4, GivenKeeps
<1>5. CASE Speaks = "commandcode"
  <2>1. route[1] = "DC"
    BY <1>1, <1>5, SpeaksIs
  <2>2. e.t \in CommandEvents /\ (e.t = "finish" => upstream'.finished)
    BY <1>5 DEF WireGoes, Whole
  <2>3. Takes(route[1], e) /\ (Completes(route[1], legs[1], e) => upstream'.finished) /\ Linked'
    BY <1>1, <2>1, <2>2 DEF Takes, Completes, Linked, Gates
  <2>4. Given(e)
    BY <1>1, <2>3 DEF Given
  <2> QED BY <2>4, GivenKeeps
<1> QED BY <1>2, <1>3, <1>4, <1>5

LEMMA MessagesKeeps == ASSUME TranslationInv, Speaks = "messages", Messages PROVE TranslationInv'
<1>0. DOMAIN upstream = UpstreamFields
  BY DEF TranslationInv, Frame
<1>1. ASSUME NEW e, Reads(e), e.t \in MessagesEvents, e.t = "message_stop" => upstream'.finished, DOMAIN upstream' = UpstreamFields
      PROVE  TranslationInv'
  <2>1. WireGoes(e)
    BY <1>1 DEF WireGoes, Whole
  <2> QED BY <1>1, <2>1, WireGiven
<1>2. ASSUME NEW t \in {"content_block_start", "content_block_delta", "content_block_stop"}, NEW i, NEW k, NEW p,
             Reads(Piece(t, i, k, p)), DOMAIN upstream' = UpstreamFields
      PROVE  TranslationInv'
  <2> DEFINE e == Piece(t, i, k, p)
  <2>1. e.t = t
    BY PieceType
  <2>2. Reads(e)
    BY <1>2
  <2> HIDE DEF e
  <2>3. e.t \in MessagesEvents /\ e.t # "message_stop"
    BY <2>1 DEF MessagesEvents
  <2> QED BY <1>1, <1>2, <2>2, <2>3
<1>3. CASE MessagesStart
  <2> DEFINE e == Final("message_start", "", 1)
  <2>1. e.t = "message_start"
    BY FinalType
  <2>2. Reads(e) /\ DOMAIN upstream' = UpstreamFields
    BY <1>0, <1>3 DEF MessagesStart, UpstreamFields
  <2> HIDE DEF e
  <2> QED BY <1>1, <2>1, <2>2 DEF MessagesEvents
<1>4. ASSUME NEW k, MessagesOpen(k) PROVE TranslationInv'
  <2>1. Counts /\ Reads(Piece("content_block_start", Len(said) + 1, k, <<>>))
    BY <1>4 DEF MessagesOpen, Says
  <2>2. DOMAIN upstream' = UpstreamFields
    BY <1>0, <2>1, SaysCounts
  <2> QED BY <1>2, <2>1, <2>2
<1>5. ASSUME NEW i, MessagesDelta(i) PROVE TranslationInv'
  <2>1. Counts /\ Reads(Piece("content_block_delta", i, said[i].k, NewPiece))
    BY <1>5 DEF MessagesDelta, Says
  <2>2. DOMAIN upstream' = UpstreamFields
    BY <1>0, <2>1, SaysCounts
  <2> QED BY <1>2, <2>1, <2>2
<1>6. ASSUME NEW i, MessagesClose(i) PROVE TranslationInv'
  <2>1. upstream' = upstream /\ Reads(Piece("content_block_stop", i, "", <<>>))
    BY <1>6 DEF MessagesClose
  <2> QED BY <1>0, <1>2, <2>1
<1>7. ASSUME NEW r, MessagesEnd(r) PROVE TranslationInv'
  <2> DEFINE note == IF r = "refusal" THEN NewPiece ELSE <<>>
             f == Final("message_delta", r, 2)
             e == [f EXCEPT !.p = note]
  <2>1. f.t = "message_delta"
    BY FinalType
  <2>2. Reads(e) /\ DOMAIN upstream' = UpstreamFields
    <3>1. Reads(e) /\ upstream' = [upstream EXCEPT !.reasoned = TRUE, !.u = 2]
      BY <1>7 DEF MessagesEnd
    <3> QED BY <1>0, <3>1 DEF UpstreamFields
  <2>3. e.t = "message_delta"
    BY DEF Final, Plain
  <2> HIDE DEF e
  <2> QED BY <1>1, <2>2, <2>3 DEF MessagesEvents
<1>8. CASE MessagesStop
  <2> DEFINE e == Plain("message_stop")
  <2>1. e.t = "message_stop"
    BY PlainType
  <2>2. Reads(e) /\ upstream' = [upstream EXCEPT !.finished = TRUE, !.ended = TRUE]
    BY <1>8 DEF MessagesStop
  <2>3. DOMAIN upstream' = UpstreamFields /\ upstream'.finished
    BY <1>0, <2>2 DEF UpstreamFields
  <2> HIDE DEF e
  <2> QED BY <1>1, <2>1, <2>2, <2>3 DEF MessagesEvents
<1> QED BY <1>3, <1>4, <1>5, <1>6, <1>7, <1>8 DEF Messages

LEMMA OllamaKeeps == ASSUME TranslationInv, Speaks = "ollama", Ollama PROVE TranslationInv'
<1>0. DOMAIN upstream = UpstreamFields
  BY DEF TranslationInv, Frame
<1>1. ASSUME NEW e, Reads(e), e.t \in OllamaEvents, e.t = "done" => upstream'.finished, DOMAIN upstream' = UpstreamFields
      PROVE  TranslationInv'
  <2>1. WireGoes(e)
    BY <1>1 DEF WireGoes, Whole
  <2> QED BY <1>1, <2>1, WireGiven
<1>2. ASSUME NEW t \in {"text", "call"}, NEW i, NEW k, NEW p, Reads(Piece(t, i, k, p)), Counts PROVE TranslationInv'
  <2> DEFINE e == Piece(t, i, k, p)
  <2>1. e.t = t
    BY PieceType
  <2>2. Reads(e)
    BY <1>2
  <2>3. DOMAIN upstream' = UpstreamFields
    BY <1>0, <1>2, SaysCounts
  <2> HIDE DEF e
  <2>4. e.t \in OllamaEvents /\ e.t # "done"
    BY <2>1 DEF OllamaEvents
  <2> QED BY <1>1, <2>2, <2>3, <2>4
<1>3. ASSUME NEW k, WholeText(k) PROVE TranslationInv'
  BY <1>2, <1>3 DEF WholeText, Says
<1>4. ASSUME NEW p, WholeArguments(p) PROVE TranslationInv'
  BY <1>2, <1>4 DEF WholeArguments, Says
<1>5. ASSUME NEW r, NEW u, OllamaDone(r, u) PROVE TranslationInv'
  <2> DEFINE e == Final("done", r, u)
  <2>1. e.t = "done"
    BY FinalType
  <2>2. Reads(e) /\ upstream' = [upstream EXCEPT !.finished = TRUE, !.ended = TRUE, !.u = u]
    BY <1>5 DEF OllamaDone
  <2>3. DOMAIN upstream' = UpstreamFields /\ upstream'.finished
    BY <1>0, <2>2 DEF UpstreamFields
  <2> HIDE DEF e
  <2> QED BY <1>1, <2>1, <2>2, <2>3 DEF OllamaEvents
<1> QED BY <1>3, <1>4, <1>5 DEF Ollama

\* Pieces carry no output.
LEMMA NoOutput ==
    ASSUME NEW t, NEW i, NEW k, NEW p
    PROVE  IsSeq(Piece(t, i, k, p).output) /\ IsSeq(Plain(t).output)
<1>1. IsSeq(<<>>)
  BY DEF IsSeq
<1>2. Piece(t, i, k, p).output = <<>> /\ Plain(t).output = <<>>
  BY DEF Piece, Plain
<1> QED BY <1>1, <1>2

LEMMA SaysSeq ==
    ASSUME IsSeq(said), NEW k, NEW key, NEW p, Says(k, key, p)
    PROVE  IsSeq(said')
<1> DEFINE new == [key |-> key, k |-> k, p |-> p, at |-> "open"]
           y == [n \in DOMAIN said |-> IF n \notin Said(key) THEN said[n]
                   ELSE [said[n] EXCEPT !.p = @ \o p, !.k = IF k = "" THEN @ ELSE k]]
<1>1. said' = Append(said, new) \/ said' = y
  BY DEF Says
<1> HIDE DEF new
<1>2. y = [n \in DOMAIN said |-> y[n]]
  OBVIOUS
<1> HIDE DEF y
<1>3. IsSeq(Append(said, new)) /\ IsSeq(y)
  BY <1>2, SeqAppend, SeqSame
<1> QED BY <1>1, <1>3

LEMMA ResponsesKeeps == ASSUME TranslationInv, Speaks = "responses", Responses PROVE TranslationInv'
<1>0. DOMAIN upstream = UpstreamFields
  BY DEF TranslationInv, Frame
<1>1. ASSUME NEW e, Reads(e) PROVE IsSeq(said)
  <2>1. Linked /\ Frame
    BY <1>1, ReadsOf
  <2>2. route[1] = "RC"
    BY <2>1, SpeaksIs
  <2> QED BY <2>1, <2>2 DEF Linked
<1>2. ASSUME NEW e, Reads(e), e.t \in ResponsesEvents, e.t \in {"response.completed", "response.incomplete"} => upstream'.finished,
             DOMAIN upstream' = UpstreamFields, IsSeq(e.output), IsSeq(said')
      PROVE  TranslationInv'
  <2>1. WireGoes(e)
    BY <1>2 DEF WireGoes, Whole
  <2> QED BY <1>2, <2>1, WireGiven
<1>3. ASSUME NEW t \in {"response.output_item.added", "delta", "arguments.done", "response.output_item.done"}, NEW i, NEW k, NEW p,
             Reads(Piece(t, i, k, p)), DOMAIN upstream' = UpstreamFields, IsSeq(said')
      PROVE  TranslationInv'
  <2> DEFINE e == Piece(t, i, k, p)
  <2>1. e.t = t
    BY PieceType
  <2>2. Reads(e)
    BY <1>3
  <2>3. IsSeq(e.output)
    BY NoOutput
  <2> HIDE DEF e
  <2>4. e.t \in ResponsesEvents /\ e.t \notin {"response.completed", "response.incomplete"}
    BY <2>1 DEF ResponsesEvents
  <2> QED BY <1>2, <1>3, <2>2, <2>3, <2>4
<1>4. CASE ResponsesStart
  <2> DEFINE e == Plain("response.created")
  <2>1. e.t = "response.created"
    BY PlainType
  <2>2. Reads(e) /\ upstream' = [upstream EXCEPT !.started = TRUE] /\ said' = said
    BY <1>4 DEF ResponsesStart
  <2>3. IsSeq(e.output)
    BY NoOutput
  <2>4. DOMAIN upstream' = UpstreamFields
    BY <1>0, <2>2 DEF UpstreamFields
  <2> HIDE DEF e
  <2>5. IsSeq(said')
    BY <1>1, <2>2
  <2>6. e.t \in ResponsesEvents /\ e.t \notin {"response.completed", "response.incomplete"}
    BY <2>1 DEF ResponsesEvents
  <2> QED BY <1>2, <2>2, <2>3, <2>4, <2>5, <2>6
<1>5. ASSUME NEW k, ResponsesAdd(k) PROVE TranslationInv'
  <2>1. Says(k, Len(said) + 1, <<>>) /\ Counts /\ Reads(Piece("response.output_item.added", Len(said) + 1, k, <<>>))
    BY <1>5 DEF ResponsesAdd, Says
  <2>2. DOMAIN upstream' = UpstreamFields
    BY <1>0, <2>1, SaysCounts
  <2>3. IsSeq(said')
    BY <1>1, <2>1, SaysSeq
  <2> QED BY <1>3, <2>1, <2>2, <2>3
<1>6. ASSUME NEW i, ResponsesDelta(i) PROVE TranslationInv'
  <2>1. Says("", i, NewPiece) /\ Counts /\ Reads(Piece("delta", i, said[i].k, NewPiece))
    BY <1>6 DEF ResponsesDelta, Says
  <2>2. DOMAIN upstream' = UpstreamFields
    BY <1>0, <2>1, SaysCounts
  <2>3. IsSeq(said')
    BY <1>1, <2>1, SaysSeq
  <2> QED BY <1>3, <2>1, <2>2, <2>3
<1>7. ASSUME NEW t \in {"arguments.done", "response.output_item.done"}, NEW at, NEW i, NEW whole, ResponsesTell(t, at, i, whole)
      PROVE  TranslationInv'
  <2>1. PICK p : Reads(Piece(t, i, said[i].k, p))
    BY <1>7 DEF ResponsesTell
  <2>2. DOMAIN upstream' = UpstreamFields
    BY <1>0, <1>7 DEF ResponsesTell
  <2>3. IsSeq(said')
    <3> DEFINE y == [said EXCEPT ![i].at = at, ![i].p = whole]
    <3>1. said' = y
      BY <1>7 DEF ResponsesTell
    <3>2. y = [n \in DOMAIN said |-> y[n]]
      OBVIOUS
    <3> HIDE DEF y
    <3> QED BY <1>1, <2>1, <3>1, <3>2, SeqSame
  <2> QED BY <1>3, <2>1, <2>2, <2>3
<1>8. ASSUME NEW k, ResponsesWhole(k) PROVE TranslationInv'
  <2> DEFINE new == [key |-> Len(said) + 1, k |-> k, p |-> NewPiece, at |-> "done"]
  <2>1. Counts /\ Reads(Piece("response.output_item.done", Len(said) + 1, k, NewPiece)) /\ said' = Append(said, new)
    BY <1>8 DEF ResponsesWhole
  <2>2. DOMAIN upstream' = UpstreamFields
    BY <1>0, <2>1, SaysCounts
  <2> HIDE DEF new
  <2>3. IsSeq(said')
    BY <1>1, <2>1, SeqAppend
  <2> QED BY <1>3, <2>1, <2>2, <2>3
<1>9. ASSUME NEW r, NEW all, ResponsesEnd(r, all) PROVE TranslationInv'
  <2> DEFINE one == [key |-> Len(said) + 1, k |-> "function", p |-> NewPiece, at |-> "done"]
             t == IF r = "" THEN "response.completed" ELSE "response.incomplete"
             output == [i \in DOMAIN said' |-> [i |-> i, k |-> said'[i].k, p |-> said'[i].p]]
             f == Final(t, r, 1)
             e == [f EXCEPT !.output = IF all THEN output ELSE <<>>]
  <2>1. PICK more \in {<<>>, <<one>>} :
           /\ said' = said \o more /\ Reads(e)
           /\ upstream' = [upstream EXCEPT !.finished = TRUE, !.ended = TRUE, !.u = 1]
    BY <1>9 DEF ResponsesEnd
  <2>2. f.t = t /\ DOMAIN f = {"t", "i", "k", "p", "u", "output"}
    BY DEF Final, Plain
  <2>3. e.t = t /\ e.output = IF all THEN output ELSE <<>>
    <3> HIDE DEF f, output, t
    <3> QED BY <2>2
  <2>4. DOMAIN upstream' = UpstreamFields /\ upstream'.finished
    BY <1>0, <2>1 DEF UpstreamFields
  <2>5. IsSeq(said')
    <3> HIDE DEF one
    <3>1. IsSeq(<<>>) /\ IsSeq(<<one>>)
      <4>1. IsSeq(<<>>)
        BY DEF IsSeq
      <4>2. IsSeq(Append(<<>>, one))
        BY <4>1, SeqAppend
      <4>3. Append(<<>>, one) = <<one>>
        OBVIOUS
      <4> QED BY <4>1, <4>2, <4>3
    <3>2. IsSeq(more)
      BY <3>1
    <3> QED BY <1>1, <2>1, <3>2, SeqConcat
  <2>6. IsSeq(e.output)
    <3>1. output = [i \in DOMAIN said' |-> output[i]]
      OBVIOUS
    <3> HIDE DEF output
    <3>2. IsSeq(output)
      BY <2>5, <3>1, SeqSame
    <3>3. IsSeq(<<>>)
      BY DEF IsSeq
    <3> HIDE DEF e
    <3> QED BY <2>3, <3>2, <3>3
  <2>7. e.t \in ResponsesEvents
    <3> HIDE DEF e
    <3> QED BY <2>3 DEF ResponsesEvents
  <2>8. Reads(e)
    BY <2>1
  <2> HIDE DEF e
  <2> QED BY <1>2, <2>4, <2>5, <2>6, <2>7, <2>8
<1>10. CASE \E i \in DOMAIN said : \E whole \in Wholes(i) :
               \/ said[i].k \in CallKinds /\ ResponsesTell("arguments.done", "told", i, whole)
               \/ ResponsesTell("response.output_item.done", "done", i, whole)
  BY <1>7, <1>10
<1> QED BY <1>4, <1>5, <1>6, <1>8, <1>9, <1>10 DEF Responses

-----------------------------------------------------------------------------
GeminiGoes(e) ==
    /\ e.t \in GeminiEvents /\ DOMAIN upstream' = UpstreamFields
    /\ e.t = "finish" => (upstream'.finished <=> e.k \in GeminiAnswers)
    /\ e.t = "blocked" => upstream'.finished
    /\ e.t \notin {"finish", "blocked"} => upstream'.finished = upstream.finished

LEMMA GeminiGiven ==
    ASSUME TranslationInv, Speaks = "gemini", NEW e, Reads(e), GeminiGoes(e)
    PROVE  TranslationInv'
<1> DEFINE s == legs[1]
           t == Step(route[1], s, e)
<1>1. /\ Linked /\ DOMAIN s = Fields(route[1]) /\ s.end = "" /\ s.out = <<>>
      /\ legs'[1] = t /\ route' = route /\ Frame
  BY ReadsOf
<1>2. route[1] = "GC"
  BY <1>1, SpeaksIs
<1>3. e.t \in GeminiEvents /\ Takes(route[1], e) /\ DOMAIN upstream' = UpstreamFields
  BY <1>2 DEF GeminiGoes, Takes, Gates
<1>4. t = GeminiToChat(s, e) /\ DOMAIN s = GCFields
  BY <1>1, <1>2 DEF Step, Fields
<1> HIDE DEF t
<1>5. t.end = "" => (t.finish # "" => s.finish # "" \/ e.t = "blocked" \/ (e.t = "finish" /\ e.k \in GeminiAnswers))
  BY <1>1, <1>3, <1>4, GCStep
<1>6. e.t = "finish" /\ e.k \notin GeminiAnswers => t.end # ""
  <2> SUFFICES ASSUME e.t = "finish" /\ e.k \notin GeminiAnswers PROVE t.end # ""
    OBVIOUS
  <2>1. t = FailChat(s, "failed")
    BY <1>4 DEF GeminiToChat
  <2>2. Calm(s, GCFields, "chat")
    BY <1>1, <1>4, StreamEmpty DEF Calm, GCFields
  <2> QED BY <2>1, <2>2, FailChatLost
<1>7. s.finish # "" => upstream.finished
  BY <1>1, <1>2 DEF Linked
<1>8. legs'[1].end = "" => Linked'
  <2> SUFFICES ASSUME t.end = "" PROVE Linked'
    BY <1>1
  <2>1. t.finish # "" => upstream'.finished
    BY <1>5, <1>6, <1>7 DEF GeminiGoes
  <2> QED BY <1>1, <1>2, <2>1 DEF Linked, Gates
<1>9. Completes(route[1], s, e) => upstream'.finished
  BY <1>2, <1>7 DEF Completes, GeminiGoes
<1>10. Given(e)
  BY <1>3, <1>8, <1>9 DEF Given
<1> QED BY <1>10, GivenKeeps

LEMMA GeminiKeeps == ASSUME TranslationInv, Speaks = "gemini", Gemini PROVE TranslationInv'
<1>0. DOMAIN upstream = UpstreamFields
  BY DEF TranslationInv, Frame
<1>1. ASSUME NEW t \in {"text", "call"}, NEW i, NEW k, NEW p, Reads(Piece(t, i, k, p)), Counts PROVE TranslationInv'
  <2> DEFINE e == Piece(t, i, k, p)
  <2>1. e.t = t
    BY PieceType
  <2>2. Reads(e)
    BY <1>1
  <2> HIDE DEF e
  <2>3. GeminiGoes(e)
    BY <1>0, <1>1, <2>1, SaysCounts DEF GeminiGoes, GeminiEvents
  <2> QED BY <2>2, <2>3, GeminiGiven
<1>2. ASSUME NEW k, NEW p, GeminiMore(k, p) PROVE TranslationInv'
  BY <1>1, <1>2 DEF GeminiMore, Says
<1>3. ASSUME NEW r \in {"STOP", "MAX_TOKENS", "MALFORMED_FUNCTION_CALL", ""}, GeminiReason(r) PROVE TranslationInv'
  <2> DEFINE e == IF r = "" THEN Plain("blocked") ELSE Final("finish", r, 0)
  <2>1. IF r = "" THEN e.t = "blocked" ELSE e.t = "finish" /\ e.k = r
    BY DEF Plain, Final
  <2>2. Reads(e) /\ upstream' = [upstream EXCEPT !.started = TRUE, !.finished = r # "MALFORMED_FUNCTION_CALL"]
    BY <1>3 DEF GeminiReason
  <2>3. DOMAIN upstream' = UpstreamFields /\ (upstream'.finished <=> r # "MALFORMED_FUNCTION_CALL")
    BY <1>0, <2>2 DEF UpstreamFields
  <2> HIDE DEF e
  <2>4. r # "" => ((r # "MALFORMED_FUNCTION_CALL") <=> r \in GeminiAnswers)
    BY <1>3 DEF GeminiAnswers
  <2>5. GeminiGoes(e)
    <3>1. CASE r = ""
      <4>1. e.t = "blocked"
        BY <2>1, <3>1
      <4>2. upstream'.finished
        BY <2>3, <3>1
      <4> QED BY <2>3, <4>1, <4>2 DEF GeminiGoes, GeminiEvents
    <3>2. CASE r # ""
      <4>1. e.t = "finish" /\ e.k = r
        BY <2>1, <3>2
      <4>2. upstream'.finished <=> e.k \in GeminiAnswers
        BY <2>3, <2>4, <3>2, <4>1
      <4> QED BY <2>3, <4>1, <4>2 DEF GeminiGoes, GeminiEvents
    <3> QED BY <3>1, <3>2
  <2> QED BY <2>2, <2>5, GeminiGiven
<1>4. CASE GeminiUsage
  <2> DEFINE e == Final("usage", "", upstream.u + 1)
  <2>1. e.t = "usage"
    BY FinalType
  <2>2. Reads(e) /\ upstream' = [upstream EXCEPT !.u = @ + 1]
    BY <1>4 DEF GeminiUsage
  <2> HIDE DEF e
  <2>3. GeminiGoes(e)
    BY <1>0, <2>1, <2>2 DEF GeminiGoes, GeminiEvents, UpstreamFields
  <2> QED BY <2>2, <2>3, GeminiGiven
<1>5. CASE Reads(Plain("part")) /\ upstream' = [upstream EXCEPT !.ended = TRUE] /\ UNCHANGED said
  <2> DEFINE e == Plain("part")
  <2>1. e.t = "part"
    BY PlainType
  <2>2. Reads(e)
    BY <1>5
  <2> HIDE DEF e
  <2>3. GeminiGoes(e)
    BY <1>0, <1>5, <2>1 DEF GeminiGoes, GeminiEvents, UpstreamFields
  <2> QED BY <2>2, <2>3, GeminiGiven
<1> QED BY <1>2, <1>3, <1>4, <1>5 DEF Gemini

LEMMA CommandKeeps == ASSUME TranslationInv, Speaks = "commandcode", Command PROVE TranslationInv'
<1>0. DOMAIN upstream = UpstreamFields
  BY DEF TranslationInv, Frame
<1>1. ASSUME NEW e, Reads(e), e.t \in CommandEvents, e.t = "finish" => upstream'.finished, DOMAIN upstream' = UpstreamFields
      PROVE  TranslationInv'
  <2>1. WireGoes(e)
    BY <1>1 DEF WireGoes, Whole
  <2> QED BY <1>1, <2>1, WireGiven
<1>2. ASSUME NEW t \in CommandEvents \ {"finish"}, NEW i, NEW k, NEW p, Reads(Piece(t, i, k, p)), DOMAIN upstream' = UpstreamFields
      PROVE  TranslationInv'
  <2> DEFINE e == Piece(t, i, k, p)
  <2>1. e.t = t
    BY PieceType
  <2>2. Reads(e)
    BY <1>2
  <2> HIDE DEF e
  <2> QED BY <1>1, <1>2, <2>1, <2>2
<1>3. {"text", "tool-input-start", "tool-input-delta", "tool-call", "unknown", "finish-step", "finish"} \subseteq CommandEvents
  BY DEF CommandEvents
<1>4. ASSUME NEW k, WholeText(k) PROVE TranslationInv'
  <2>1. Counts /\ Reads(Piece("text", 0, k, NewPiece))
    BY <1>4 DEF WholeText, Says
  <2>2. DOMAIN upstream' = UpstreamFields
    BY <1>0, <2>1, SaysCounts
  <2> QED BY <1>2, <1>3, <2>1, <2>2
<1>5. ASSUME NEW t \in {"tool-input-start", "tool-call"}, NEW tool, NEW ids, NEW p, CommandOpen(t, tool, ids, p) PROVE TranslationInv'
  <2>1. Counts /\ Reads(Piece(t, ids, tool, p))
    BY <1>5 DEF CommandOpen
  <2>2. DOMAIN upstream' = UpstreamFields
    BY <1>0, <2>1, SaysCounts
  <2> QED BY <1>2, <1>3, <2>1, <2>2
<1>6. ASSUME NEW i, NEW ids, CommandInput(i, ids) PROVE TranslationInv'
  <2>1. Counts /\ Reads(Piece("tool-input-delta", ids, said[i].tool, NewPiece))
    BY <1>6 DEF CommandInput
  <2>2. DOMAIN upstream' = UpstreamFields
    BY <1>0, <2>1, SaysCounts
  <2> QED BY <1>2, <1>3, <2>1, <2>2
<1>7. ASSUME NEW i, NEW ids, NEW whole, CommandWhole(i, ids, whole) PROVE TranslationInv'
  <2>1. Reads(Piece("tool-call", ids, said[i].tool, whole)) /\ DOMAIN upstream' = UpstreamFields
    BY <1>0, <1>7 DEF CommandWhole
  <2> QED BY <1>2, <1>3, <2>1
<1>8. ASSUME NEW r, NEW u, CommandStep(r, u) PROVE TranslationInv'
  <2> DEFINE e == Final("finish-step", r, u)
  <2>1. e.t = "finish-step"
    BY FinalType
  <2>2. Reads(e) /\ DOMAIN upstream' = UpstreamFields
    BY <1>0, <1>8 DEF CommandStep
  <2> HIDE DEF e
  <2> QED BY <1>1, <1>3, <2>1, <2>2
<1>9. ASSUME NEW r, NEW u, CommandFinishes(r, u) PROVE TranslationInv'
  <2> DEFINE e == Final("finish", r, u)
  <2>1. e.t = "finish"
    BY FinalType
  <2>2. Reads(e) /\ upstream' = [upstream EXCEPT !.finished = TRUE, !.ended = TRUE, !.u = IF u = 0 THEN @ ELSE u]
    BY <1>9 DEF CommandFinishes
  <2>3. DOMAIN upstream' = UpstreamFields /\ upstream'.finished
    BY <1>0, <2>2 DEF UpstreamFields
  <2> HIDE DEF e
  <2> QED BY <1>1, <1>3, <2>1, <2>2, <2>3
<1>10. ASSUME NEW p, Reads(Piece("unknown", 0, "", p)), UNCHANGED <<said, upstream>> PROVE TranslationInv'
  <2>1. DOMAIN upstream' = UpstreamFields
    BY <1>0, <1>10
  <2> QED BY <1>2, <1>3, <1>10, <2>1
<1> QED BY <1>4, <1>5, <1>6, <1>7, <1>8, <1>9, <1>10 DEF Command

\* A body that fails, breaks or ends, of any wire but Kiro's.
LEMMA BreaksKeeps == ASSUME TranslationInv, Breaks, Speaks # "kiro" PROVE TranslationInv'
<1>0. DOMAIN upstream = UpstreamFields /\ Frame
  BY DEF TranslationInv, Frame
<1>1. PICK t \in {IF Speaks = "responses" THEN "response.failed" ELSE "error", "broken", "eof"} : Reads(Plain(t))
  BY DEF Breaks
<1>2. upstream' = [upstream EXCEPT !.ended = TRUE] /\ said' = said
  BY DEF Breaks
<1>3. DOMAIN upstream' = UpstreamFields /\ upstream'.finished = upstream.finished /\ upstream'.started = upstream.started
  BY <1>0, <1>2 DEF UpstreamFields
<1> DEFINE e == Plain(t)
<1>4. e.t = t /\ Reads(e) /\ IsSeq(e.output)
  BY <1>1, PlainType, NoOutput
<1> HIDE DEF e
<1>5. CASE Speaks = "chat"
  <2>1. ChatGoes(e)
    BY <1>1, <1>3, <1>4, <1>5 DEF ChatGoes, ChatEvents
  <2> QED BY <1>4, <1>5, <2>1, ChatGiven
<1>6. CASE Speaks = "gemini"
  <2>1. GeminiGoes(e)
    BY <1>1, <1>3, <1>4, <1>6 DEF GeminiGoes, GeminiEvents
  <2> QED BY <1>4, <1>6, <2>1, GeminiGiven
<1>7. CASE Speaks \in {"messages", "ollama", "commandcode"}
  <2>1. ~Whole(e)
    BY <1>1, <1>4, <1>7 DEF Whole
  <2>2. e.t \in MessagesEvents /\ e.t \in OllamaEvents /\ e.t \in CommandEvents
    BY <1>1, <1>4, <1>7 DEF MessagesEvents, OllamaEvents, CommandEvents
  <2>3. WireGoes(e)
    BY <1>3, <1>7, <2>1, <2>2 DEF WireGoes
  <2> QED BY <1>4, <1>7, <2>3, WireGiven
<1>8. CASE Speaks = "responses"
  <2>1. IsSeq(said)
    <3>1. Linked
      BY <1>4, ReadsOf
    <3> QED BY <1>0, <1>8, <3>1, SpeaksIs DEF Linked
  <2>2. ~Whole(e) /\ e.t \in ResponsesEvents
    BY <1>1, <1>4, <1>8 DEF Whole, ResponsesEvents
  <2>3. WireGoes(e)
    BY <1>2, <1>3, <1>4, <1>8, <2>1, <2>2 DEF WireGoes
  <2> QED BY <1>4, <1>8, <2>3, WireGiven
<1>9. Speaks \in {"chat", "messages", "responses", "ollama", "gemini", "commandcode"}
  <2>1. route[1] \in LegNames
    BY <1>0, SpeaksIs
  <2> QED BY <2>1 DEF Speaks, LegNames
<1> QED BY <1>5, <1>6, <1>7, <1>8, <1>9

-----------------------------------------------------------------------------
(* So do those of Kiro, of the gate's timers and of the repair *)
LEMMA GateSteps ==
    ASSUME NEW leg, leg \in Gates, NEW s, DOMAIN s = Fields(leg), s.end = "", s.out = <<>>, Kept(leg, s), NEW e
    PROVE  GateStep(s, e, Step(leg, s, e), Tells(leg)) /\ DOMAIN s = GateFields /\ MachineOK(s.m) /\ Fields(leg) = GateFields
<1>1. Fields(leg) = GateFields
  BY DEF Fields, Gates
<1>2. DOMAIN s = GateFields /\ MachineOK(s.m)
  BY <1>1 DEF Kept
<1>3. CASE leg = "KC"
  <2>1. Step(leg, s, e) = KiroToChat(s, e) /\ Tells(leg) = "chat"
    BY <1>3 DEF Step, Tells
  <2> QED BY <1>1, <1>2, <2>1, KCStep
<1>4. CASE leg = "KM"
  <2>1. Step(leg, s, e) = KiroToMessages(s, e) /\ Tells(leg) = "messages"
    BY <1>4 DEF Step, Tells
  <2> QED BY <1>1, <1>2, <2>1, KMStep
<1> QED BY <1>3, <1>4 DEF Gates

LEMMA KiroReads ==
    ASSUME TranslationInv, Speaks = "kiro", NEW e, Reads(e)
    PROVE  /\ route[1] \in Gates /\ route' = route /\ DOMAIN upstream = UpstreamFields
           /\ GateStep(legs[1], e, legs'[1], Tells(route[1]))
           /\ DOMAIN legs[1] = GateFields /\ legs[1].end = "" /\ legs[1].out = <<>> /\ MachineOK(legs[1].m)
           /\ ~legs[1].asks /\ StopTold(legs[1].m.stop, upstream.stops) /\ ToolsTold(legs[1].m.tools, said)
<1>1. /\ Frame /\ Linked /\ ~upstream.ended /\ DOMAIN upstream = UpstreamFields
      /\ DOMAIN legs[1] = Fields(route[1]) /\ legs[1].end = "" /\ legs[1].out = <<>> /\ Kept(route[1], legs[1])
      /\ legs'[1] = Step(route[1], legs[1], e) /\ route' = route
  BY ReadsOf
<1>2. route[1] \in Gates
  BY <1>1, SpeaksIs
<1>3. KiroLinked(legs[1], said, upstream)
  BY <1>1, <1>2 DEF Linked
<1>4. ~legs[1].asks /\ StopTold(legs[1].m.stop, upstream.stops) /\ ToolsTold(legs[1].m.tools, said)
  BY <1>1, <1>3 DEF KiroLinked
<1>5. GateStep(legs[1], e, legs'[1], Tells(route[1])) /\ DOMAIN legs[1] = GateFields /\ MachineOK(legs[1].m)
  BY <1>1, <1>2, GateSteps
<1> QED BY <1>1, <1>2, <1>4, <1>5

LEMMA TakesKiro ==
    ASSUME route[1] \in Gates, NEW e
    PROVE  /\ Takes(route[1], e)
           /\ Completes(route[1], legs[1], e) => e.t \in {"eof", "broken"} /\ GateVerdict(legs[1].m, e) \in Finishes
BY DEF Takes, Completes, Gates

\* The gate reads on.
FrameGoes(e) ==
    LET m == Handle(legs[1].m, e)
    IN /\ e.t \in FrameEvents /\ DOMAIN upstream' = UpstreamFields
       /\ StopTold(m.stop, upstream'.stops) /\ ToolsTold(m.tools, said')

LEMMA KiroFrame ==
    ASSUME TranslationInv, Speaks = "kiro", NEW e, Reads(e), FrameGoes(e)
    PROVE  TranslationInv'
<1> DEFINE s == legs[1]
           m == Handle(s.m, e)
<1>1. /\ route[1] \in Gates /\ route' = route /\ GateStep(s, e, legs'[1], Tells(route[1]))
      /\ DOMAIN s = GateFields /\ s.end = "" /\ s.out = <<>> /\ ~s.asks
  BY KiroReads
<1>2. e.t \in FrameEvents /\ DOMAIN upstream' = UpstreamFields /\ StopTold(m.stop, upstream'.stops) /\ ToolsTold(m.tools, said')
  BY DEF FrameGoes
<1>3. e.t \notin {"eof", "broken"}
  BY <1>2 DEF FrameEvents
<1> HIDE DEF m
<1>4. legs'[1].end = "" => legs'[1] = [s EXCEPT !.m = m]
  BY <1>1, <1>3 DEF GateStep, Lost, m
<1>5. legs'[1].end = "" => Linked'
  <2> SUFFICES ASSUME legs'[1].end = "" PROVE Linked'
    OBVIOUS
  <2>1. legs'[1].out = <<>> /\ ~legs'[1].asks /\ legs'[1].m = m
    BY <1>1, <1>4 DEF GateFields
  <2>2. KiroLinked(legs'[1], said', upstream')
    BY <1>2, <2>1 DEF KiroLinked
  <2> QED BY <1>1, <2>2 DEF Linked, Gates
<1>6. Takes(route[1], e) /\ ~Completes(route[1], s, e)
  BY <1>1, <1>3, TakesKiro
<1>7. Given(e)
  BY <1>2, <1>5, <1>6 DEF Given
<1> QED BY <1>7, GivenKeeps

\* Its body is over.
OverGoes(e) ==
    /\ e.t \in {"eof", "broken", "error"} /\ DOMAIN upstream' = UpstreamFields /\ upstream'.ended
    /\ e.t \in {"eof", "broken"} /\ GateVerdict(legs[1].m, e) \in Finishes => upstream'.finished

LEMMA KiroOver ==
    ASSUME TranslationInv, Speaks = "kiro", NEW e, Reads(e), OverGoes(e)
    PROVE  TranslationInv'
<1> DEFINE s == legs[1]
<1>1. /\ route[1] \in Gates /\ route' = route /\ GateStep(s, e, legs'[1], Tells(route[1]))
      /\ DOMAIN s = GateFields /\ s.end = "" /\ s.out = <<>> /\ ~s.asks
  BY KiroReads
<1>2. /\ e.t \in {"eof", "broken", "error"} /\ DOMAIN upstream' = UpstreamFields /\ upstream'.ended
      /\ e.t \in {"eof", "broken"} /\ GateVerdict(s.m, e) \in Finishes => upstream'.finished
  BY DEF OverGoes
<1>3. e.t \notin FrameEvents
  BY <1>2 DEF FrameEvents
<1>4. legs'[1].end = "" => legs'[1] = Repeat(s)
  BY <1>1, <1>3 DEF GateStep, Lost, Won
<1>5. legs'[1].end = "" => Linked'
  <2> SUFFICES ASSUME legs'[1].end = "" PROVE Linked'
    OBVIOUS
  <2>1. legs'[1].out = <<>> /\ legs'[1].asks /\ legs'[1].m = Machine0
    BY <1>1, <1>4 DEF GateFields, Repeat
  <2>2. KiroLinked(legs'[1], said', upstream')
    BY <1>2, <2>1 DEF KiroLinked
  <2> QED BY <1>1, <2>2 DEF Linked, Gates
<1>6. Takes(route[1], e) /\ (Completes(route[1], s, e) => upstream'.finished)
  BY <1>1, <1>2, TakesKiro
<1>7. Given(e)
  BY <1>2, <1>5, <1>6 DEF Given
<1> QED BY <1>7, GivenKeeps

LEMMA KiroBreaks ==
    ASSUME TranslationInv, Speaks = "kiro", NEW t \in {"error", "broken"}, Reads(Plain(t)),
           upstream' = [upstream EXCEPT !.ended = TRUE]
    PROVE  TranslationInv'
<1> DEFINE e == Plain(t)
<1>1. e.t = t
  BY PlainType
<1>2. Reads(e)
  OBVIOUS
<1> HIDE DEF e
<1>3. DOMAIN upstream' = UpstreamFields /\ upstream'.ended
  <2>1. DOMAIN upstream = UpstreamFields
    BY <1>2, ReadsOf
  <2> QED BY <2>1 DEF UpstreamFields
<1>4. e.t # "eof" /\ (e.t = "broken" => GateVerdict(legs[1].m, e) \notin Finishes)
  BY <1>1 DEF GateVerdict, Finishes
<1>5. OverGoes(e)
  BY <1>1, <1>3, <1>4 DEF OverGoes
<1> QED BY <1>2, <1>5, KiroOver

LEMMA SilentKeeps == ASSUME TranslationInv, Silent PROVE TranslationInv'
<1>1. route[1] \in Gates /\ Reads(Plain("broken")) /\ upstream' = [upstream EXCEPT !.ended = TRUE]
  BY DEF Silent
<1>2. Speaks = "kiro"
  BY <1>1, SpeaksIs DEF TranslationInv
<1> QED BY <1>1, <1>2, KiroBreaks

LEMMA RepairKeeps == ASSUME TranslationInv, RepairAnswer PROVE TranslationInv'
<1> DEFINE s == legs[1]
<1>1. route[1] \in Gates /\ s.asks /\ s.end = "" /\ present /\ UNCHANGED <<route, client, present, stopped, result>>
  BY DEF RepairAnswer
<1>2. Frame /\ Linked /\ 1 \in DOMAIN legs /\ DOMAIN upstream = UpstreamFields
  BY <1>1, Shape DEF TranslationInv, Frame
<1>3. KiroLinked(s, said, upstream)
  BY <1>1, <1>2 DEF Linked
<1>4. s.out = <<>> /\ s.m = Machine0
  BY <1>1, <1>3 DEF KiroLinked
<1>5. DOMAIN s = Fields(route[1]) /\ Kept(route[1], s)
  BY <1>1, <1>2, Shape DEF Frame
<1>6. DOMAIN s = GateFields /\ Fields(route[1]) = GateFields /\ MachineOK(s.m)
  BY <1>1, <1>4, <1>5, GateSteps
<1>7. CASE legs' = [legs EXCEPT ![1].asks = FALSE] /\ said' = <<>> /\ upstream' = Upstream0
  <2> DEFINE t == [s EXCEPT !.asks = FALSE]
  <2>1. legs' = [legs EXCEPT ![1] = t]
    BY <1>7
  <2>2. t.end = "" /\ t.out = <<>> /\ ~t.asks /\ t.m = Machine0 /\ DOMAIN t = GateFields
    BY <1>1, <1>4, <1>6 DEF GateFields
  <2> HIDE DEF t
  <2>3. Told(t, Fields(route[1]), Tells(route[1]))
    <3>1. Calm(t, GateFields, Tells(route[1]))
      BY <2>2, StreamEmpty DEF Calm, GateFields
    <3> QED BY <1>6, <3>1 DEF Told
  <2>4. Kept(route[1], t)
    BY <1>1, <2>2, NewMachine DEF Kept, Gates
  <2>5. Linked'
    <3>0. Machine0.tools = <<>> /\ Machine0.stop = "" /\ Upstream0.stops = {}
      BY DEF Machine0, Upstream0
    <3>1. IsSeq(<<>>)
      BY DEF IsSeq
    <3>2. ToolsTold(t.m.tools, said')
      <4>1. t.m.tools = <<>>
        BY <2>2, <3>0
      <4> QED BY <1>7, <3>1, <4>1 DEF ToolsTold
    <3>3. StopTold(t.m.stop, upstream'.stops)
      BY <1>7, <2>2, <3>0 DEF StopTold, Failures
    <3>4. legs'[1] = t
      BY <1>2, <2>1
    <3>5. KiroLinked(legs'[1], said', upstream')
      BY <2>2, <3>2, <3>3, <3>4 DEF KiroLinked
    <3> QED BY <1>1, <3>5 DEF Linked, Gates
  <2>6. DOMAIN upstream' = UpstreamFields
    BY <1>7 DEF Upstream0, UpstreamFields
  <2>7. Moves(t)
    BY <1>1, <2>1, <2>2, <2>3, <2>4, <2>5, <2>6 DEF Moves
  <2> QED BY <2>7, FirstMoves
<1>8. CASE legs' = [legs EXCEPT ![1] = Step(route[1], @, Plain("refused"))] /\ UNCHANGED <<said, upstream>>
  <2> DEFINE e == Plain("refused")
             t == Step(route[1], s, e)
  <2>1. legs' = [legs EXCEPT ![1] = t]
    BY <1>8
  <2>2. e.t = "refused"
    BY PlainType
  <2> HIDE DEF e
  <2>3. GateStep(s, e, t, Tells(route[1]))
    BY <1>1, <1>4, <1>5, GateSteps
  <2> HIDE DEF t
  <2>4. Lost(t, GateFields, Tells(route[1]))
    BY <2>2, <2>3 DEF GateStep, FrameEvents
  <2>5. Told(t, Fields(route[1]), Tells(route[1])) /\ t.end \notin {"", "ok"}
    BY <1>6, <2>4 DEF Told, Lost
  <2>6. Moves(t)
    BY <1>1, <1>2, <1>8, <2>1, <2>5 DEF Moves
  <2> QED BY <2>6, FirstMoves
<1> QED BY <1>7, <1>8 DEF RepairAnswer

\* The provider's history after it says K of the block of a key, and the tools after they
\* hold t for the call i.
Rekeyed(told, new, key, K) ==
    /\ IsSeq(new) /\ \A j \in DOMAIN new : {"key", "k"} \subseteq DOMAIN new[j]
    /\ \E j \in DOMAIN new : new[j].key = key
    /\ \A j \in DOMAIN new : new[j].key = key => new[j].k = K
    /\ \A j \in DOMAIN new : new[j].key # key => j \in DOMAIN told /\ told[j].key = new[j].key /\ told[j].k = new[j].k
    /\ \A j \in DOMAIN told : told[j].key # key => j \in DOMAIN new /\ told[j].key = new[j].key /\ told[j].k = new[j].k

Retooled(tools, new, i, t) ==
    /\ IsSeq(new) /\ t.i = i
    /\ \E n \in DOMAIN new : new[n].i = i
    /\ \A n \in DOMAIN new : new[n].i = i => new[n] = t
    /\ \A n \in DOMAIN new : new[n].i # i => n \in DOMAIN tools /\ new[n] = tools[n]
    /\ \A n \in DOMAIN tools : tools[n].i # i => n \in DOMAIN new /\ new[n] = tools[n]
    /\ \A n, m \in DOMAIN new : new[n].i = new[m].i => n = m

\* Once more of one thing, for a told sequence of records.
Entries(told) == IsSeq(told) /\ \A j \in DOMAIN told : {"key", "k"} \subseteq DOMAIN told[j]

LEMMA RekeyedAppend ==
    ASSUME NEW told, Entries(told), NEW new, {"key", "k"} \subseteq DOMAIN new, \A j \in DOMAIN told : told[j].key # new.key
    PROVE  Rekeyed(told, Append(told, new), new.key, new.k)
<1> DEFINE y == Append(told, new)
<1>1. IsSeq(y) /\ IsSeq(told)
  BY SeqAppend DEF Entries
<1>2. /\ Len(told) \in Nat /\ Len(y) = Len(told) + 1 /\ y[Len(told) + 1] = new
      /\ \A n \in 1 .. Len(told) : y[n] = told[n]
  BY <1>1, AppendEnds
<1> HIDE DEF y
<1>3. DOMAIN y = 1 .. Len(told) + 1 /\ DOMAIN told = 1 .. Len(told)
  BY <1>1, <1>2, SeqDomain
<1>4. \A j \in DOMAIN told : j \in DOMAIN y /\ y[j] = told[j]
  BY <1>2, <1>3
<1>5. \A j \in DOMAIN y : j \in DOMAIN told \/ j = Len(told) + 1
  BY <1>2, <1>3
<1>6. Len(told) + 1 \in DOMAIN y
  BY <1>2, <1>3
<1>7. \A j \in DOMAIN y : {"key", "k"} \subseteq DOMAIN y[j]
  BY <1>2, <1>4, <1>5 DEF Entries
<1>8. Rekeyed(told, y, new.key, new.k)
  BY <1>1, <1>2, <1>4, <1>5, <1>6, <1>7 DEF Rekeyed
<1> QED BY <1>8 DEF y

LEMMA RekeyedSame ==
    ASSUME NEW told, Entries(told), NEW new, NEW key, NEW K, new = [n \in DOMAIN told |-> new[n]],
           \E j \in DOMAIN told : told[j].key = key,
           \A j \in DOMAIN told : {"key", "k"} \subseteq DOMAIN new[j] /\ new[j].key = told[j].key,
           \A j \in DOMAIN told : IF told[j].key = key THEN new[j].k = K ELSE new[j].k = told[j].k
    PROVE  Rekeyed(told, new, key, K)
<1>1. IsSeq(new)
  BY SeqSame DEF Entries
<1>2. DOMAIN new = DOMAIN told
  OBVIOUS
<1> QED BY <1>1, <1>2 DEF Rekeyed

\* What Says makes of the history.
LEMMA SaysRekeys ==
    ASSUME Entries(said), NEW k, NEW key, NEW p, Says(k, key, p), NEW K,
           IF k = "" THEN (\E j \in DOMAIN said : said[j].key = key) /\ \A j \in DOMAIN said : said[j].key = key => said[j].k = K
           ELSE K = k
    PROVE  Rekeyed(said, said', key, K)
<1>1. CASE Said(key) = {}
  <2> DEFINE new == [key |-> key, k |-> k, p |-> p, at |-> "open"]
  <2>1. said' = Append(said, new)
    BY <1>1 DEF Says
  <2>2. \A j \in DOMAIN said : said[j].key # key
    BY <1>1 DEF Said
  <2>3. k # "" /\ K = k
    BY <2>2
  <2>4. {"key", "k"} \subseteq DOMAIN new /\ new.key = key /\ new.k = k
    OBVIOUS
  <2> HIDE DEF new
  <2>5. Rekeyed(said, Append(said, new), new.key, new.k)
    BY <2>2, <2>4, RekeyedAppend
  <2> QED BY <2>1, <2>3, <2>4, <2>5
<1>2. CASE Said(key) # {}
  <2> DEFINE y == [n \in DOMAIN said |-> IF n \notin Said(key) THEN said[n]
                    ELSE [said[n] EXCEPT !.p = @ \o p, !.k = IF k = "" THEN @ ELSE k]]
  <2>1. said' = y
    BY <1>2 DEF Says
  <2>2. y = [n \in DOMAIN said |-> y[n]]
    OBVIOUS
  <2>3. ASSUME NEW j \in DOMAIN said
        PROVE  /\ {"key", "k"} \subseteq DOMAIN y[j] /\ y[j].key = said[j].key
               /\ IF said[j].key = key THEN y[j].k = IF k = "" THEN said[j].k ELSE k ELSE y[j].k = said[j].k
    <3>1. {"key", "k"} \subseteq DOMAIN said[j] /\ (j \in Said(key) <=> said[j].key = key)
      BY DEF Entries, Said
    <3>2. y[j] = IF j \notin Said(key) THEN said[j] ELSE [said[j] EXCEPT !.p = @ \o p, !.k = IF k = "" THEN @ ELSE k]
      OBVIOUS
    <3> HIDE DEF y
    <3> QED BY <3>1, <3>2
  <2> HIDE DEF y
  <2>4. \E j \in DOMAIN said : said[j].key = key
    BY <1>2 DEF Said
  <2>5. \A j \in DOMAIN said : IF said[j].key = key THEN y[j].k = K ELSE y[j].k = said[j].k
    BY <2>3
  <2>6. Rekeyed(said, y, key, K)
    BY <2>2, <2>3, <2>4, <2>5, RekeyedSame
  <2> QED BY <2>1, <2>6
<1> QED BY <1>1, <1>2

\* The tools follow the history: the call's, and those of a text that is no call's.
LEMMA ToldOther ==
    ASSUME NEW tools, NEW told, ToolsTold(tools, told), NEW new, NEW key, NEW K, Rekeyed(told, new, key, K),
           \A i : key # <<"call", i>>
    PROVE  ToolsTold(tools, new)
<1>1. ASSUME NEW n \in DOMAIN tools PROVE ToolTold(tools[n], new)
  <2>1. ToolTold(tools[n], told)
    BY DEF ToolsTold
  <2> QED BY <2>1 DEF ToolTold, Rekeyed
<1>2. \A i \in {0, 1} : (\E j \in DOMAIN new : new[j].key = <<"call", i>>) => \E n \in DOMAIN tools : tools[n].i = i
  BY DEF ToolsTold, Rekeyed
<1> QED BY <1>1, <1>2 DEF ToolsTold, Rekeyed

LEMMA ToldTool ==
    ASSUME NEW tools, NEW told, ToolsTold(tools, told), NEW new, NEW i, NEW t, NEW tools2,
           Rekeyed(told, new, <<"call", i>>, ToolKind(t)), Retooled(tools, tools2, i, t),
           DOMAIN t = {"i", "kind", "p", "bad"}, t.bad \in BOOLEAN, t.kind \in {"", IF i = 0 THEN "string" ELSE "object"},
           i # 0 => ~t.bad
    PROVE  ToolsTold(tools2, new)
<1> DEFINE key == <<"call", i>>
<1>0. \A x : x # i => <<"call", x>> # key
  OBVIOUS
<1>1. ToolTold(t, new)
  <2>1. t.i = i
    BY DEF Retooled
  <2>2. (\E j \in DOMAIN new : new[j].key = key) /\ \A j \in DOMAIN new : new[j].key = key => new[j].k = ToolKind(t)
    BY DEF Rekeyed
  <2> QED BY <2>1, <2>2 DEF ToolTold
<1> HIDE DEF key
<1>2. ASSUME NEW n \in DOMAIN tools2 PROVE ToolTold(tools2[n], new)
  <2>1. CASE tools2[n].i = i
    <3>1. tools2[n] = t
      BY <2>1 DEF Retooled
    <3> QED BY <1>1, <3>1
  <2>2. CASE tools2[n].i # i
    <3>1. n \in DOMAIN tools /\ tools2[n] = tools[n]
      BY <2>2 DEF Retooled
    <3>2. ToolTold(tools[n], told)
      BY <3>1 DEF ToolsTold
    <3>3. <<"call", tools[n].i>> # key
      BY <1>0, <2>2, <3>1
    <3>4. ToolTold(tools[n], new)
      BY <3>2, <3>3 DEF ToolTold, Rekeyed, key
    <3> QED BY <3>1, <3>4
  <2> QED BY <2>1, <2>2
<1>3. ASSUME NEW x \in {0, 1}, NEW j \in DOMAIN new, new[j].key = <<"call", x>> PROVE \E n \in DOMAIN tools2 : tools2[n].i = x
  <2>1. CASE x = i
    BY <2>1 DEF Retooled
  <2>2. CASE x # i
    <3>1. new[j].key # key
      BY <1>0, <1>3, <2>2
    <3>2. j \in DOMAIN told /\ told[j].key = <<"call", x>>
      BY <1>3, <3>1 DEF Rekeyed, key
    <3>3. PICK n \in DOMAIN tools : tools[n].i = x
      BY <3>2 DEF ToolsTold
    <3>4. n \in DOMAIN tools2 /\ tools2[n] = tools[n]
      BY <2>2, <3>3 DEF Retooled
    <3> QED BY <3>3, <3>4
  <2> QED BY <2>1, <2>2
<1>4. IsSeq(tools2) /\ \A n, m \in DOMAIN tools2 : tools2[n].i = tools2[m].i => n = m
  BY DEF Retooled
<1>5. IsSeq(new) /\ \A j \in DOMAIN new : {"key", "k"} \subseteq DOMAIN new[j]
  BY DEF Rekeyed
<1> QED BY <1>2, <1>3, <1>4, <1>5 DEF ToolsTold

ToolShape(t, i) ==
    /\ DOMAIN t = {"i", "kind", "p", "bad"} /\ t.i = i /\ t.bad \in BOOLEAN
    /\ t.kind \in {"", IF i = 0 THEN "string" ELSE "object"} /\ (i # 0 => ~t.bad)

\* The tool of the call before a fragment: the one held, or a new one.
Held(tools, i, t) ==
    /\ ToolShape(t, i)
    /\ IF Known(tools, i) THEN \E n \in DOMAIN tools : tools[n] = t ELSE t.kind = "" /\ ~t.bad

LEMMA RetoolAgain ==
    ASSUME NEW tools, NEW known, NEW i, NEW t, Retooled(tools, known, i, t), NEW n \in DOMAIN known, known[n].i = i,
           NEW new, new = [j \in DOMAIN known |-> new[j]], \A j \in DOMAIN known : j # n => new[j] = known[j], new[n].i = i
    PROVE  Retooled(tools, new, i, new[n])
<1>1. DOMAIN new = DOMAIN known /\ IsSeq(new)
  BY SeqSame DEF Retooled
<1>2. \A j \in DOMAIN known : known[j].i = new[j].i /\ (known[j].i = i <=> j = n)
  BY DEF Retooled
<1> QED BY <1>1, <1>2 DEF Retooled

LEMMA KnownTools ==
    ASSUME NEW tools, NEW told, ToolsTold(tools, told), NEW i
    PROVE  LET new == [i |-> i, kind |-> "", p |-> <<>>, bad |-> FALSE]
               known == IF Known(tools, i) THEN tools ELSE Append(tools, new)
               n == CHOOSE n \in DOMAIN known : known[n].i = i
           IN n \in DOMAIN known /\ Held(tools, i, known[n]) /\ Retooled(tools, known, i, known[n])
<1> DEFINE new == [i |-> i, kind |-> "", p |-> <<>>, bad |-> FALSE]
           known == IF Known(tools, i) THEN tools ELSE Append(tools, new)
           n == CHOOSE n \in DOMAIN known : known[n].i = i
<1>1. IsSeq(tools) /\ (\A j, m \in DOMAIN tools : tools[j].i = tools[m].i => j = m) /\ \A j \in DOMAIN tools : ToolTold(tools[j], told)
  BY DEF ToolsTold
<1>2. CASE Known(tools, i)
  <2>1. known = tools
    BY <1>2
  <2>2. \E j \in DOMAIN known : known[j].i = i
    BY <1>2, <2>1 DEF Known
  <2>3. n \in DOMAIN known /\ known[n].i = i
    BY <2>2
  <2> HIDE DEF n
  <2>4. n \in DOMAIN tools /\ tools[n].i = i
    BY <2>1, <2>3
  <2>5. ToolTold(tools[n], told)
    BY <1>1, <2>4
  <2>6. Held(tools, i, tools[n])
    BY <1>2, <2>4, <2>5 DEF Held, ToolShape, ToolTold
  <2>7. Retooled(tools, tools, i, tools[n])
    BY <1>1, <2>4 DEF Retooled
  <2> QED BY <2>1, <2>4, <2>6, <2>7 DEF n
<1>3. CASE ~Known(tools, i)
  <2> DEFINE N == Len(tools) + 1
  <2>1. known = Append(tools, new)
    BY <1>3
  <2>2. ToolShape(new, i) /\ new.kind = "" /\ ~new.bad /\ new.i = i
    BY DEF ToolShape
  <2> HIDE DEF new, known
  <2>3. IsSeq(known)
    BY <1>1, <2>1, SeqAppend
  <2>4. Len(tools) \in Nat /\ Len(known) = N /\ known[N] = new /\ \A j \in 1 .. Len(tools) : known[j] = tools[j]
    BY <1>1, <2>1, AppendEnds
  <2>5. DOMAIN tools = 1 .. Len(tools) /\ DOMAIN known = 1 .. N
    BY <1>1, <2>3, <2>4, SeqDomain
  <2>6. \A j \in DOMAIN tools : j \in DOMAIN known /\ known[j] = tools[j] /\ tools[j].i # i
    BY <1>3, <2>4, <2>5 DEF Known
  <2>7. N \in DOMAIN known /\ \A j \in DOMAIN known : j \in DOMAIN tools \/ j = N
    BY <2>4, <2>5
  <2>8. \A j \in DOMAIN known : known[j].i = i <=> j = N
    BY <2>2, <2>4, <2>6, <2>7
  <2>9. n = N
    <3>1. \E j \in DOMAIN known : known[j].i = i
      BY <2>7, <2>8
    <3>2. n \in DOMAIN known /\ known[n].i = i
      BY <3>1
    <3> HIDE DEF n
    <3> QED BY <2>8, <3>2
  <2> HIDE DEF n, N
  <2>10. Held(tools, i, new)
    BY <1>3, <2>2 DEF Held
  <2>11. Retooled(tools, known, i, new)
    <3>1. IsSeq(known) /\ new.i = i /\ \E j \in DOMAIN known : known[j].i = i
      BY <2>2, <2>3, <2>7, <2>8
    <3>2. \A j \in DOMAIN known : known[j].i = i => known[j] = new
      BY <2>4, <2>8
    <3>3. \A j \in DOMAIN known : known[j].i # i => j \in DOMAIN tools /\ known[j] = tools[j]
      BY <2>6, <2>7, <2>8
    <3>4. \A j \in DOMAIN tools : tools[j].i # i => j \in DOMAIN known /\ known[j] = tools[j]
      BY <2>6
    <3>5. ASSUME NEW j \in DOMAIN known, NEW m \in DOMAIN known, known[j].i = known[m].i PROVE j = m
      <4>1. CASE j = N \/ m = N
        BY <2>8, <3>5, <4>1
      <4>2. CASE j # N /\ m # N
        <5>1. j \in DOMAIN tools /\ m \in DOMAIN tools
          BY <2>7, <4>2
        <5> QED BY <1>1, <2>6, <3>5, <5>1
      <4> QED BY <4>1, <4>2
    <3> HIDE DEF known, new
    <3> QED BY <3>1, <3>2, <3>3, <3>4, <3>5, Zenon DEF Retooled
  <2>12. n \in DOMAIN known /\ known[n] = new
    BY <2>4, <2>7, <2>9
  <2> QED BY <2>10, <2>11, <2>12 DEF n, known, new
<1> QED BY <1>2, <1>3

Fragments(i) == IF i = 0 THEN {"string", "none", "bad"} ELSE {"object", "none"}

\* What a fragment makes of the call's tool.
Fragmented(f, old, t) ==
    /\ t.bad <=> old.bad \/ f = "bad"
    /\ t.kind = IF f = "none" THEN old.kind ELSE IF f = "bad" THEN "string" ELSE f

LEMMA FragmentTools ==
    ASSUME NEW m, MachineOK(m), NEW told, ToolsTold(m.tools, told), NEW i \in {0, 1}, NEW f \in Fragments(i), NEW p
    PROVE  \E old, t : /\ Held(m.tools, i, old) /\ ToolShape(t, i) /\ Fragmented(f, old, t)
                       /\ Retooled(m.tools, Fragment(m, Piece("tool", i, f, p)).tools, i, t)
<1> DEFINE e == Piece("tool", i, f, p)
           new == [i |-> e.i, kind |-> "", p |-> <<>>, bad |-> FALSE]
           known == IF Known(m.tools, e.i) THEN m.tools ELSE Append(m.tools, new)
           n == CHOOSE n \in DOMAIN known : known[n].i = e.i
           kind == IF e.k = "bad" THEN "string" ELSE e.k
           given == [known EXCEPT ![n].kind = kind, ![n].bad = @ \/ e.k = "bad",
                                  ![n].p = IF kind = "object" THEN e.p ELSE @ \o e.p]
           old == known[n]
<1>2. e.i = i /\ e.k = f
  BY DEF Piece, Plain
<1> HIDE DEF e
<1>1. n \in DOMAIN known /\ Held(m.tools, i, old) /\ Retooled(m.tools, known, i, old)
  <2>1. n \in DOMAIN known /\ Held(m.tools, e.i, old) /\ Retooled(m.tools, known, e.i, old)
    BY KnownTools
  <2> HIDE DEF known, n
  <2> QED BY <1>2, <2>1
<1>3. e.k # "nameless" /\ e.k \in {"string", "none", "bad", "object"}
  BY <1>2 DEF Fragments
<1>4. known[n].kind \in {"", kind} \/ e.k = "none"
  <2>1. ToolShape(old, i)
    BY <1>1 DEF Held
  <2> HIDE DEF known, n
  <2> QED BY <1>2, <2>1 DEF ToolShape, Fragments
<1>5. \/ e.k = "none" /\ Fragment(m, e) = [m EXCEPT !.used = TRUE, !.tools = known]
      \/ e.k # "none" /\ Fragment(m, e) = [m EXCEPT !.used = TRUE, !.tools = given]
  <2>1. Fragment(m, e) =
          CASE e.k = "nameless" -> [m EXCEPT !.used = TRUE, !.rejected = TRUE]
            [] e.k = "none" -> [m EXCEPT !.used = TRUE, !.tools = known]
            [] e.k \notin {"nameless", "none"} /\ known[n].kind \notin {"", kind} ->
                  [m EXCEPT !.used = TRUE, !.tools = known, !.rejected = TRUE]
            [] OTHER -> [m EXCEPT !.used = TRUE, !.tools = given]
    BY Zenon DEF Fragment
  <2> HIDE DEF known, given, n, kind
  <2> QED BY <1>3, <1>4, <2>1, Zenon
<1> HIDE DEF known, n
<1>6. CASE e.k = "none"
  <2>1. Fragment(m, e).tools = known
    BY <1>5, <1>6 DEF MachineOK, MachineFields
  <2>2. ToolShape(old, i) /\ Fragmented(f, old, old)
    BY <1>1, <1>2, <1>6 DEF Held, Fragmented
  <2> QED BY <1>1, <2>1, <2>2 DEF e
<1>7. CASE e.k # "none"
  <2>1. given = [j \in DOMAIN known |-> given[j]] /\ \A j \in DOMAIN known : j # n => given[j] = known[j]
    OBVIOUS
  <2>2. ToolShape(old, i)
    BY <1>1 DEF Held
  <2>3. DOMAIN given[n] = DOMAIN old /\ given[n].i = old.i /\ given[n].kind = kind /\ given[n].bad = (old.bad \/ e.k = "bad")
    BY <1>1, <2>2 DEF ToolShape
  <2> HIDE DEF given
  <2>4. Fragment(m, e).tools = given
    BY <1>5, <1>7 DEF MachineOK, MachineFields
  <2>5. Retooled(m.tools, given, i, given[n])
    <3>1. n \in DOMAIN known /\ known[n].i = i /\ Retooled(m.tools, known, i, old) /\ given[n].i = i
      BY <1>1, <2>2, <2>3 DEF ToolShape
    <3> HIDE DEF known, n, old
    <3> QED BY <2>1, <3>1, RetoolAgain
  <2>6. ToolShape(given[n], i) /\ Fragmented(f, old, given[n])
    <3> DEFINE got == given[n]
    <3>1. DOMAIN got = DOMAIN old /\ got.i = old.i /\ got.kind = kind /\ got.bad = (old.bad \/ f = "bad")
      BY <1>2, <2>3
    <3>2. kind = IF f = "bad" THEN "string" ELSE f
      BY <1>2
    <3> HIDE DEF got, kind, old
    <3>3. ToolShape(got, i)
      BY <1>2, <1>7, <2>2, <3>1, <3>2 DEF ToolShape, Fragments
    <3>4. Fragmented(f, old, got)
      BY <1>2, <1>7, <3>1, <3>2 DEF Fragmented, Fragments
    <3> QED BY <3>3, <3>4 DEF got
  <2> QED BY <1>1, <2>4, <2>5, <2>6 DEF e
<1> QED BY <1>6, <1>7

\* What the provider says of a call with a fragment, as KiroTool has it.
KiroKind(i, f) ==
    LET old == Said(<<"call", i>>)
        bad == f = "bad" \/ \E n \in old : said[n].k = "bad"
    IN CASE bad -> "bad"
         [] ~bad /\ f = "none" -> IF old = {} THEN "none" ELSE ""
         [] OTHER -> "function"
FragmentPiece(f) == IF f \in {"string", "object"} THEN NewPiece ELSE <<>>

LEMMA KiroToolIs ==
    ASSUME NEW i, NEW f, KiroTool(i, f)
    PROVE  /\ Reads(Piece("tool", i, f, FragmentPiece(f)))
           /\ \/ /\ f = "object" /\ Said(<<"call", i>>) # {} /\ Counts
                 /\ said' = [n \in DOMAIN said |-> IF n \in Said(<<"call", i>>)
                                                   THEN [said[n] EXCEPT !.k = KiroKind(i, f), !.p = NewPiece] ELSE said[n]]
              \/ Says(KiroKind(i, f), <<"call", i>>, FragmentPiece(f))
BY Zenon DEF KiroTool, KiroKind, FragmentPiece

\* What is told of a call is the kind of its tool.
LEMMA KiroKindIs ==
    ASSUME NEW tools, ToolsTold(tools, said), NEW i \in {0, 1}, NEW f \in Fragments(i), NEW old, NEW t,
           Held(tools, i, old), ToolShape(t, i), Fragmented(f, old, t)
    PROVE  IF KiroKind(i, f) = ""
           THEN /\ \E j \in DOMAIN said : said[j].key = <<"call", i>>
                /\ \A j \in DOMAIN said : said[j].key = <<"call", i>> => said[j].k = ToolKind(t)
           ELSE ToolKind(t) = KiroKind(i, f)
<1> DEFINE key == <<"call", i>>
           kind == KiroKind(i, f)
           bad == f = "bad" \/ \E n \in Said(key) : said[n].k = "bad"
<1>1. kind = CASE bad -> "bad"
               [] ~bad /\ f = "none" -> IF Said(key) = {} THEN "none" ELSE ""
               [] OTHER -> "function"
  BY Zenon DEF KiroKind
<1>2. \A j \in DOMAIN said : j \in Said(key) <=> said[j].key = key
  BY DEF Said
<1>2a. Said(key) \subseteq DOMAIN said
  BY DEF Said
<1> HIDE DEF kind, bad
<1>3. Known(tools, i) => Said(key) # {} /\ \A j \in DOMAIN said : said[j].key = key => said[j].k = ToolKind(old)
  <2> SUFFICES ASSUME Known(tools, i) PROVE Said(key) # {} /\ \A j \in DOMAIN said : said[j].key = key => said[j].k = ToolKind(old)
    OBVIOUS
  <2>1. PICK n \in DOMAIN tools : tools[n] = old
    BY DEF Held
  <2>2. ToolTold(old, said)
    BY <2>1 DEF ToolsTold
  <2>3. old.i = i
    BY DEF Held, ToolShape
  <2> QED BY <1>2, <2>2, <2>3 DEF ToolTold
<1>4. ~Known(tools, i) => Said(key) = {} /\ old.kind = "" /\ ~old.bad
  <2> SUFFICES ASSUME ~Known(tools, i) PROVE Said(key) = {} /\ old.kind = "" /\ ~old.bad
    OBVIOUS
  <2>1. ~\E n \in DOMAIN tools : tools[n].i = i
    BY DEF Known
  <2>2. ~\E j \in DOMAIN said : said[j].key = key
    BY <2>1 DEF ToolsTold
  <2> QED BY <1>2, <1>2a, <2>2 DEF Held
<1>5. old.bad \in BOOLEAN /\ t.bad \in BOOLEAN /\ (t.bad <=> old.bad \/ f = "bad")
  BY DEF Held, ToolShape, Fragmented
<1>6. t.kind = IF f = "none" THEN old.kind ELSE IF f = "bad" THEN "string" ELSE f
  BY DEF Fragmented
<1>7. bad <=> t.bad
  <2>1. (\E n \in Said(key) : said[n].k = "bad") <=> old.bad
    <3>1. CASE Known(tools, i)
      <4>1. ToolKind(old) = "bad" <=> old.bad
        BY <1>5 DEF ToolKind
      <4>2. Said(key) # {} /\ \A n \in Said(key) : said[n].k = ToolKind(old)
        BY <1>2, <1>2a, <1>3, <3>1
      <4> QED BY <4>1, <4>2
    <3>2. CASE ~Known(tools, i)
      BY <1>4, <3>2
    <3> QED BY <3>1, <3>2
  <2> QED BY <1>5, <2>1 DEF bad
<1>8. f \in {"string", "none", "bad", "object"}
  BY DEF Fragments
<1>9. CASE bad
  BY <1>1, <1>7, <1>9 DEF kind, ToolKind
<1>10. CASE ~bad /\ f = "none" /\ Said(key) = {}
  <2>1. kind = "none" /\ t.kind = "" /\ ~t.bad
    BY <1>1, <1>3, <1>4, <1>6, <1>7, <1>10
  <2> QED BY <2>1 DEF kind, ToolKind
<1>11. CASE ~bad /\ f = "none" /\ Said(key) # {}
  <2>1. kind = ""
    BY <1>1, <1>11
  <2>2. ToolKind(t) = ToolKind(old)
    BY <1>5, <1>6, <1>11 DEF ToolKind
  <2>3. Known(tools, i)
    BY <1>4, <1>11
  <2>4. (\E j \in DOMAIN said : said[j].key = key) /\ \A j \in DOMAIN said : said[j].key = key => said[j].k = ToolKind(t)
    BY <1>2, <1>2a, <1>3, <1>11, <2>2, <2>3
  <2> QED BY <2>1, <2>4 DEF kind
<1>12. CASE ~bad /\ f # "none"
  <2>1. kind = "function"
    BY <1>1, <1>12
  <2>2. f # "bad"
    BY <1>12 DEF bad
  <2>3. t.kind # "" /\ ~t.bad
    BY <1>6, <1>7, <1>8, <1>12, <2>2
  <2> QED BY <2>1, <2>3 DEF kind, ToolKind
<1> QED BY <1>9, <1>10, <1>11, <1>12

LEMMA KiroToolRekeys ==
    ASSUME Entries(said), NEW i \in {0, 1}, NEW f \in Fragments(i), KiroTool(i, f), NEW K,
           IF KiroKind(i, f) = ""
           THEN /\ \E j \in DOMAIN said : said[j].key = <<"call", i>>
                /\ \A j \in DOMAIN said : said[j].key = <<"call", i>> => said[j].k = K
           ELSE K = KiroKind(i, f)
    PROVE  Rekeyed(said, said', <<"call", i>>, K)
<1> DEFINE key == <<"call", i>>
           kind == KiroKind(i, f)
<1>1. CASE Says(kind, key, FragmentPiece(f))
  <2> HIDE DEF key, kind
  <2>1. IF kind = "" THEN (\E j \in DOMAIN said : said[j].key = key) /\ \A j \in DOMAIN said : said[j].key = key => said[j].k = K
        ELSE K = kind
    BY DEF kind, key
  <2>2. Rekeyed(said, said', key, K)
    BY <1>1, <2>1, SaysRekeys
  <2> QED BY <2>2 DEF key
<1>2. CASE /\ f = "object" /\ Said(key) # {}
           /\ said' = [n \in DOMAIN said |-> IF n \in Said(key) THEN [said[n] EXCEPT !.k = kind, !.p = NewPiece] ELSE said[n]]
  <2> DEFINE y == [n \in DOMAIN said |-> IF n \in Said(key) THEN [said[n] EXCEPT !.k = kind, !.p = NewPiece] ELSE said[n]]
  <2>1. said' = y
    BY <1>2
  <2>2. y = [n \in DOMAIN said |-> y[n]]
    OBVIOUS
  <2>3. kind # "" /\ K = kind
    <3>1. kind # ""
      BY <1>2 DEF KiroKind
    <3> QED BY <3>1
  <2>4. ASSUME NEW j \in DOMAIN said
        PROVE  /\ {"key", "k"} \subseteq DOMAIN y[j] /\ y[j].key = said[j].key
               /\ IF said[j].key = key THEN y[j].k = K ELSE y[j].k = said[j].k
    <3>1. {"key", "k"} \subseteq DOMAIN said[j] /\ (j \in Said(key) <=> said[j].key = key)
      BY DEF Entries, Said
    <3>2. y[j] = IF j \in Said(key) THEN [said[j] EXCEPT !.k = kind, !.p = NewPiece] ELSE said[j]
      OBVIOUS
    <3> HIDE DEF y, kind, key
    <3> QED BY <2>3, <3>1, <3>2
  <2> HIDE DEF y
  <2>5. \E j \in DOMAIN said : said[j].key = key
    BY <1>2 DEF Said
  <2>6. \A j \in DOMAIN said : {"key", "k"} \subseteq DOMAIN y[j] /\ y[j].key = said[j].key
    BY <2>4
  <2>7. \A j \in DOMAIN said : IF said[j].key = key THEN y[j].k = K ELSE y[j].k = said[j].k
    BY <2>4
  <2> HIDE DEF key, kind
  <2>8. Rekeyed(said, y, key, K)
    BY <2>2, <2>5, <2>6, <2>7, RekeyedSame
  <2> QED BY <2>1, <2>8 DEF key
<1> QED BY <1>1, <1>2, KiroToolIs

LEMMA KiroToolKeeps ==
    ASSUME TranslationInv, Speaks = "kiro", NEW i \in {0, 1}, NEW f \in Fragments(i), KiroTool(i, f)
    PROVE  TranslationInv'
<1> DEFINE e == Piece("tool", i, f, FragmentPiece(f))
           m == legs[1].m
           key == <<"call", i>>
<1>1. Reads(e)
  BY KiroToolIs
<1>2. Counts
  BY KiroToolIs DEF Says
<1>3. e.t = "tool"
  BY PieceType
<1>4. /\ DOMAIN upstream = UpstreamFields /\ MachineOK(m)
      /\ StopTold(m.stop, upstream.stops) /\ ToolsTold(m.tools, said)
  BY <1>1, KiroReads
<1>5. PICK old, t : /\ Held(m.tools, i, old) /\ ToolShape(t, i) /\ Fragmented(f, old, t)
                    /\ Retooled(m.tools, Fragment(m, e).tools, i, t)
  BY <1>4, FragmentTools
<1> HIDE DEF e, m
<1>6. Entries(said)
  BY <1>4 DEF ToolsTold, Entries
<1>7. IF KiroKind(i, f) = ""
      THEN (\E j \in DOMAIN said : said[j].key = <<"call", i>>)
           /\ \A j \in DOMAIN said : said[j].key = <<"call", i>> => said[j].k = ToolKind(t)
      ELSE ToolKind(t) = KiroKind(i, f)
  BY <1>4, <1>5, KiroKindIs
<1>8. Rekeyed(said, said', <<"call", i>>, ToolKind(t))
  BY <1>6, <1>7, KiroToolRekeys
<1>9. Fragment(m, e).stop = m.stop
  BY <1>4, MachineFragment
<1>10. ToolsTold(Fragment(m, e).tools, said')
  <2>1. /\ DOMAIN t = {"i", "kind", "p", "bad"} /\ t.bad \in BOOLEAN /\ t.kind \in {"", IF i = 0 THEN "string" ELSE "object"}
        /\ i # 0 => ~t.bad
    BY <1>5 DEF ToolShape
  <2> DEFINE new == Fragment(m, e).tools
             told == said'
  <2>2. Retooled(m.tools, new, i, t) /\ Rekeyed(said, told, <<"call", i>>, ToolKind(t))
    BY <1>5, <1>8
  <2> HIDE DEF new, told
  <2>3. ToolsTold(new, told)
    BY <1>4, <2>1, <2>2, ToldTool
  <2> QED BY <2>3 DEF new, told
<1>11. Handle(m, e) = Fragment(m, e)
  BY <1>3 DEF Handle
<1>12. DOMAIN upstream' = UpstreamFields /\ upstream'.stops = upstream.stops
  BY <1>2, <1>4, SaysCounts
<1>13. FrameGoes(e)
  BY <1>3, <1>4, <1>9, <1>10, <1>11, <1>12 DEF FrameGoes, FrameEvents, m
<1> QED BY <1>1, <1>13, KiroFrame

\* How grave the reasons are that the provider gives.
Mild == {"", "end_turn", "tool_use"}
Order == <<"length", "retryable", "unknown", "incomplete", "refusal">>

LEMMA OrderIs ==
    /\ DOMAIN Order = 1 .. 5 /\ Len(Order) = 5
    /\ Order[1] = "length" /\ Order[2] = "retryable" /\ Order[3] = "unknown" /\ Order[4] = "incomplete" /\ Order[5] = "refusal"
BY DEF Order

LEMMA OrderOnce == ASSUME NEW i \in 1 .. 5, NEW j \in 1 .. 5, Order[i] = Order[j] PROVE i = j
<1>1. i = 1 \/ i = 2 \/ i = 3 \/ i = 4 \/ i = 5
  OBVIOUS
<1>2. j = 1 \/ j = 2 \/ j = 3 \/ j = 4 \/ j = 5
  OBVIOUS
<1> QED BY <1>1, <1>2, OrderIs

LEMMA SeverityIs ==
    ASSUME NEW reason, NEW n \in 1 .. 5, Disposition(reason, FALSE) = Order[n]
    PROVE  Severity(reason) = 1 + n
<1> DEFINE is == Disposition(reason, FALSE)
           at == CHOOSE j \in DOMAIN Order : Order[j] = is
<1>1. Severity(reason) = IF Contains(Order, is) THEN 1 + at ELSE 1
  BY Zenon DEF Severity, Order
<1>2. is = Order[n]
  OBVIOUS
<1> HIDE DEF is
<1>3. Contains(Order, is)
  BY <1>2, OrderIs DEF Contains
<1>4. at \in DOMAIN Order /\ Order[at] = is
  BY <1>2, OrderIs
<1> HIDE DEF at
<1>5. at \in 1 .. 5 /\ Order[at] = Order[n]
  BY <1>2, <1>4, OrderIs
<1>6. at = n
  BY <1>5, OrderOnce
<1> QED BY <1>1, <1>3, <1>6

LEMMA SeverityNone ==
    ASSUME NEW reason, \A n \in 1 .. 5 : Disposition(reason, FALSE) # Order[n]
    PROVE  Severity(reason) = 1
<1> DEFINE is == Disposition(reason, FALSE)
           at == CHOOSE j \in DOMAIN Order : Order[j] = is
<1>1. Severity(reason) = IF Contains(Order, is) THEN 1 + at ELSE 1
  BY Zenon DEF Severity, Order
<1>2. \A n \in 1 .. 5 : Order[n] # is
  BY Zenon
<1> HIDE DEF is, at
<1>3. ~Contains(Order, is)
  BY <1>2, OrderIs DEF Contains
<1> QED BY <1>1, <1>3

LEMMA Severities ==
    /\ \A r \in Mild : Severity(r) = 1
    /\ Severity("max_tokens") = 2
    /\ \A r \in Failures : Severity(r) \in {3, 5}
<1>1. ASSUME NEW r \in Mild PROVE Severity(r) = 1
  <2>1. Disposition(r, FALSE) \in {"tool_use", "complete"}
    BY DEF Disposition, Mild
  <2>2. ASSUME NEW n \in 1 .. 5 PROVE Disposition(r, FALSE) # Order[n]
    <3>1. n = 1 \/ n = 2 \/ n = 3 \/ n = 4 \/ n = 5
      OBVIOUS
    <3> QED BY <2>1, <3>1, OrderIs
  <2> QED BY <2>2, SeverityNone
<1>2. Severity("max_tokens") = 2
  <2>1. Disposition("max_tokens", FALSE) = Order[1]
    BY OrderIs DEF Disposition
  <2>2. 1 \in 1 .. 5 /\ 1 + 1 = 2
    OBVIOUS
  <2>3. Severity("max_tokens") = 1 + 1
    BY <2>1, <2>2, SeverityIs
  <2> QED BY <2>2, <2>3
<1>3. ASSUME NEW r \in Failures PROVE Severity(r) \in {3, 5}
  <2>1. Disposition(r, FALSE) \in {"retryable", "incomplete"}
    BY DEF Disposition, Failures
  <2>2. Disposition(r, FALSE) = Order[2] \/ Disposition(r, FALSE) = Order[4]
    BY <2>1, OrderIs
  <2>3. 2 \in 1 .. 5 /\ 4 \in 1 .. 5
    OBVIOUS
  <2>4. Severity(r) = 1 + 2 \/ Severity(r) = 1 + 4
    BY <2>2, <2>3, SeverityIs
  <2> QED BY <2>4
<1> QED BY <1>1, <1>2, <1>3

\* The stop reason of the machine follows those the provider gave: the failure stands.
LEMMA StopFollows ==
    ASSUME NEW m, MachineOK(m), NEW stops, StopTold(m.stop, stops),
           NEW r \in {"end_turn", "tool_use", "max_tokens"} \cup Failures,
           r \in Failures => stops \cap Failures = {},
           NEW told, \A f \in Failures : f \in told <=> f \in stops \/ f = r
    PROVE  StopTold(Stop(m, r).stop, told)
<1> DEFINE s == Stop(m, r).stop
<1>1. s = IF r # "" /\ (m.stop = "" \/ Severity(r) > Severity(m.stop) \/ (r = "tool_use" /\ m.stop = "end_turn"))
          THEN r ELSE m.stop
  BY DEF Stop, MachineOK, MachineFields
<1>2. m.stop \in {"", "end_turn", "tool_use", "max_tokens"} \cup Failures /\ \A f \in Failures : f \in stops <=> m.stop = f
  BY DEF StopTold
<1>3. \A f \in Failures : f \notin {"", "end_turn", "tool_use", "max_tokens"}
  BY DEF Failures
<1>4. m.stop = "" \/ Severity(m.stop) \in {1, 2, 3, 5}
  BY <1>2, Severities DEF Mild
<1>5. CASE r \in Failures
  <2>1. m.stop \in Mild \/ m.stop = "max_tokens"
    BY <1>2, <1>5 DEF Mild
  <2>2. Severity(r) > Severity(m.stop)
    <3>1. Severity(r) \in {3, 5}
      BY <1>5, Severities
    <3>2. Severity(m.stop) \in {1, 2}
      BY <2>1, Severities
    <3> QED BY <3>1, <3>2
  <2>3. s = r
    BY <1>1, <1>3, <1>5, <2>2
  <2>4. \A f \in Failures : f \in told <=> f = r
    BY <1>5
  <2> HIDE DEF s
  <2> QED BY <1>5, <2>3, <2>4 DEF StopTold, s
<1>6. CASE r \notin Failures
  <2>1. \A f \in Failures : f \in told <=> m.stop = f
    BY <1>2, <1>6
  <2>2. m.stop \in Failures => s = m.stop
    <3> SUFFICES ASSUME m.stop \in Failures PROVE s = m.stop
      OBVIOUS
    <3>1. Severity(r) \in {1, 2}
      BY <1>6, Severities DEF Mild
    <3>2. Severity(m.stop) \in {3, 5}
      BY Severities
    <3>3. ~(Severity(r) > Severity(m.stop))
      BY <3>1, <3>2
    <3> QED BY <1>1, <1>3, <3>3
  <2>3. s = r \/ s = m.stop
    BY <1>1
  <2> HIDE DEF s
  <2>4. \A f \in Failures : s = f <=> m.stop = f
    BY <1>6, <2>2, <2>3
  <2> QED BY <1>2, <2>1, <2>3, <2>4 DEF StopTold, s
<1> QED BY <1>5, <1>6

-----------------------------------------------------------------------------
\* The other frames.
LEMMA KiroTextKeeps ==
    ASSUME TranslationInv, Speaks = "kiro", NEW k \in {"think", "text"}, WholeText(k)
    PROVE  TranslationInv'
<1> DEFINE e == Piece("text", 0, k, NewPiece)
           m == legs[1].m
           key == <<k, 0>>
<1>1. Reads(e) /\ Says(k, key, NewPiece)
  BY DEF WholeText
<1>2. Counts
  BY <1>1 DEF Says
<1>3. e.t = "text" /\ e.k = k /\ e.p = NewPiece
  BY DEF Piece, Plain
<1>4. /\ DOMAIN upstream = UpstreamFields /\ MachineOK(m)
      /\ StopTold(m.stop, upstream.stops) /\ ToolsTold(m.tools, said)
  BY <1>1, KiroReads
<1>5. \A i : key # <<"call", i>>
  OBVIOUS
<1> HIDE DEF e, m, key
<1>6. Entries(said)
  BY <1>4 DEF ToolsTold, Entries
<1>7. Rekeyed(said, said', key, k)
  BY <1>1, <1>6, SaysRekeys
<1>8. Handle(m, e) = m \/ Handle(m, e) = DeliverText(m, k, e.p)
  BY <1>3 DEF Handle
<1>9. Handle(m, e).tools = m.tools /\ Handle(m, e).stop = m.stop
  BY <1>4, <1>8, MachineDelivers
<1>10. ToolsTold(m.tools, said')
  <2> DEFINE told == said'
  <2>1. Rekeyed(said, told, key, k)
    BY <1>7
  <2> HIDE DEF told
  <2>2. ToolsTold(m.tools, told)
    BY <1>4, <1>5, <2>1, ToldOther
  <2> QED BY <2>2 DEF told
<1>11. DOMAIN upstream' = UpstreamFields /\ upstream'.stops = upstream.stops
  BY <1>2, <1>4, SaysCounts
<1>12. FrameGoes(e)
  BY <1>3, <1>4, <1>9, <1>10, <1>11 DEF FrameGoes, FrameEvents, m
<1> QED BY <1>1, <1>12, KiroFrame

\* A frame of which the provider's history has nothing.
LEMMA KiroOtherKeeps ==
    ASSUME TranslationInv, Speaks = "kiro", NEW e, Reads(e), said' = said, e.t \in FrameEvents,
           Handle(legs[1].m, e).tools = legs[1].m.tools,
           DOMAIN upstream' = UpstreamFields, StopTold(Handle(legs[1].m, e).stop, upstream'.stops)
    PROVE  TranslationInv'
<1> DEFINE m == legs[1].m
<1>1. ToolsTold(m.tools, said)
  BY KiroReads
<1>2. ToolsTold(m.tools, said')
  BY <1>1
<1>3. FrameGoes(e)
  BY <1>2 DEF FrameGoes
<1> QED BY <1>3, KiroFrame

LEMMA KiroCodeKeeps ==
    ASSUME TranslationInv, Speaks = "kiro", Reads(Piece("text", 0, "code", <<>>)), UNCHANGED <<said, upstream>>
    PROVE  TranslationInv'
<1> DEFINE e == Piece("text", 0, "code", <<>>)
           m == legs[1].m
<1>1. Reads(e) /\ said' = said /\ upstream' = upstream
  OBVIOUS
<1>2. e.t = "text" /\ e.k = "code" /\ e.p = <<>>
  BY DEF Piece, Plain
<1>3. DOMAIN upstream = UpstreamFields /\ MachineOK(m) /\ StopTold(m.stop, upstream.stops)
  BY <1>1, KiroReads
<1> HIDE DEF e, m
<1>4. Handle(m, e) = [m EXCEPT !.delivered = TRUE]
  BY <1>2 DEF Handle
<1>5. Handle(m, e).tools = m.tools /\ Handle(m, e).stop = m.stop
  BY <1>3, <1>4 DEF MachineOK, MachineFields
<1>6. StopTold(Handle(m, e).stop, upstream'.stops)
  BY <1>1, <1>3, <1>5
<1> QED BY <1>1, <1>2, <1>3, <1>5, <1>6, KiroOtherKeeps DEF FrameEvents, m

LEMMA KiroMetricsKeeps == ASSUME TranslationInv, Speaks = "kiro", KiroMetrics PROVE TranslationInv'
<1> DEFINE e == Final("metrics", "", upstream.u + 1)
           m == legs[1].m
<1>1. Reads(e) /\ said' = said /\ upstream' = [upstream EXCEPT !.u = @ + 1]
  BY DEF KiroMetrics
<1>2. e.t = "metrics"
  BY FinalType
<1>3. DOMAIN upstream = UpstreamFields /\ MachineOK(m) /\ StopTold(m.stop, upstream.stops)
  BY <1>1, KiroReads
<1>4. DOMAIN upstream' = UpstreamFields /\ upstream'.stops = upstream.stops
  BY <1>1, <1>3 DEF UpstreamFields
<1> HIDE DEF e, m
<1>5. Handle(m, e) = Counted(m, e)
  BY <1>2 DEF Handle
<1>6. Handle(m, e).tools = m.tools /\ Handle(m, e).stop = m.stop
  BY <1>3, <1>5 DEF MachineOK, MachineFields, Counted
<1>7. StopTold(Handle(m, e).stop, upstream'.stops)
  BY <1>3, <1>4, <1>6
<1> QED BY <1>1, <1>2, <1>4, <1>6, <1>7, KiroOtherKeeps DEF FrameEvents, m

\* The reasons that the provider gives.
Stops(t, r) == \/ t = "messageStop" /\ r \in Mild
               \/ t = "metadata" /\ r \in Failures \cup {"max_tokens"}

LEMMA KiroStopKeeps ==
    ASSUME TranslationInv, Speaks = "kiro", NEW t, NEW r, KiroStop(t, r), Stops(t, r)
    PROVE  TranslationInv'
<1> DEFINE e == Final(t, r, 0)
           m == legs[1].m
           reason == IF r # "" THEN r ELSE IF m.used THEN "tool_use" ELSE "end_turn"
<1>1. Reads(e) /\ said' = said /\ upstream' = [upstream EXCEPT !.stops = @ \cup {r}]
      /\ (r \in Failures => upstream.stops \cap Failures = {})
  BY DEF KiroStop
<1>2. e.t = t /\ e.k = r
  BY DEF Final, Plain
<1>3. DOMAIN upstream = UpstreamFields /\ MachineOK(m) /\ StopTold(m.stop, upstream.stops)
  BY <1>1, KiroReads
<1>4. DOMAIN upstream' = UpstreamFields /\ upstream'.stops = upstream.stops \cup {r}
  BY <1>1, <1>3 DEF UpstreamFields
<1> HIDE DEF e, m
<1>5. /\ reason \in {"end_turn", "tool_use", "max_tokens"} \cup Failures
      /\ reason = r \/ (r \notin Failures /\ reason \notin Failures)
  BY DEF Mild, Failures, Stops
<1>6. Handle(m, e).tools = Stop(m, reason).tools /\ Handle(m, e).stop = Stop(m, reason).stop
  <2>1. MachineOK(Stop(m, reason))
    BY <1>3, MachineStop
  <2>2. CASE t = "messageStop"
    <3>1. Handle(m, e) = [Stop(m, reason) EXCEPT !.explicit = TRUE]
      BY <1>2, <2>2 DEF Handle
    <3> HIDE DEF reason
    <3> QED BY <2>1, <3>1 DEF MachineOK, MachineFields
  <2>3. CASE t = "metadata" /\ r # ""
    <3>1. reason = r
      BY <2>3
    <3>2. Handle(m, e) = [Stop(m, reason) EXCEPT !.explicit = @ \/ e.k # ""]
      BY <1>2, <2>3, <3>1 DEF Handle
    <3> HIDE DEF reason
    <3> QED BY <2>1, <3>2 DEF MachineOK, MachineFields
  <2> QED BY <2>2, <2>3 DEF Failures, Stops
<1> HIDE DEF reason
<1>7. \A f \in Failures : f \in upstream'.stops <=> f \in upstream.stops \/ f = reason
  BY <1>4, <1>5
<1>8. reason \in Failures => upstream.stops \cap Failures = {}
  BY <1>1, <1>5
<1>9. StopTold(Stop(m, reason).stop, upstream'.stops)
  <2> DEFINE told == upstream'.stops
  <2>1. \A f \in Failures : f \in told <=> f \in upstream.stops \/ f = reason
    BY <1>7
  <2> HIDE DEF told
  <2>2. StopTold(Stop(m, reason).stop, told)
    BY <1>3, <1>5, <1>8, <2>1, StopFollows
  <2> QED BY <2>2 DEF told
<1>10. Handle(m, e).tools = m.tools
  BY <1>3, <1>6, MachineStop
<1>11. StopTold(Handle(m, e).stop, upstream'.stops)
  BY <1>6, <1>9
<1>12. e.t \in FrameEvents
  BY <1>2 DEF FrameEvents, Stops
<1> QED BY <1>1, <1>4, <1>10, <1>11, <1>12, KiroOtherKeeps DEF m

\* A call that the gate could release was told, and a failure that was told is no finish.
LEMMA UsableTold ==
    ASSUME NEW m, MachineOK(m), ToolsTold(m.tools, said), AnyUsable(m)
    PROVE  \E j \in DOMAIN said : IsCall(said[j])
<1>1. PICK n \in DOMAIN m.tools : Usable(m.tools[n])
  BY DEF AnyUsable
<1>2. ToolTold(m.tools[n], said)
  BY <1>1 DEF ToolsTold
<1>3. PICK j \in DOMAIN said : said[j].key = <<"call", m.tools[n].i>>
  BY <1>2 DEF ToolTold
<1>4. ToolKind(m.tools[n]) = "function"
  BY <1>1 DEF ToolKind, Usable
<1>5. said[j].k = "function"
  BY <1>2, <1>3, <1>4 DEF ToolTold
<1> QED BY <1>5 DEF IsCall, TextKinds

LEMMA FailureJudged ==
    ASSUME NEW m, Judged(m) \in Finishes
    PROVE  m.stop \notin {"malformed_model_output", "cancelled"}
<1> SUFFICES ASSUME m.stop \in {"malformed_model_output", "cancelled"} PROVE FALSE
  OBVIOUS
<1> DEFINE declared == Disposition(m.stop, m.used)
<1>1. declared \in {"retryable", "incomplete"}
  BY DEF Disposition
<1>2. m.stop \notin Truncations /\ declared \in Failing
  BY <1>1 DEF Truncations, Failing
<1>3. Judged(m) = declared
  BY <1>2 DEF Judged
<1> QED BY <1>1, <1>3 DEF Finishes

LEMMA KiroEndsKeeps == ASSUME TranslationInv, Speaks = "kiro", NEW v \in {"", "vain"}, KiroEnds(v) PROVE TranslationInv'
<1> DEFINE e == Final("eof", v, 0)
           m == legs[1].m
           fails == {"malformed_model_output", "cancelled"}
<1>1. /\ Reads(e) /\ said' = said
      /\ upstream' = [upstream EXCEPT !.ended = TRUE, !.finished = v = "" /\ upstream.stops \cap fails = {}]
      /\ v = "vain" => \A n \in DOMAIN said : ~IsCall(said[n])
  BY DEF KiroEnds
<1>2. e.t = "eof" /\ e.k = v
  BY DEF Final, Plain
<1>3. DOMAIN upstream = UpstreamFields /\ MachineOK(m) /\ StopTold(m.stop, upstream.stops) /\ ToolsTold(m.tools, said)
  BY <1>1, KiroReads
<1>4. DOMAIN upstream' = UpstreamFields /\ upstream'.ended /\ (upstream'.finished <=> v = "" /\ upstream.stops \cap fails = {})
  BY <1>1, <1>3 DEF UpstreamFields
<1> HIDE DEF e, m
<1>5. ASSUME GateVerdict(m, e) \in Finishes PROVE v = "" /\ upstream.stops \cap fails = {}
  <2>1. GateVerdict(m, e) = IF v = "vain" /\ Judged(m) \in Finishes /\ ~AnyUsable(m) THEN "vain" ELSE Judged(m)
    BY <1>2 DEF GateVerdict
  <2>2. ~(v = "vain" /\ Judged(m) \in Finishes /\ ~AnyUsable(m))
    <3>1. "vain" \notin Finishes
      BY DEF Finishes
    <3> QED BY <1>5, <2>1, <3>1
  <2>3. Judged(m) \in Finishes
    BY <1>5, <2>1, <2>2
  <2>4. v # "vain"
    <3> SUFFICES ASSUME v = "vain" PROVE FALSE
      OBVIOUS
    <3>1. AnyUsable(m)
      BY <2>2, <2>3
    <3>2. \E j \in DOMAIN said : IsCall(said[j])
      BY <1>3, <3>1, UsableTold
    <3> QED BY <1>1, <3>2
  <2>5. m.stop \notin fails
    BY <2>3, FailureJudged
  <2>6. upstream.stops \cap fails = {}
    BY <1>3, <2>5 DEF StopTold, Failures
  <2> QED BY <2>4, <2>6
<1>6. OverGoes(e)
  BY <1>2, <1>4, <1>5 DEF OverGoes, m
<1> QED BY <1>1, <1>6, KiroOver

LEMMA KiroKeeps == ASSUME TranslationInv, Speaks = "kiro", Kiro PROVE TranslationInv'
<1>1. CASE \E k \in {"think", "text"} : WholeText(k)
  BY <1>1, KiroTextKeeps
<1>2. CASE Reads(Piece("text", 0, "code", <<>>)) /\ UNCHANGED <<said, upstream>>
  BY <1>2, KiroCodeKeeps
<1>3. CASE \E f \in {"string", "none", "bad"} : KiroTool(0, f)
  <2>1. PICK f \in {"string", "none", "bad"} : KiroTool(0, f)
    BY <1>3
  <2>2. f \in Fragments(0) /\ 0 \in {0, 1}
    BY DEF Fragments
  <2> QED BY <2>1, <2>2, KiroToolKeeps
<1>4. CASE \E f \in {"object", "none"} : KiroTool(1, f)
  <2>1. PICK f \in {"object", "none"} : KiroTool(1, f)
    BY <1>4
  <2>2. f \in Fragments(1) /\ 1 \in {0, 1}
    BY DEF Fragments
  <2> QED BY <2>1, <2>2, KiroToolKeeps
<1>5. CASE \E r \in {"", "end_turn", "tool_use"} : KiroStop("messageStop", r)
  <2>1. PICK r \in Mild : KiroStop("messageStop", r)
    BY <1>5 DEF Mild
  <2>2. Stops("messageStop", r)
    BY <2>1 DEF Stops
  <2> QED BY <2>1, <2>2, KiroStopKeeps
<1>6. CASE \E r \in Failures \cup {"max_tokens"} : KiroStop("metadata", r)
  <2>1. PICK r \in Failures \cup {"max_tokens"} : KiroStop("metadata", r)
    BY <1>6
  <2>2. Stops("metadata", r)
    BY <2>1 DEF Stops
  <2> QED BY <2>1, <2>2, KiroStopKeeps
<1>7. CASE KiroMetrics
  BY <1>7, KiroMetricsKeeps
<1>8. CASE \E v \in {"", "vain"} : KiroEnds(v)
  BY <1>8, KiroEndsKeeps
<1> QED BY <1>1, <1>2, <1>3, <1>4, <1>5, <1>6, <1>7, <1>8 DEF Kiro

LEMMA KiroFails == ASSUME TranslationInv, Breaks, Speaks = "kiro" PROVE TranslationInv'
<1>1. PICK t \in {"error", "broken"} : Reads(Plain(t))
  BY DEF Breaks
<1>2. upstream' = [upstream EXCEPT !.ended = TRUE]
  BY DEF Breaks
<1> QED BY <1>1, <1>2, KiroBreaks

LEMMA ProviderKeeps == ASSUME TranslationInv, Provider PROVE TranslationInv'
<1>1. CASE Breaks
  BY <1>1, BreaksKeeps, KiroFails
<1>2. CASE ~Breaks
  <2>1. \/ Speaks = "chat" /\ Chat
        \/ Speaks = "messages" /\ Messages
        \/ Speaks = "responses" /\ Responses
        \/ Speaks = "ollama" /\ Ollama
        \/ Speaks = "gemini" /\ Gemini
        \/ Speaks = "commandcode" /\ Command
        \/ Speaks = "kiro" /\ Kiro
    BY <1>2 DEF Provider
  <2> QED BY <2>1, ChatKeeps, MessagesKeeps, ResponsesKeeps, OllamaKeeps, GeminiKeeps, CommandKeeps, KiroKeeps
<1> QED BY <1>1, <1>2

-----------------------------------------------------------------------------
(* What is proved of Translation *)
LEMMA FreshLegIs ==
    ASSUME NEW leg \in LegNames
    PROVE  /\ DOMAIN FreshLeg[leg] = Fields(leg) /\ FreshLeg[leg].end = "" /\ FreshLeg[leg].out = <<>>
           /\ Kept(leg, FreshLeg[leg])
           /\ leg \in {"CM", "CR"} => ~FreshLeg[leg].started
           /\ leg = "CM" => ~FreshLeg[leg].seen
           /\ leg = "GC" => FreshLeg[leg].finish = ""
           /\ leg \in Gates => FreshLeg[leg] = Gate0
<1>0. IsSeq(<<>>)
  BY DEF IsSeq
<1>1. CASE leg = "CM"
  <2>1. FreshLeg[leg] = ChatToMessages0
    BY <1>1 DEF FreshLeg
  <2>2. DOMAIN ChatToMessages0 = CMFields /\ ChatToMessages0.end = "" /\ ChatToMessages0.out = <<>>
      /\ ~ChatToMessages0.started /\ ~ChatToMessages0.seen /\ ChatToMessages0.calls = <<>>
    BY DEF ChatToMessages0, CMFields
  <2>3. Fields(leg) = CMFields /\ leg \notin Gates
    BY <1>1 DEF Fields, Gates
  <2> QED BY <1>0, <1>1, <2>1, <2>2, <2>3 DEF Kept
<1>2. CASE leg = "CR"
  <2>1. FreshLeg[leg] = ChatToResponses0
    BY <1>2 DEF FreshLeg
  <2>2. DOMAIN ChatToResponses0 = CRFields /\ ChatToResponses0.end = "" /\ ChatToResponses0.out = <<>>
      /\ ~ChatToResponses0.started /\ ChatToResponses0.items = <<>>
    BY DEF ChatToResponses0, CRFields
  <2>3. Fields(leg) = CRFields /\ leg \notin Gates
    BY <1>2 DEF Fields, Gates
  <2> QED BY <1>0, <1>2, <2>1, <2>2, <2>3 DEF Kept
<1>3. CASE leg = "MC"
  <2>1. FreshLeg[leg] = MessagesToChat0
    BY <1>3 DEF FreshLeg
  <2>2. DOMAIN MessagesToChat0 = MCFields /\ MessagesToChat0.end = "" /\ MessagesToChat0.out = <<>>
    BY DEF MessagesToChat0, MCFields
  <2>3. Fields(leg) = MCFields /\ leg \notin Gates
    BY <1>3 DEF Fields, Gates
  <2> QED BY <1>0, <1>3, <2>1, <2>2, <2>3 DEF Kept
<1>4. CASE leg = "RC"
  <2>1. FreshLeg[leg] = ResponsesToChat0
    BY <1>4 DEF FreshLeg
  <2>2. DOMAIN ResponsesToChat0 = RCFields /\ ResponsesToChat0.end = "" /\ ResponsesToChat0.out = <<>>
    BY DEF ResponsesToChat0, RCFields
  <2>3. Fields(leg) = RCFields /\ leg \notin Gates
    BY <1>4 DEF Fields, Gates
  <2> QED BY <1>0, <1>4, <2>1, <2>2, <2>3 DEF Kept
<1>5. CASE leg = "OC"
  <2>1. FreshLeg[leg] = OllamaToChat0
    BY <1>5 DEF FreshLeg
  <2>2. DOMAIN OllamaToChat0 = OCFields /\ OllamaToChat0.end = "" /\ OllamaToChat0.out = <<>>
    BY DEF OllamaToChat0, OCFields
  <2>3. Fields(leg) = OCFields /\ leg \notin Gates
    BY <1>5 DEF Fields, Gates
  <2> QED BY <1>0, <1>5, <2>1, <2>2, <2>3 DEF Kept
<1>6. CASE leg = "GC"
  <2>1. FreshLeg[leg] = GeminiToChat0
    BY <1>6 DEF FreshLeg
  <2>2. DOMAIN GeminiToChat0 = GCFields /\ GeminiToChat0.end = "" /\ GeminiToChat0.out = <<>> /\ GeminiToChat0.finish = ""
    BY DEF GeminiToChat0, GCFields
  <2>3. Fields(leg) = GCFields /\ leg \notin Gates
    BY <1>6 DEF Fields, Gates
  <2> QED BY <1>0, <1>6, <2>1, <2>2, <2>3 DEF Kept
<1>7. CASE leg = "DC"
  <2>1. FreshLeg[leg] = CommandToChat0
    BY <1>7 DEF FreshLeg
  <2>2. DOMAIN CommandToChat0 = DCFields /\ CommandToChat0.end = "" /\ CommandToChat0.out = <<>> /\ CommandToChat0.calls = <<>>
    BY DEF CommandToChat0, DCFields
  <2>3. Fields(leg) = DCFields /\ leg \notin Gates
    BY <1>7 DEF Fields, Gates
  <2> QED BY <1>0, <1>7, <2>1, <2>2, <2>3 DEF Kept
<1>8. CASE leg \in Gates
  <2>1. FreshLeg[leg] = Gate0
    BY <1>8 DEF FreshLeg, Gates
  <2>2. Fields(leg) = GateFields
    BY <1>8 DEF Fields, Gates
  <2>3. Gate0.m = Machine0 /\ DOMAIN Gate0 = GateFields /\ Gate0.end = "" /\ Gate0.out = <<>>
    BY DEF Gate0, GateFields
  <2>4. Kept(leg, Gate0)
    BY <1>8, <2>3, NewMachine DEF Kept, Gates
  <2> QED BY <1>8, <2>1, <2>2, <2>3, <2>4 DEF Gates
<1> QED BY <1>1, <1>2, <1>3, <1>4, <1>5, <1>6, <1>7, <1>8 DEF LegNames, Gates

LEMMA TranslationStarts == ASSUME TranslationInit PROVE TranslationInv
<1>1. /\ route \in Routes /\ legs = [n \in DOMAIN route |-> FreshLeg[route[n]]] /\ said = <<>> /\ upstream = Upstream0
      /\ client = Client0 /\ present = TRUE /\ stopped = FALSE /\ result = ""
  BY DEF TranslationInit
<1>2. /\ \/ Len(route) = 1 /\ DOMAIN route = {1} /\ route[1] \in LegNames
         \/ Len(route) = 2 /\ DOMAIN route = {1, 2} /\ route[1] \in LegNames /\ route[2] \in {"CM", "CR"} /\ Tells(route[1]) = "chat"
      /\ {"CM", "CR"} \subseteq LegNames
  <2>1. route \in AllRoutes
    BY <1>1, TranslationAssumption
  <2> QED BY <2>1, RouteOK DEF LegNames
<1>3. DOMAIN legs = DOMAIN route /\ \A n \in DOMAIN route : legs[n] = FreshLeg[route[n]] /\ route[n] \in LegNames
  BY <1>1, <1>2
<1>4. \A n \in DOMAIN route : /\ DOMAIN legs[n] = Fields(route[n]) /\ legs[n].end = "" /\ legs[n].out = <<>>
                              /\ Kept(route[n], legs[n])
  <2> SUFFICES ASSUME NEW n \in DOMAIN route
               PROVE  /\ DOMAIN legs[n] = Fields(route[n]) /\ legs[n].end = "" /\ legs[n].out = <<>>
                      /\ Kept(route[n], legs[n])
    OBVIOUS
  <2> DEFINE leg == route[n]
  <2>1. legs[n] = FreshLeg[leg] /\ leg \in LegNames
    BY <1>3
  <2> HIDE DEF leg
  <2>2. DOMAIN FreshLeg[leg] = Fields(leg) /\ FreshLeg[leg].end = "" /\ FreshLeg[leg].out = <<>> /\ Kept(leg, FreshLeg[leg])
    BY <2>1, FreshLegIs
  <2> QED BY <2>1, <2>2 DEF leg
<1>5. Frame
  BY <1>1, <1>3, <1>4 DEF Frame, Upstream0, UpstreamFields
<1>6. ASSUME NEW n \in DOMAIN route, NEW protocol PROVE Told(legs[n], Fields(route[n]), protocol)
  <2>1. Stream(legs[n].out, Quiet(protocol))
    BY <1>4, StreamEmpty
  <2> QED BY <1>4, <2>1, FieldsHave DEF Told, Calm
<1>7. 1 \in DOMAIN route /\ LastLeg \in DOMAIN route
  BY <1>2 DEF LastLeg
<1>8. Linked
  <2>1. legs[1] = FreshLeg[route[1]] /\ route[1] \in LegNames
    BY <1>3, <1>7
  <2>2. IsSeq(said)
    <3>1. IsSeq(<<>>)
      BY DEF IsSeq
    <3> QED BY <1>1, <3>1
  <2>3. ASSUME route[1] \in Gates PROVE KiroLinked(legs[1], said, upstream)
    <3>1. legs[1] = Gate0
      BY <2>1, <2>3, FreshLegIs
    <3>2. Gate0.out = <<>> /\ ~Gate0.asks /\ Gate0.m.stop = "" /\ Gate0.m.tools = <<>>
      BY DEF Gate0, Machine0
    <3>3. upstream.stops = {}
      BY <1>1 DEF Upstream0
    <3>4. StopTold("", upstream.stops)
      BY <3>3 DEF StopTold, Failures
    <3>5. ToolsTold(<<>>, said)
      <4>1. said = <<>> /\ IsSeq(<<>>)
        BY <1>1, <2>2
      <4> QED BY <4>1 DEF ToolsTold
    <3> QED BY <3>1, <3>2, <3>4, <3>5 DEF KiroLinked
  <2> QED BY <2>1, <2>2, <2>3, FreshLegIs DEF Linked
<1>9. Listening(client)
  BY <1>1 DEF Client0, Listening, ClientFields
<1>10. Shown
  BY <1>4, <1>6, <1>7, <1>9 DEF Shown, LastLeg
<1>11. Handed
  <2>1. Chained => 2 \in DOMAIN route
    BY <1>2 DEF Chained, LastLeg
  <2> QED BY <1>4, <1>6, <1>7, <2>1 DEF Handed
<1>12. Finality
  BY <1>1 DEF Finality
<1>13. ~Complete(client) /\ legs[1].end # "ok"
  BY <1>4, <1>7, <1>9 DEF Complete, Listening
<1> QED BY <1>5, <1>8, <1>10, <1>11, <1>12, <1>13 DEF TranslationInv

LEMMA TranslationSteps == ASSUME TranslationInv, [TranslationNext]_answerVars PROVE TranslationInv'
<1>1. CASE TranslationNext
  BY <1>1, ProviderKeeps, SilentKeeps, RepairKeeps, LegStepKeeps, ClientLeavesKeeps DEF TranslationNext
<1>2. CASE UNCHANGED answerVars
  BY <1>2, StutterKeeps
<1> QED BY <1>1, <1>2

\* What the client, the legs and the provider's stream have to do with each other holds at all
\* times, for any routes of AllRoutes and answers of any length.
THEOREM TranslationInvariant == TranslationSpec => []TranslationInv
<1>1. TranslationInit => TranslationInv
  BY TranslationStarts
<1>2. TranslationInv /\ [TranslationNext]_answerVars => TranslationInv'
  BY TranslationSteps
<1> QED BY <1>1, <1>2, PTL DEF TranslationSpec

\* A client is never shown the end of an answer that the provider did not finish, whatever the
\* protocols between them, and the translation that returns to a client that stayed reports
\* success exactly if that client was shown a whole answer (translate.go, openai.go:291-308).
THEOREM CutIsToldAlways == TranslationSpec => []CutIsTold
<1>1. TranslationInv => CutIsTold
  <2> SUFFICES ASSUME TranslationInv PROVE CutIsTold
    OBVIOUS
  <2>1. Complete(client) => upstream.finished
    BY DEF TranslationInv
  <2>2. ASSUME result # "", present PROVE client.over /\ (result = "ok" <=> Complete(client))
    <3>1. Shown /\ Finality /\ Frame
      BY <2>2 DEF TranslationInv
    <3>2. LastLeg \in DOMAIN route
      BY <3>1, Shape
    <3>3. Returned(LastLeg) /\ (result = "ok" <=> legs[LastLeg].end = "ok")
      BY <2>2, <3>1, <3>2 DEF Finality
    <3>4. PICK failed \in BOOLEAN : Heard(client, failed) /\ (failed <=> legs[LastLeg].end # "ok")
      BY <3>1, <3>3 DEF Shown, Returned
    <3> QED BY <3>3, <3>4 DEF Heard, Complete
  <2> QED BY <2>1, <2>2 DEF CutIsTold
<1> QED BY <1>1, TranslationInvariant, PTL
=============================================================================
