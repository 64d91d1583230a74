---------------------------- MODULE FusionProofs ----------------------------
(***************************************************************************)
(* Proofs about Fusion, for any Combos, however they nest, and any         *)
(* clients: that slots are taken by Fusions that run, and given back; that *)
(* on no writer is a second answer begun; that no call runs for a caller   *)
(* that is gone.  The last two rest on an invariant of the tree of calls:  *)
(* of those that share a writer the running ones wait each for the next,   *)
(* so the foremost may write, and nothing is written where it may.         *)
(***************************************************************************)
EXTENDS Fusion, FiniteSetTheorems, SequenceTheorems, TLAPS

-----------------------------------------------------------------------------
(* Slots: the inductive invariant *)

\* What of a call says whether it holds a slot: there is a record for each call made.
Shaped(r) == r = [target |-> r.target, at |-> r.at, result |-> r.result, leg |-> r.leg, oks |-> r.oks,
                  texts |-> r.texts, written |-> r.written]

Shape == IsFiniteSet(DOMAIN calls) /\ calls = [p \in DOMAIN calls |-> calls[p]] /\ \A p \in DOMAIN calls : Shaped(calls[p])

Holding == {p \in DOMAIN calls : Holds(p)}

IInv == Shape /\ slots \in Nat /\ SlotsHeld

\* Whether a call with this record holds one.
HoldsBy(r) == r.target \in Fusions /\ Len(Members[r.target]) > 1 /\ r.at \in {"panel", "last"}

LEMMA HoldsIs == \A p : (Holds(p) <=> HoldsBy(calls[p])) /\ (Holds(p)' <=> HoldsBy(calls'[p]))
BY DEF Holds, HoldsBy

-----------------------------------------------------------------------------
(* Counting *)

\* Calls that hold nothing come, and no other call changes what it holds.
LEMMA Kept ==
    ASSUME IInv, Shape', DOMAIN calls \subseteq DOMAIN calls',
           \A p \in DOMAIN calls : HoldsBy(calls'[p]) <=> HoldsBy(calls[p]),
           \A p \in DOMAIN calls' \ DOMAIN calls : ~HoldsBy(calls'[p]),
           UNCHANGED slots
    PROVE  IInv'
<1>1. Holding' = Holding
  BY HoldsIs DEF Holding
<1> QED
  BY <1>1 DEF IInv, SlotsHeld, Holding

LEMMA HoldingFinite == Shape => IsFiniteSet(Holding)
BY FS_Subset DEF Shape, Holding

\* One call comes to hold a slot.
LEMMA Taken ==
    ASSUME IInv, Shape', NEW p \in DOMAIN calls, ~HoldsBy(calls[p]), HoldsBy(calls'[p]),
           DOMAIN calls \subseteq DOMAIN calls',
           \A q \in DOMAIN calls \ {p} : HoldsBy(calls'[q]) <=> HoldsBy(calls[q]),
           \A q \in DOMAIN calls' \ DOMAIN calls : ~HoldsBy(calls'[q]),
           slots < MaxConcurrent, slots' = slots + 1
    PROVE  IInv'
<1>1. Holding' = Holding \cup {p} /\ p \notin Holding
  BY HoldsIs DEF Holding
<1>2. IsFiniteSet(Holding) /\ slots \in Nat /\ slots = Cardinality(Holding)
  BY HoldingFinite DEF IInv, SlotsHeld, Holding
<1>3. Cardinality(Holding') = slots + 1
  BY <1>1, <1>2, FS_AddElement
<1>4. slots' <= MaxConcurrent /\ slots' \in Nat
  BY <1>2, FusionAssumption
<1> QED
  BY <1>3, <1>4 DEF IInv, SlotsHeld, Holding

\* One call comes to hold none.
LEMMA Given ==
    ASSUME IInv, Shape', NEW p \in DOMAIN calls, HoldsBy(calls[p]), ~HoldsBy(calls'[p]),
           DOMAIN calls' = DOMAIN calls,
           \A q \in DOMAIN calls \ {p} : HoldsBy(calls'[q]) <=> HoldsBy(calls[q]),
           slots' = slots - 1
    PROVE  IInv'
<1>1. Holding' = Holding \ {p} /\ p \in Holding
  BY HoldsIs DEF Holding
<1>2. IsFiniteSet(Holding) /\ slots \in Nat /\ slots = Cardinality(Holding) /\ slots <= MaxConcurrent
  BY HoldingFinite DEF IInv, SlotsHeld, Holding
<1>3. Cardinality(Holding') = slots - 1
  BY <1>1, <1>2, FS_RemoveElement
<1>4. slots - 1 \in Nat
  <2>1. Cardinality(Holding') \in Nat
    BY <1>1, <1>2, FS_RemoveElement, FS_CardinalityType
  <2> QED
    BY <1>3, <2>1
<1> QED
  BY <1>2, <1>3, <1>4, FusionAssumption DEF IInv, SlotsHeld, Holding

-----------------------------------------------------------------------------
(* The steps *)

\* A new call holds nothing.
LEMMA NewCallIs ==
    ASSUME NEW target
    PROVE  /\ Shaped(NewCall(target)) /\ NewCall(target).at \in {"serving", "enter"} /\ ~HoldsBy(NewCall(target))
           /\ NewCall(target).target = target /\ NewCall(target).result = "nothing"
           /\ NewCall(target).leg = 0 /\ NewCall(target).written = 0
BY DEF NewCall, Shaped, HoldsBy

\* What a call is that goes over to its judge, or to its next member.
LEMMA LastIs ==
    ASSUME NEW call, Shaped(call), NEW r, r = [call EXCEPT !.at = "last", !.texts = {}, !.oks = 0]
    PROVE  /\ Shaped(r) /\ r.target = call.target /\ r.at = "last"
           /\ r.leg = call.leg /\ r.result = call.result /\ r.written = call.written
<1>1. Shaped(r)
  BY DEF Shaped
<1>2. r.target = call.target /\ r.leg = call.leg /\ r.result = call.result /\ r.written = call.written
  BY DEF Shaped
<1>3. r.at = "last"
  BY DEF Shaped
<1> QED
  BY <1>1, <1>2, <1>3

LEMMA MemberIs ==
    ASSUME NEW call, Shaped(call), NEW i, NEW r, r = [call EXCEPT !.at = "member", !.leg = i]
    PROVE  /\ Shaped(r) /\ r.at = "member" /\ r.leg = i
           /\ r.target = call.target /\ r.result = call.result /\ r.written = call.written
<1>1. Shaped(r)
  BY DEF Shaped
<1>2. /\ r.at = "member" /\ r.leg = i
      /\ r.target = call.target /\ r.result = call.result /\ r.written = call.written
  BY DEF Shaped
<1> QED
  BY <1>1, <1>2

\* Counting what was written changes nothing else of a call.
LEMMA MarkedIs ==
    ASSUME NEW cs, NEW ws, \A q \in DOMAIN cs : Shaped(cs[q])
    PROVE  /\ DOMAIN Marked(cs, ws) = DOMAIN cs /\ Marked(cs, ws) = [q \in DOMAIN cs |-> Marked(cs, ws)[q]]
           /\ \A q \in DOMAIN cs :
                LET r == Marked(cs, ws)[q] IN
                /\ Shaped(r) /\ r.target = cs[q].target /\ r.at = cs[q].at
                /\ r.leg = cs[q].leg /\ r.result = cs[q].result
                /\ r.written = IF q \in ws THEN cs[q].written + 1 ELSE cs[q].written
<1>1. ASSUME NEW q \in DOMAIN cs
      PROVE  LET r == [cs[q] EXCEPT !.written = @ + 1] IN
             /\ Shaped(r) /\ r.target = cs[q].target /\ r.at = cs[q].at
             /\ r.leg = cs[q].leg /\ r.result = cs[q].result /\ r.written = cs[q].written + 1
  BY <1>1 DEF Shaped
<1> QED
  BY <1>1 DEF Marked

\* A handler that returns gives back the slot it held.
LEMMA ReturnGives ==
    ASSUME IInv, NEW p \in DOMAIN calls, NEW result, NEW writers, Return(p, result, writers)
    PROVE  IInv'
<1> DEFINE last == Ended(calls[p], IF ~Cancelled(p) THEN result ELSE "nothing")
           cs == [calls EXCEPT ![p] = last]
<1>1. calls' = Marked(cs, writers) /\ slots' = Released(p)
  BY DEF Return
<1>2. Shaped(last) /\ last.at = "returned"
  BY DEF Ended, Shaped
<1> HIDE DEF last
<1>3. /\ DOMAIN cs = DOMAIN calls /\ cs[p] = last
      /\ \A q \in DOMAIN calls \ {p} : cs[q] = calls[q]
      /\ \A q \in DOMAIN cs : Shaped(cs[q])
  BY <1>2 DEF IInv, Shape
<1> HIDE DEF cs
<1>4. /\ DOMAIN calls' = DOMAIN calls /\ calls' = [q \in DOMAIN calls' |-> calls'[q]]
      /\ \A q \in DOMAIN calls : /\ Shaped(calls'[q])
                                 /\ calls'[q].target = cs[q].target /\ calls'[q].at = cs[q].at
  BY <1>1, <1>3, MarkedIs
<1>5. Shape'
  BY <1>4 DEF IInv, Shape
<1>6. /\ ~HoldsBy(calls'[p])
      /\ \A q \in DOMAIN calls \ {p} : HoldsBy(calls'[q]) <=> HoldsBy(calls[q])
  BY <1>2, <1>3, <1>4 DEF HoldsBy
<1>7. CASE Holds(p)
  BY <1>1, <1>4, <1>5, <1>6, <1>7, HoldsIs, Given DEF Released
<1>8. CASE ~Holds(p)
  BY <1>1, <1>4, <1>5, <1>6, <1>8, HoldsIs, Kept DEF Released
<1> QED
  BY <1>7, <1>8

LEMMA FailGives == ASSUME IInv, NEW p \in DOMAIN calls, Fail(p) PROVE IInv'
BY ReturnGives DEF Fail

\* A call that goes from one place to another, with calls begun beside it.
LEMMA Moved ==
    ASSUME IInv, NEW p \in DOMAIN calls, NEW r, Shaped(r), NEW new, IsFiniteSet(DOMAIN new),
           \A q \in DOMAIN new : Shaped(new[q]) /\ ~HoldsBy(new[q]),
           calls' = Beside([calls EXCEPT ![p] = r], new)
    PROVE  /\ Shape' /\ DOMAIN calls \subseteq DOMAIN calls' /\ calls'[p] = r
           /\ \A q \in DOMAIN calls \ {p} : calls'[q] = calls[q]
           /\ \A q \in DOMAIN calls' \ DOMAIN calls : ~HoldsBy(calls'[q])
           /\ \A q \in DOMAIN calls' \ DOMAIN calls : q \in DOMAIN new /\ calls'[q] = new[q]
<1> DEFINE cs == [calls EXCEPT ![p] = r]
<1>1. /\ DOMAIN cs = DOMAIN calls /\ cs[p] = r /\ \A q \in DOMAIN calls \ {p} : cs[q] = calls[q]
      /\ \A q \in DOMAIN calls : Shaped(cs[q])
  BY DEF IInv, Shape
<1> HIDE DEF cs
<1>2. calls' = [q \in DOMAIN calls \cup DOMAIN new |-> IF q \in DOMAIN calls THEN cs[q] ELSE new[q]]
  BY <1>1 DEF Beside, cs
<1>3. IsFiniteSet(DOMAIN calls \cup DOMAIN new)
  BY FS_Union DEF IInv, Shape
<1>4. /\ DOMAIN calls' = DOMAIN calls \cup DOMAIN new
      /\ \A q \in DOMAIN calls : calls'[q] = cs[q]
      /\ \A q \in DOMAIN calls' \ DOMAIN calls : calls'[q] = new[q] /\ q \in DOMAIN new
  BY <1>2
<1>5. Shape'
  BY <1>1, <1>2, <1>3, <1>4 DEF Shape
<1> QED
  BY <1>1, <1>4, <1>5

\* The same with one call begun.
LEMMA MovedOne ==
    ASSUME IInv, NEW p \in DOMAIN calls, NEW r, Shaped(r), NEW q, NEW target,
           calls' = Begun([calls EXCEPT ![p] = r], q, target)
    PROVE  /\ Shape' /\ DOMAIN calls \subseteq DOMAIN calls' /\ calls'[p] = r
           /\ \A o \in DOMAIN calls \ {p} : calls'[o] = calls[o]
           /\ \A o \in DOMAIN calls' \ DOMAIN calls : ~HoldsBy(calls'[o])
           /\ \A o \in DOMAIN calls' \ DOMAIN calls : o = q /\ calls'[o] = NewCall(target)
<1> DEFINE new == [x \in {q} |-> NewCall(target)]
<1>1. /\ IsFiniteSet(DOMAIN new) /\ \A x \in DOMAIN new : Shaped(new[x]) /\ ~HoldsBy(new[x])
      /\ calls' = Beside([calls EXCEPT ![p] = r], new)
  BY NewCallIs, FS_Singleton DEF Begun
<1>2. DOMAIN new = {q} /\ new[q] = NewCall(target)
  OBVIOUS
<1> HIDE DEF new
<1> QED
  BY <1>1, <1>2, Moved

LEMMA BeginKeeps == ASSUME IInv, NEW c \in Clients, Begin(c) PROVE IInv'
<1> PICK target \in Asks[c] : calls' = Begun(calls, <<c>>, target) /\ UNCHANGED slots
  BY DEF Begin
<1>1. /\ calls' = [q \in DOMAIN calls' |-> calls'[q]] /\ DOMAIN calls' = DOMAIN calls \cup {<<c>>}
      /\ \A q \in DOMAIN calls : calls'[q] = calls[q]
      /\ \A q \in DOMAIN calls' \ DOMAIN calls : calls'[q] = NewCall(target)
  BY DEF Begun, Beside
<1>2. IsFiniteSet(DOMAIN calls')
  BY <1>1, FS_AddElement DEF IInv, Shape
<1>3. Shape'
  BY <1>1, <1>2, NewCallIs DEF IInv, Shape
<1> QED
  BY <1>1, <1>3, NewCallIs, Kept

LEMMA OnlyMemberKeeps == ASSUME IInv, NEW p \in DOMAIN calls, OnlyMember(p) PROVE IInv'
<1> DEFINE r == [calls[p] EXCEPT !.at = "last"]
           target == Members[calls[p].target][1]
<1>1. Shaped(r) /\ r.target = calls[p].target
  BY DEF IInv, Shape, Shaped
<1>2. /\ calls' = Begun([calls EXCEPT ![p] = r], Leg(p, 0), target) /\ UNCHANGED slots
      /\ calls[p].at = "enter" /\ Len(Members[calls[p].target]) = 1
  BY DEF OnlyMember, At, Width, IInv, Shape
<1> HIDE DEF r, target
<1>3. ~HoldsBy(r) /\ ~HoldsBy(calls[p])
  BY <1>1, <1>2 DEF HoldsBy
<1>4. /\ Shape' /\ DOMAIN calls \subseteq DOMAIN calls' /\ calls'[p] = r
      /\ \A q \in DOMAIN calls \ {p} : calls'[q] = calls[q]
      /\ \A q \in DOMAIN calls' \ DOMAIN calls : ~HoldsBy(calls'[q])
  BY <1>1, <1>2, MovedOne, Zenon
<1> QED
  BY <1>2, <1>3, <1>4, Kept

LEMMA StartPanelKeeps == ASSUME IInv, NEW p \in DOMAIN calls, StartPanel(p) PROVE IInv'
<1> DEFINE r == [calls[p] EXCEPT !.at = "panel"]
           members == Members[calls[p].target]
           new == [q \in {Leg(p, i) : i \in DOMAIN members} |-> NewCall(members[q[Len(q)]])]
<1>1. Shaped(r) /\ r.target = calls[p].target /\ r.at = "panel"
  BY DEF IInv, Shape, Shaped
<1>2. /\ calls' = Beside([calls EXCEPT ![p] = r], new) /\ slots' = slots + 1 /\ slots < MaxConcurrent
      /\ calls[p].at = "enter" /\ calls[p].target \in Fusions /\ Len(members) \in 2 .. MaxPanels
  BY DEF StartPanel, At, Width, IInv, Shape
<1>3. HoldsBy(r) /\ ~HoldsBy(calls[p])
  BY <1>1, <1>2, FusionAssumption DEF HoldsBy
<1>4. \A q \in DOMAIN new : Shaped(new[q]) /\ ~HoldsBy(new[q])
  BY NewCallIs
<1>5. IsFiniteSet(DOMAIN new)
  <2>1. members \in Seq(Targets)
    BY <1>2, FusionAssumption DEF Combos
  <2>2. DOMAIN members = 1 .. Len(members) /\ Len(members) \in Nat
    BY <2>1
  <2>3. IsFiniteSet(DOMAIN members)
    BY <2>2, FS_Interval
  <2> HIDE DEF members
  <2>4. IsFiniteSet({Leg(p, i) : i \in DOMAIN members})
    <3> DEFINE S == DOMAIN members
               T == {Leg(p, i) : i \in S}
               f == [i \in S |-> Leg(p, i)]
    <3>1. f \in Surjection(S, T)
      BY DEF Surjection
    <3> HIDE DEF f, T, S
    <3>2. IsFiniteSet(T)
      BY <2>3, <3>1, FS_Surjection DEF S
    <3> QED
      BY <3>2 DEF S, T
  <2> QED
    BY <2>4
<1> HIDE DEF r, new
<1>6. /\ Shape' /\ DOMAIN calls \subseteq DOMAIN calls' /\ calls'[p] = r
      /\ \A q \in DOMAIN calls \ {p} : calls'[q] = calls[q]
      /\ \A q \in DOMAIN calls' \ DOMAIN calls : ~HoldsBy(calls'[q])
  BY <1>1, <1>2, <1>4, <1>5, Moved
<1> QED
  BY <1>2, <1>3, <1>6, Taken

\* A call's record but for what it heard, and for where one call stands and what it
\* ended with.
Same(cs, ds) ==
    /\ DOMAIN ds = DOMAIN cs /\ ds = [o \in DOMAIN ds |-> ds[o]]
    /\ \A o \in DOMAIN cs : /\ Shaped(ds[o]) /\ ds[o].target = cs[o].target /\ ds[o].at = cs[o].at
                            /\ ds[o].leg = cs[o].leg /\ ds[o].written = cs[o].written /\ ds[o].result = cs[o].result

Placed(cs, ds, q, place, result) ==
    /\ DOMAIN ds = DOMAIN cs /\ ds = [o \in DOMAIN ds |-> ds[o]]
    /\ \A o \in DOMAIN cs : /\ Shaped(ds[o]) /\ ds[o].target = cs[o].target
                            /\ ds[o].leg = cs[o].leg /\ ds[o].written = cs[o].written
                            /\ ds[o].at = IF o = q THEN place ELSE cs[o].at
                            /\ ds[o].result = IF o = q THEN result ELSE cs[o].result

LEMMA AtEdited ==
    ASSUME NEW cs, \A o \in DOMAIN cs : Shaped(cs[o]), NEW q, NEW v, NEW ds, ds = [cs EXCEPT ![q].at = v]
    PROVE  Placed(cs, ds, q, v, cs[q].result)
<1> DEFINE e == [cs[q] EXCEPT !.at = v]
<1>1. /\ DOMAIN ds = DOMAIN cs /\ ds = [o \in DOMAIN ds |-> ds[o]]
      /\ \A o \in DOMAIN cs : ds[o] = IF o = q THEN e ELSE cs[o]
  OBVIOUS
<1>2. ASSUME q \in DOMAIN cs
      PROVE  /\ Shaped(e) /\ e.target = cs[q].target /\ e.leg = cs[q].leg /\ e.written = cs[q].written
             /\ e.at = v /\ e.result = cs[q].result
  <2>1. Shaped(cs[q])
    BY <1>2
  <2> QED
    BY <2>1 DEF Shaped
<1> HIDE DEF e
<1> QED
  BY <1>1, <1>2 DEF Placed

LEMMA ResultEdited ==
    ASSUME NEW cs, \A o \in DOMAIN cs : Shaped(cs[o]), NEW q, NEW v, NEW ds, ds = [cs EXCEPT ![q].result = v]
    PROVE  Placed(cs, ds, q, cs[q].at, v)
<1> DEFINE e == [cs[q] EXCEPT !.result = v]
<1>1. /\ DOMAIN ds = DOMAIN cs /\ ds = [o \in DOMAIN ds |-> ds[o]]
      /\ \A o \in DOMAIN cs : ds[o] = IF o = q THEN e ELSE cs[o]
  OBVIOUS
<1>2. ASSUME q \in DOMAIN cs
      PROVE  /\ Shaped(e) /\ e.target = cs[q].target /\ e.leg = cs[q].leg /\ e.written = cs[q].written
             /\ e.at = cs[q].at /\ e.result = v
  <2>1. Shaped(cs[q])
    BY <1>2
  <2> QED
    BY <2>1 DEF Shaped
<1> HIDE DEF e
<1> QED
  BY <1>1, <1>2 DEF Placed

LEMMA OksEdited ==
    ASSUME NEW cs, \A o \in DOMAIN cs : Shaped(cs[o]), NEW q, NEW v, NEW ds, ds = [cs EXCEPT ![q].oks = v]
    PROVE  Same(cs, ds)
<1> DEFINE e == [cs[q] EXCEPT !.oks = v]
<1>1. /\ DOMAIN ds = DOMAIN cs /\ ds = [o \in DOMAIN ds |-> ds[o]]
      /\ \A o \in DOMAIN cs : ds[o] = IF o = q THEN e ELSE cs[o]
  OBVIOUS
<1>2. ASSUME q \in DOMAIN cs
      PROVE  /\ Shaped(e) /\ e.target = cs[q].target /\ e.leg = cs[q].leg /\ e.written = cs[q].written
             /\ e.at = cs[q].at /\ e.result = cs[q].result
  <2>1. Shaped(cs[q])
    BY <1>2
  <2> QED
    BY <2>1 DEF Shaped
<1> HIDE DEF e
<1> QED
  BY <1>1, <1>2 DEF Same

LEMMA TextsEdited ==
    ASSUME NEW cs, \A o \in DOMAIN cs : Shaped(cs[o]), NEW q, NEW v, NEW ds, ds = [cs EXCEPT ![q].texts = v]
    PROVE  Same(cs, ds)
<1> DEFINE e == [cs[q] EXCEPT !.texts = v]
<1>1. /\ DOMAIN ds = DOMAIN cs /\ ds = [o \in DOMAIN ds |-> ds[o]]
      /\ \A o \in DOMAIN cs : ds[o] = IF o = q THEN e ELSE cs[o]
  OBVIOUS
<1>2. ASSUME q \in DOMAIN cs
      PROVE  /\ Shaped(e) /\ e.target = cs[q].target /\ e.leg = cs[q].leg /\ e.written = cs[q].written
             /\ e.at = cs[q].at /\ e.result = cs[q].result
  <2>1. Shaped(cs[q])
    BY <1>2
  <2> QED
    BY <2>1 DEF Shaped
<1> HIDE DEF e
<1> QED
  BY <1>1, <1>2 DEF Same

LEMMA HearIs ==
    ASSUME IInv, NEW p \in DOMAIN calls, Hear(p)
    PROVE  /\ Shape' /\ DOMAIN calls' = DOMAIN calls /\ UNCHANGED <<slots, gone>>
           /\ \E q : /\ calls[q].at = "returned"
                     /\ \A o \in DOMAIN calls :
                        /\ calls'[o].target = calls[o].target /\ calls'[o].leg = calls[o].leg
                        /\ calls'[o].written = calls[o].written
                        /\ calls'[o].at = IF o = q THEN "heard" ELSE calls[o].at
                        /\ calls'[o].result = IF o = q THEN "nothing" ELSE calls[o].result
<1> PICK i \in Panel(p) :
        /\ calls[Leg(p, i)].at = "returned"
        /\ calls' = [calls EXCEPT
            ![Leg(p, i)].at = "heard", ![Leg(p, i)].result = "nothing",
            ![p].oks = IF Ok(calls[Leg(p, i)].result) THEN calls[p].oks + 1 ELSE calls[p].oks,
            ![p].texts = IF calls[Leg(p, i)].result = "text" THEN calls[p].texts \cup {i} ELSE calls[p].texts]
  BY DEF Hear
<1> DEFINE q == Leg(p, i)
           oks == IF Ok(calls[q].result) THEN calls[p].oks + 1 ELSE calls[p].oks
           texts == IF calls[q].result = "text" THEN calls[p].texts \cup {i} ELSE calls[p].texts
<1>1. calls' = [calls EXCEPT ![q].at = "heard", ![q].result = "nothing", ![p].oks = oks, ![p].texts = texts]
  OBVIOUS
<1>2. calls[q].at = "returned"
  OBVIOUS
<1> HIDE DEF q, oks, texts
<1> DEFINE c1 == [calls EXCEPT ![q].at = "heard"]
           c2 == [c1 EXCEPT ![q].result = "nothing"]
           c3 == [c2 EXCEPT ![p].oks = oks]
           c4 == [c3 EXCEPT ![p].texts = texts]
<1>3. calls' = c4
  BY <1>1
<1> HIDE DEF c4
<1>4. c4 = [c3 EXCEPT ![p].texts = texts]
  BY DEF c4
<1> HIDE DEF c3
<1>5. c3 = [c2 EXCEPT ![p].oks = oks]
  BY DEF c3
<1> HIDE DEF c2
<1>6. c2 = [c1 EXCEPT ![q].result = "nothing"]
  BY DEF c2
<1> HIDE DEF c1
<1>7. c1 = [calls EXCEPT ![q].at = "heard"]
  BY DEF c1
<1>8. \A o \in DOMAIN calls : Shaped(calls[o])
  BY DEF IInv, Shape
<1>9. Placed(calls, c1, q, "heard", calls[q].result) /\ \A o \in DOMAIN c1 : Shaped(c1[o])
  <2>1. Placed(calls, c1, q, "heard", calls[q].result)
    BY <1>7, <1>8, AtEdited, Zenon
  <2> QED
    BY <2>1 DEF Placed
<1>10. Placed(c1, c2, q, c1[q].at, "nothing") /\ \A o \in DOMAIN c2 : Shaped(c2[o])
  <2>1. Placed(c1, c2, q, c1[q].at, "nothing")
    BY <1>6, <1>9, ResultEdited, Zenon
  <2> QED
    BY <2>1 DEF Placed
<1>11. Same(c2, c3) /\ \A o \in DOMAIN c3 : Shaped(c3[o])
  <2>1. Same(c2, c3)
    BY <1>5, <1>10, OksEdited, Zenon
  <2> QED
    BY <2>1 DEF Same
<1>12. Same(c3, c4)
  BY <1>4, <1>11, TextsEdited, Zenon
<1>13. DOMAIN c1 = DOMAIN calls /\ DOMAIN c2 = DOMAIN calls /\ DOMAIN c3 = DOMAIN calls /\ DOMAIN c4 = DOMAIN calls
  BY <1>9, <1>10, <1>11, <1>12 DEF Same, Placed
<1>14. calls' = [o \in DOMAIN calls' |-> calls'[o]] /\ \A o \in DOMAIN calls : Shaped(calls'[o])
  BY <1>3, <1>12, <1>13 DEF Same
<1>15. ASSUME NEW o \in DOMAIN calls
       PROVE  /\ calls'[o].target = calls[o].target /\ calls'[o].leg = calls[o].leg
              /\ calls'[o].written = calls[o].written
              /\ calls'[o].at = IF o = q THEN "heard" ELSE calls[o].at
              /\ calls'[o].result = IF o = q THEN "nothing" ELSE calls[o].result
  <2>1. /\ c1[o].target = calls[o].target /\ c1[o].leg = calls[o].leg /\ c1[o].written = calls[o].written
        /\ c1[o].at = IF o = q THEN "heard" ELSE calls[o].at
        /\ c1[o].result = IF o = q THEN calls[q].result ELSE calls[o].result
    BY <1>9 DEF Placed
  <2>2. /\ c2[o].target = c1[o].target /\ c2[o].leg = c1[o].leg /\ c2[o].written = c1[o].written
        /\ c2[o].at = IF o = q THEN c1[q].at ELSE c1[o].at
        /\ c2[o].result = IF o = q THEN "nothing" ELSE c1[o].result
    BY <1>10, <1>13 DEF Placed
  <2>3. /\ c3[o].target = c2[o].target /\ c3[o].leg = c2[o].leg /\ c3[o].written = c2[o].written
        /\ c3[o].at = c2[o].at /\ c3[o].result = c2[o].result
    BY <1>11, <1>13 DEF Same
  <2>4. /\ c4[o].target = c3[o].target /\ c4[o].leg = c3[o].leg /\ c4[o].written = c3[o].written
        /\ c4[o].at = c3[o].at /\ c4[o].result = c3[o].result
    BY <1>12, <1>13 DEF Same
  <2>5. calls'[o].target = calls[o].target /\ calls'[o].leg = calls[o].leg /\ calls'[o].written = calls[o].written
    BY <1>3, <2>1, <2>2, <2>3, <2>4
  <2>6. calls'[o].at = c2[o].at /\ calls'[o].result = c2[o].result
    BY <1>3, <2>3, <2>4
  <2>7. CASE o = q
    BY <2>1, <2>2, <2>5, <2>6, <2>7
  <2>8. CASE o # q
    BY <2>1, <2>2, <2>5, <2>6, <2>8
  <2> QED
    BY <2>7, <2>8
<1>16. Shape'
  BY <1>3, <1>13, <1>14 DEF IInv, Shape
<1>17. UNCHANGED <<slots, gone>>
  BY DEF Hear
<1> QED
  BY <1>2, <1>3, <1>13, <1>15, <1>16, <1>17

LEMMA HearKeeps == ASSUME IInv, NEW p \in DOMAIN calls, Hear(p) PROVE IInv'
<1>1. /\ Shape' /\ DOMAIN calls' = DOMAIN calls /\ UNCHANGED slots
      /\ \E q : /\ calls[q].at = "returned"
                /\ \A o \in DOMAIN calls : /\ calls'[o].target = calls[o].target
                                           /\ calls'[o].at = IF o = q THEN "heard" ELSE calls[o].at
  BY HearIs
<1>2. \A o \in DOMAIN calls : HoldsBy(calls'[o]) <=> HoldsBy(calls[o])
  BY <1>1 DEF HoldsBy
<1> QED
  BY <1>1, <1>2, Kept

LEMMA CollectedKeeps == ASSUME IInv, NEW p \in DOMAIN calls, At(p, "panel"), Collected(p) PROVE IInv'
<1>1. CASE Fail(p)
  BY <1>1, FailGives
<1>2. CASE /\ calls' = Begun([calls EXCEPT ![p].at = "last", ![p].texts = {}, ![p].oks = 0], Leg(p, 0), LastTarget(p))
           /\ UNCHANGED slots
  <2> DEFINE r == [calls[p] EXCEPT !.at = "last", !.texts = {}, !.oks = 0]
  <2>1. Shaped(r) /\ r.target = calls[p].target /\ r.at = "last"
    <3>1. Shaped(calls[p])
      BY DEF IInv, Shape
    <3> QED
      BY <3>1, LastIs
  <2>2. calls' = Begun([calls EXCEPT ![p] = r], Leg(p, 0), LastTarget(p)) /\ UNCHANGED slots
    BY <1>2 DEF IInv, Shape
  <2>3. HoldsBy(r) <=> HoldsBy(calls[p])
    BY <2>1 DEF HoldsBy, At
  <2> HIDE DEF r
  <2>4. /\ Shape' /\ DOMAIN calls \subseteq DOMAIN calls' /\ calls'[p] = r
        /\ \A q \in DOMAIN calls \ {p} : calls'[q] = calls[q]
        /\ \A q \in DOMAIN calls' \ DOMAIN calls : ~HoldsBy(calls'[q])
    BY <2>1, <2>2, MovedOne, Zenon
  <2> QED
    BY <2>2, <2>3, <2>4, Kept
<1> QED
  BY <1>1, <1>2 DEF Collected

LEMMA StartMemberKeeps ==
    ASSUME IInv, NEW p \in DOMAIN calls, calls[p].at \in {"enter", "pause"}, NEW i, StartMember(p, i)
    PROVE  IInv'
<1> DEFINE call == calls[p]
           target == Members[calls[p].target][i]
<1> PICK r : r = [call EXCEPT !.at = "member", !.leg = i]
  OBVIOUS
<1>1. Shaped(r) /\ r.at = "member"
  <2>1. Shaped(call)
    BY DEF IInv, Shape
  <2> HIDE DEF call
  <2>2. Shaped(r)
    BY <2>1, MemberIs
  <2>3. r.at = "member"
    BY <2>1 DEF Shaped
  <2> QED
    BY <2>2, <2>3
<1>2. calls' = Begun([calls EXCEPT ![p] = r], Leg(p, i), target) /\ UNCHANGED slots
  BY DEF StartMember, IInv, Shape
<1>3. ~HoldsBy(r) /\ ~HoldsBy(calls[p])
  BY <1>1 DEF HoldsBy
<1> HIDE DEF target
<1>4. /\ Shape' /\ DOMAIN calls \subseteq DOMAIN calls' /\ calls'[p] = r
      /\ \A q \in DOMAIN calls \ {p} : calls'[q] = calls[q]
      /\ \A q \in DOMAIN calls' \ DOMAIN calls : ~HoldsBy(calls'[q])
  BY <1>1, <1>2, MovedOne, Zenon
<1> QED
  BY <1>2, <1>3, <1>4, Kept

\* A call that only goes on, to a place where it holds nothing as before.
LEMMA GoesOn ==
    ASSUME IInv, NEW p \in DOMAIN calls, NEW to, to \notin {"panel", "last"}, calls[p].at \notin {"panel", "last"},
           NEW writers, calls' = Marked([calls EXCEPT ![p].at = to], writers) \/ calls' = [calls EXCEPT ![p].at = to],
           UNCHANGED slots
    PROVE  IInv'
<1> DEFINE cs == [calls EXCEPT ![p].at = to]
<1>1. /\ DOMAIN cs = DOMAIN calls /\ cs = [q \in DOMAIN cs |-> cs[q]]
      /\ \A q \in DOMAIN cs : Shaped(cs[q])
      /\ \A q \in DOMAIN cs : cs[q].target = calls[q].target /\ cs[q].at = IF q = p THEN to ELSE calls[q].at
  BY DEF IInv, Shape, Shaped
<1> HIDE DEF cs
<1>2. calls' = Marked(cs, writers) \/ calls' = cs
  BY DEF cs
<1>3. /\ DOMAIN calls' = DOMAIN calls /\ calls' = [q \in DOMAIN calls' |-> calls'[q]]
      /\ \A q \in DOMAIN calls : /\ Shaped(calls'[q])
                                 /\ calls'[q].target = cs[q].target /\ calls'[q].at = cs[q].at
  BY <1>1, <1>2, MarkedIs
<1>4. Shape'
  BY <1>3 DEF IInv, Shape
<1>5. \A q \in DOMAIN calls : HoldsBy(calls'[q]) <=> HoldsBy(calls[q])
  BY <1>1, <1>3 DEF HoldsBy
<1> QED
  BY <1>3, <1>4, <1>5, Kept

LEMMA AnswerKeeps == ASSUME IInv, NEW p \in DOMAIN calls, Answer(p) PROVE IInv'
BY GoesOn DEF Answer, At

LEMMA MemberReturnedKeeps == ASSUME IInv, NEW p \in DOMAIN calls, MemberReturned(p) PROVE IInv'
BY ReturnGives, FailGives, GoesOn DEF MemberReturned, At

-----------------------------------------------------------------------------

LEMMA ProviderKeeps == ASSUME IInv, NEW p \in DOMAIN calls, Provider(p) PROVE IInv'
<1>1. CASE Answer(p)
  BY <1>1, AnswerKeeps
<1>2. CASE FinishAnswer(p)
  BY <1>2, ReturnGives DEF FinishAnswer
<1>3. CASE AnswerFails(p)
  BY <1>3, FailGives DEF AnswerFails
<1> QED
  BY <1>1, <1>2, <1>3 DEF Provider

LEMMA HandlerKeeps == ASSUME IInv, NEW p \in DOMAIN calls, Handler(p) PROVE IInv'
<1>1. CASE Abort(p)
  BY <1>1, ReturnGives DEF Abort
<1>2. CASE Refuse(p)
  BY <1>2, FailGives DEF Refuse
<1>3. CASE OnlyMember(p)
  BY <1>3, OnlyMemberKeeps
<1>4. CASE StartPanel(p)
  BY <1>4, StartPanelKeeps
<1>5. CASE Hear(p)
  BY <1>5, HearKeeps
<1>6. CASE AllAnswered(p) \/ GraceOver(p) \/ Stopped(p)
  BY <1>6, CollectedKeeps DEF AllAnswered, GraceOver, Stopped
<1>7. CASE LastReturned(p)
  BY <1>7, ReturnGives DEF LastReturned
<1>8. CASE StartWalk(p)
  BY <1>8, StartMemberKeeps DEF StartWalk, At
<1>9. CASE MemberReturned(p)
  BY <1>9, MemberReturnedKeeps
<1>10. CASE NextMember(p)
  BY <1>10, ReturnGives, StartMemberKeeps DEF NextMember, At
<1> QED
  BY <1>1, <1>2, <1>3, <1>4, <1>5, <1>6, <1>7, <1>8, <1>9, <1>10 DEF Handler

LEMMA NextPreserves == IInv /\ [Next]_vars => IInv'
<1> SUFFICES ASSUME IInv, [Next]_vars PROVE IInv'
  OBVIOUS
<1>1. CASE UNCHANGED vars
  BY <1>1 DEF vars, IInv, Shape, SlotsHeld, Holds
<1>2. ASSUME NEW c \in Clients, Begin(c) PROVE IInv'
  BY <1>2, BeginKeeps
<1>3. ASSUME NEW c \in Clients, Leave(c) PROVE IInv'
  BY <1>3 DEF Leave, IInv, Shape, SlotsHeld, Holds
<1>4. ASSUME NEW p \in DOMAIN calls, Provider(p) \/ Handler(p) PROVE IInv'
  BY <1>4, ProviderKeeps, HandlerKeeps
<1> QED
  BY <1>1, <1>2, <1>3, <1>4 DEF Next

LEMMA Start == Init => IInv
<1> SUFFICES ASSUME Init PROVE IInv
  OBVIOUS
<1>1. DOMAIN calls = {} /\ calls = [p \in DOMAIN calls |-> calls[p]] /\ slots = 0
  BY DEF Init
<1>2. Shape
  BY <1>1, FS_EmptySet DEF Shape
<1>3. {p \in DOMAIN calls : Holds(p)} = {}
  BY <1>1
<1> QED
  BY <1>1, <1>2, <1>3, FS_EmptySet, FusionAssumption DEF IInv, SlotsHeld

\* However Fusions and walks nest, whichever timer, answer or departure ends a
\* collection, and wherever a handler returns from, the slots taken are those of the
\* Fusions whose panel or judge runs, and never more than there are (serveFusion's
\* fusionSlots and its deferred release).
THEOREM SlotsComeBack == Spec => []SlotsHeld
<1>1. IInv => SlotsHeld
  BY DEF IInv
<1> QED
  BY <1>1, Start, NextPreserves, PTL DEF Spec

-----------------------------------------------------------------------------
(* Paths *)

\* A path begins with a client and goes on with the numbers of legs.
Steps == Clients \cup Nat
Path(p) == p \in Seq(Steps) /\ p # <<>> /\ \A n \in 2 .. Len(p) : p[n] \in Nat

LEMMA BeginsOf ==
    ASSUME NEW p \in Seq(Steps), NEW n \in 1 .. Len(p)
    PROVE  /\ SubSeq(p, 1, n) \in Seq(Steps) /\ SubSeq(p, 1, n) # <<>> /\ Len(SubSeq(p, 1, n)) = n
           /\ \A m \in 1 .. n : SubSeq(p, 1, n)[m] = p[m] /\ SubSeq(SubSeq(p, 1, n), 1, m) = SubSeq(p, 1, m)
<1> DEFINE q == SubSeq(p, 1, n)
<1>1. Len(p) \in Nat
  OBVIOUS
<1>2. q \in Seq(Steps) /\ Len(q) = n /\ \A m \in 1 .. n : q[m] = p[m]
  <2>1. 1 \in 1 .. Len(p) + 1 /\ n \in 0 .. Len(p)
    BY <1>1
  <2> QED
    BY <1>1, <2>1, SubSeqProperties
<1> HIDE DEF q
<1>3. ASSUME NEW m \in 1 .. n PROVE SubSeq(q, 1, m) = SubSeq(p, 1, m)
  <2>1. m \in Int /\ m >= 1 /\ m <= n /\ n <= Len(p) /\ n \in Nat /\ m \in 1 .. Len(p)
    BY <1>1
  <2>2. /\ SubSeq(q, 1, m) \in Seq(Steps) /\ Len(SubSeq(q, 1, m)) = m
        /\ \A k \in 1 .. m : SubSeq(q, 1, m)[k] = q[k]
    BY <1>2, <2>1, SubSeqProperties
  <2>3. /\ SubSeq(p, 1, m) \in Seq(Steps) /\ Len(SubSeq(p, 1, m)) = m
        /\ \A k \in 1 .. m : SubSeq(p, 1, m)[k] = p[k]
    BY <2>1, SubSeqProperties
  <2>4. \A k \in 1 .. m : SubSeq(q, 1, m)[k] = SubSeq(p, 1, m)[k]
    BY <1>2, <2>1, <2>2, <2>3
  <2> QED
    BY <2>2, <2>3, <2>4, SeqEqual
<1>4. q # <<>>
  BY <1>2
<1> QED
  BY <1>2, <1>3, <1>4 DEF q

\* What begins a path is a path, and begins it.
LEMMA PrefixesAre ==
    ASSUME NEW p, Path(p)
    PROVE  /\ p \in Prefixes(p) /\ Len(p) \in Nat \ {0}
           /\ \A q \in Prefixes(p) :
                /\ Path(q) /\ Len(q) \in 1 .. Len(p) /\ q = SubSeq(p, 1, Len(q))
                /\ Prefixes(q) = {o \in Prefixes(p) : Len(o) <= Len(q)}
<1>1. p \in Seq(Steps) /\ Len(p) \in Nat \ {0}
  BY EmptySeq DEF Path
<1>2. p = SubSeq(p, 1, Len(p))
  <2>1. Len(p) \in 1 .. Len(p)
    BY <1>1
  <2>2. /\ SubSeq(p, 1, Len(p)) \in Seq(Steps) /\ Len(SubSeq(p, 1, Len(p))) = Len(p)
        /\ \A m \in 1 .. Len(p) : SubSeq(p, 1, Len(p))[m] = p[m]
    BY <1>1, <2>1, BeginsOf
  <2> QED
    BY <1>1, <2>2, SeqEqual
<1>3. ASSUME NEW q \in Prefixes(p)
      PROVE  /\ Path(q) /\ Len(q) \in 1 .. Len(p) /\ q = SubSeq(p, 1, Len(q))
             /\ Prefixes(q) = {o \in Prefixes(p) : Len(o) <= Len(q)}
  <2> PICK n \in 1 .. Len(p) : q = SubSeq(p, 1, n)
    BY DEF Prefixes
  <2>1. /\ q \in Seq(Steps) /\ q # <<>> /\ Len(q) = n
        /\ \A m \in 1 .. n : q[m] = p[m] /\ SubSeq(q, 1, m) = SubSeq(p, 1, m)
    BY <1>1, BeginsOf
  <2>2. Path(q)
    <3>1. \A m \in 2 .. n : m \in 1 .. n /\ m \in 2 .. Len(p)
      BY <1>1
    <3> QED
      BY <2>1, <3>1 DEF Path
  <2>3. Prefixes(q) = {SubSeq(p, 1, m) : m \in 1 .. n}
    BY <2>1 DEF Prefixes
  <2>4. \A m \in 1 .. Len(p) : Len(SubSeq(p, 1, m)) = m
    BY <1>1, BeginsOf
  <2>5. {SubSeq(p, 1, m) : m \in 1 .. n} = {o \in Prefixes(p) : Len(o) <= n}
    BY <1>1, <2>4 DEF Prefixes
  <2> QED
    BY <2>1, <2>2, <2>3, <2>5
<1>4. p \in Prefixes(p)
  <2>1. Len(p) \in 1 .. Len(p)
    BY <1>1
  <2> QED
    BY <1>2, <2>1, Zenon DEF Prefixes
<1> QED
  BY <1>1, <1>3, <1>4

\* Of two that begin a path the shorter begins the longer.
LEMMA Nested ==
    ASSUME NEW p, Path(p), NEW q \in Prefixes(p), NEW o \in Prefixes(p), Len(o) <= Len(q)
    PROVE  o \in Prefixes(q) /\ (Len(o) = Len(q) => o = q)
BY PrefixesAre

\* The path of a leg.
LEMMA LegIs ==
    ASSUME NEW p, Path(p), NEW i \in Nat
    PROVE  LET q == Leg(p, i) IN
           /\ Path(q) /\ Len(q) = Len(p) + 1 /\ Len(q) > 1 /\ q[Len(q)] = i /\ Parent(q) = p /\ q[1] = p[1]
           /\ Prefixes(q) = Prefixes(p) \cup {q} /\ q \notin Prefixes(p)
<1> DEFINE q == Leg(p, i)
<1>1. p \in Seq(Steps) /\ Len(p) \in Nat \ {0} /\ i \in Steps
  BY PrefixesAre DEF Path, Steps
<1>2. q \in Seq(Steps) /\ q # <<>> /\ Len(q) = Len(p) + 1 /\ q[Len(q)] = i /\ \A m \in 1 .. Len(p) : q[m] = p[m]
  BY <1>1, AppendProperties DEF Leg
<1> HIDE DEF q
<1>3. Path(q)
  <2>1. \A m \in 2 .. Len(q) : m = Len(q) \/ (m \in 2 .. Len(p) /\ m \in 1 .. Len(p))
    BY <1>1, <1>2
  <2> QED
    BY <1>2, <2>1 DEF Path
<1>4. ASSUME NEW m \in 1 .. Len(p) PROVE SubSeq(q, 1, m) = SubSeq(p, 1, m)
  <2>1. m \in 1 .. Len(q) /\ \A k \in 1 .. m : k \in 1 .. Len(p)
    BY <1>1, <1>2
  <2>2. /\ SubSeq(q, 1, m) \in Seq(Steps) /\ Len(SubSeq(q, 1, m)) = m
        /\ \A k \in 1 .. m : SubSeq(q, 1, m)[k] = q[k]
    BY <1>2, <2>1, BeginsOf
  <2>3. /\ SubSeq(p, 1, m) \in Seq(Steps) /\ Len(SubSeq(p, 1, m)) = m
        /\ \A k \in 1 .. m : SubSeq(p, 1, m)[k] = p[k]
    BY <1>1, BeginsOf
  <2> QED
    BY <1>2, <2>1, <2>2, <2>3, SeqEqual
<1>5. SubSeq(p, 1, Len(p)) = p /\ SubSeq(q, 1, Len(q)) = q
  <2>1. p = SubSeq(p, 1, Len(p))
    BY PrefixesAre
  <2>2. q = SubSeq(q, 1, Len(q))
    BY <1>3, PrefixesAre
  <2> QED
    BY <2>1, <2>2
<1>6. Parent(q) = p
  <2>1. Len(q) - 1 = Len(p) /\ Len(p) \in 1 .. Len(p)
    BY <1>1, <1>2
  <2> QED
    BY <1>4, <1>5, <2>1 DEF Parent
<1>7. Prefixes(q) = Prefixes(p) \cup {q}
  <2>1. 1 .. Len(q) = (1 .. Len(p)) \cup {Len(q)}
    BY <1>1, <1>2
  <2> QED
    BY <1>4, <1>5, <2>1 DEF Prefixes
<1>8. q \notin Prefixes(p)
  BY <1>1, <1>2, PrefixesAre
<1>9. q[1] = p[1]
  BY <1>1, <1>2
<1> QED
  BY <1>1, <1>2, <1>3, <1>6, <1>7, <1>8, <1>9 DEF q

\* A call that another made.
LEMMA ParentIs ==
    ASSUME NEW p, Path(p), Len(p) > 1
    PROVE  /\ Path(Parent(p)) /\ Parent(p) \in Prefixes(p) /\ Parent(p) # p /\ Len(Parent(p)) = Len(p) - 1
           /\ p[Len(p)] \in Nat /\ p = Leg(Parent(p), p[Len(p)])
<1> DEFINE q == Parent(p)
           i == p[Len(p)]
<1>1. p \in Seq(Steps) /\ Len(p) \in Nat /\ Len(p) - 1 \in 1 .. Len(p) /\ Len(p) \in 2 .. Len(p)
  BY PrefixesAre DEF Path
<1>2. /\ Len(q) = Len(p) - 1 /\ q \in Seq(Steps) /\ \A m \in 1 .. Len(p) - 1 : q[m] = p[m]
      /\ q \in Prefixes(p)
  BY <1>1, BeginsOf DEF Parent, Prefixes
<1> HIDE DEF q
<1>3. Path(q)
  BY <1>2, PrefixesAre
<1>4. i \in Nat /\ i \in Steps
  BY <1>1 DEF Path, Steps
<1>5. p = Leg(q, i)
  <2>1. /\ Leg(q, i) \in Seq(Steps) /\ Len(Leg(q, i)) = Len(p) /\ Leg(q, i)[Len(p)] = i
        /\ \A m \in 1 .. Len(p) - 1 : Leg(q, i)[m] = p[m]
    <3> HIDE DEF i
    <3> QED
      BY <1>1, <1>2, <1>4, AppendProperties DEF Leg
  <2>2. \A m \in 1 .. Len(p) : m = Len(p) \/ m \in 1 .. Len(p) - 1
    BY <1>1
  <2> HIDE DEF i
  <2>3. \A m \in 1 .. Len(p) : p[m] = Leg(q, i)[m]
    BY <2>1, <2>2 DEF i
  <2> QED
    BY <1>1, <2>1, <2>3, SeqEqual
<1> QED
  BY <1>1, <1>2, <1>3, <1>4, <1>5 DEF q

\* From a call to one it waits for, however far down.
LEMMA Towards ==
    ASSUME NEW p, Path(p), NEW q \in Prefixes(p), q # p
    PROVE  \E o \in Prefixes(p) : Len(o) > 1 /\ Parent(o) = q /\ Len(o) = Len(q) + 1
<1>1. p \in Prefixes(p) /\ Len(p) \in Nat /\ Len(q) \in 1 .. Len(p) /\ Path(q) /\ p \in Seq(Steps)
  BY PrefixesAre DEF Path
<1>2. Len(q) # Len(p)
  BY <1>1, Nested
<1> DEFINE n == Len(q) + 1
           o == SubSeq(p, 1, n)
<1>3. n \in 1 .. Len(p) /\ n > 1 /\ n - 1 = Len(q) /\ Len(q) \in 1 .. n
  BY <1>1, <1>2
<1>4. o \in Prefixes(p) /\ Len(o) = n
  BY <1>1, <1>3, BeginsOf DEF Prefixes
<1>5. Path(o) /\ Path(Parent(o)) /\ Parent(o) \in Prefixes(o) /\ Len(Parent(o)) = Len(q)
  BY <1>3, <1>4, PrefixesAre, ParentIs
<1> HIDE DEF o, n
<1>6. Parent(o) \in Prefixes(p)
  BY <1>4, <1>5, PrefixesAre
<1>7. Parent(o) = q
  BY <1>5, <1>6, <1>1, Nested
<1> QED
  BY <1>3, <1>4, <1>7 DEF n

-----------------------------------------------------------------------------
(* The tree of calls: its inductive invariant *)

\* The leg a handler that called itself waits for.
Awaits(q, i) == (calls[q].at = "last" /\ i = 0) \/ (calls[q].at = "member" /\ i = calls[q].leg)
Awaited(p) == Awaits(Parent(p), p[Len(p)])

\* The calls from the one with the writer down to this one.
Scope(p) == {q \in Prefixes(p) : \A o \in Prefixes(p) : IsSink(o) => Len(o) <= Len(q)}

\* Nothing is written for any of them; or nothing but one answer that its nearest
\* writer holds.
Clean(p) == \A q \in Scope(p) : calls[q].written = 0
Held(p) == \A q \in Scope(p) : calls[q].written # 0 => \A o \in Prefixes(p) : IsMember(o) => Len(o) <= Len(q)

Places == {"enter", "serving", "streaming", "panel", "last", "member", "pause", "returned", "heard"}
Typed == \A p \in DOMAIN calls :
    /\ Path(p) /\ Prefixes(p) \subseteq DOMAIN calls
    /\ calls[p].at \in Places /\ calls[p].leg \in Nat /\ calls[p].written \in Nat /\ calls[p].result \in Results
    /\ calls[p].at \in {"member", "pause"} => calls[p].target \in Walks
    /\ calls[p].at \in {"panel", "last"} => calls[p].target \in Fusions

\* Who made a call is past its start.
Rooted == \A p \in DOMAIN calls : \A q \in Prefixes(p) \ {p} : calls[q].at \notin {"enter", "serving", "streaming"}

\* The legs a call has begun.
Begins == \A p \in DOMAIN calls : Len(p) > 1 =>
    /\ calls[Parent(p)].at = "panel" => p[Len(p)] # 0
    /\ calls[Parent(p)].at \in {"member", "pause"} => p[Len(p)] <= calls[Parent(p)].leg

\* Where a call runs, those it answers for wait, each for the next.
Lines == \A p \in DOMAIN calls : Running(p) =>
    \A o \in Prefixes(p) : Len(o) > 1 /\ Parent(o) \in Scope(p) => Awaited(o)

\* Of two running calls that answer on one writer, one waits for the other.
InTurn == \A p, g \in DOMAIN calls : Running(p) /\ Running(g) /\ Scope(p) \cap Scope(g) # {} =>
    p \in Prefixes(g) \/ g \in Prefixes(p)

\* Nothing is written where a call may still write.
Untouched == \A p \in DOMAIN calls : calls[p].at \in {"enter", "serving", "panel", "pause"} => Clean(p)

\* Where a leg failed, nothing but its failure is.
FailedClean == \A p \in DOMAIN calls :
    calls[p].at = "returned" /\ calls[p].result \in Failures /\ Len(p) > 1 /\ Awaited(p) => Held(p)

\* Only a cancelled call ends with nothing.
Silenced == \A p \in DOMAIN calls : calls[p].at = "returned" /\ calls[p].result = "nothing" => Cancelled(p)

TreeInv ==
    /\ Typed /\ Rooted /\ Begins /\ Lines /\ InTurn /\ Untouched /\ FailedClean /\ Silenced
    /\ RunsForSomebody /\ AnsweredOnce

-----------------------------------------------------------------------------
(* Scopes *)

LEMMA ScopeIs ==
    ASSUME NEW p, Path(p)
    PROVE  /\ p \in Scope(p) /\ Scope(p) \subseteq Prefixes(p)
           /\ \A q \in Scope(p) : \A o \in Prefixes(p) :
                /\ Len(o) >= Len(q) => o \in Scope(p) /\ q \in Scope(o)
                /\ IsSink(o) => Len(o) <= Len(q)
<1>1. p \in Prefixes(p) /\ Len(p) \in Nat /\ \A o \in Prefixes(p) : Len(o) \in 1 .. Len(p)
  BY PrefixesAre
<1>2. p \in Scope(p) /\ Scope(p) \subseteq Prefixes(p)
  BY <1>1 DEF Scope
<1>3. ASSUME NEW q \in Scope(p), NEW o \in Prefixes(p)
      PROVE  IsSink(o) => Len(o) <= Len(q)
  BY <1>3 DEF Scope
<1>4. ASSUME NEW q \in Scope(p), NEW o \in Prefixes(p), Len(o) >= Len(q)
      PROVE  o \in Scope(p) /\ q \in Scope(o)
  <2>1. q \in Prefixes(p) /\ Len(q) \in Nat /\ Len(o) \in Nat /\ Len(q) <= Len(o)
    BY <1>1, <1>4, <1>2
  <2>2. q \in Prefixes(o) /\ Prefixes(o) \subseteq Prefixes(p)
    BY <2>1, Nested, PrefixesAre
  <2>3. \A x \in Prefixes(p) : IsSink(x) => Len(x) <= Len(o)
    BY <1>1, <1>3, <1>4, <2>1
  <2> QED
    BY <1>3, <2>2, <2>3 DEF Scope
<1> QED
  BY <1>2, <1>3, <1>4

\* A call that writes to its caller's writer.
LEMMA SharedScope ==
    ASSUME NEW p, Path(p), Len(p) > 1, ~IsSink(p)
    PROVE  Scope(p) = Scope(Parent(p)) \cup {p} /\ Parent(p) \in Scope(p)
<1> DEFINE q == Parent(p)
<1>1. Path(q) /\ q \in Prefixes(p) /\ Len(q) = Len(p) - 1 /\ p[Len(p)] \in Nat /\ p = Leg(q, p[Len(p)])
  BY ParentIs
<1>2. Prefixes(p) = Prefixes(q) \cup {p} /\ Len(p) \in Nat /\ \A o \in Prefixes(q) : Len(o) \in 1 .. Len(q)
  BY <1>1, LegIs, PrefixesAre
<1> HIDE DEF q
<1>3. \A o \in Prefixes(p) : IsSink(o) => o \in Prefixes(q)
  BY <1>2
<1>4. Scope(p) = Scope(q) \cup {p}
  <2>1. \A x \in Prefixes(q) : x \in Scope(p) <=> x \in Scope(q)
    BY <1>2, <1>3 DEF Scope
  <2>2. p \in Scope(p)
    BY <1>1, <1>2, <1>3 DEF Scope
  <2> QED
    BY <1>2, <2>1, <2>2 DEF Scope
<1>5. q \in Scope(q)
  BY <1>1, ScopeIs
<1> QED
  BY <1>4, <1>5 DEF q

LEMMA OwnScope ==
    ASSUME NEW p, Path(p), IsSink(p)
    PROVE  Scope(p) = {p}
<1>1. ASSUME NEW q \in Scope(p) PROVE q = p
  <2>1. p \in Prefixes(p) /\ Len(p) <= Len(q) /\ q \in Prefixes(p) /\ Len(q) \in 1 .. Len(p) /\ Len(p) \in Nat
    BY ScopeIs, PrefixesAre
  <2> QED
    BY <2>1, Nested
<1> QED
  BY <1>1, ScopeIs

\* A call that runs below another, for the same writer.
LEMMA Waits ==
    ASSUME Typed, Lines, NEW g \in DOMAIN calls, Running(g), NEW p \in Scope(g), p # g
    PROVE  \E i \in Nat : /\ Awaits(p, i) /\ Leg(p, i) \in Scope(g) /\ p \in DOMAIN calls
                          /\ Running(p) /\ Leg(p, i) \in DOMAIN calls
<1>1. Path(g) /\ Prefixes(g) \subseteq DOMAIN calls
  BY DEF Typed
<1>2. p \in Prefixes(g)
  BY <1>1, ScopeIs
<1>3. PICK o \in Prefixes(g) : Len(o) > 1 /\ Parent(o) = p /\ Len(o) = Len(p) + 1
  BY <1>1, <1>2, Towards
<1>4. Path(o) /\ o[Len(o)] \in Nat /\ o = Leg(p, o[Len(o)]) /\ Len(p) \in Nat /\ Len(o) \in Nat
  BY <1>1, <1>2, <1>3, PrefixesAre, ParentIs
<1>5. Awaits(p, o[Len(o)])
  BY <1>3 DEF Lines, Awaited
<1>6. o \in Scope(g)
  BY <1>1, <1>3, <1>4, ScopeIs
<1>7. Running(p)
  BY <1>5 DEF Awaits, Running
<1>8. Leg(p, o[Len(o)]) \in Scope(g) /\ p \in DOMAIN calls /\ Leg(p, o[Len(o)]) \in DOMAIN calls
  BY <1>1, <1>2, <1>4, <1>6
<1> QED
  BY <1>4, <1>5, <1>7, <1>8, Zenon

\* A call that runs and waits for no other.
Foremost(p) == Running(p) /\ \A i \in Nat : Awaits(p, i) /\ Leg(p, i) \in DOMAIN calls => ~Running(Leg(p, i))

\* No other runs for the same writer but those that wait for it.
LEMMA Alone ==
    ASSUME Typed, Lines, NEW p \in DOMAIN calls, Foremost(p), NEW g \in DOMAIN calls, Running(g), p \in Scope(g)
    PROVE  g = p
<1> SUFFICES ASSUME g # p PROVE FALSE
  OBVIOUS
<1>1. PICK i \in Nat : Awaits(p, i) /\ Leg(p, i) \in Scope(g) /\ Leg(p, i) \in DOMAIN calls
  BY Waits
<1>2. ~Running(Leg(p, i))
  BY <1>1 DEF Foremost
<1>3. Leg(p, i) # g
  BY <1>2
<1>4. Running(Leg(p, i))
  BY <1>1, <1>3, Waits
<1> QED
  BY <1>2, <1>4

LEMMA WaitFor ==
    ASSUME Typed, Lines, InTurn, NEW p \in DOMAIN calls, Foremost(p), NEW g \in DOMAIN calls, Running(g),
           Scope(p) \cap Scope(g) # {}
    PROVE  g \in Scope(p)
<1>1. Path(p) /\ Path(g) /\ Running(p)
  BY DEF Typed, Foremost
<1>2. PICK q \in Scope(p) : q \in Scope(g)
  OBVIOUS
<1>3. q \in Prefixes(p) /\ q \in Prefixes(g)
  BY <1>1, <1>2, ScopeIs
<1>4. CASE p \in Prefixes(g)
  <2>1. Len(q) \in Nat /\ Len(p) \in Nat /\ Len(q) <= Len(p)
    BY <1>1, <1>3, PrefixesAre
  <2>2. p \in Scope(g)
    BY <1>1, <1>2, <1>4, <2>1, ScopeIs
  <2>3. g = p
    BY <2>2, Alone
  <2> QED
    BY <1>1, <2>3, ScopeIs
<1>5. CASE g \in Prefixes(p)
  <2>1. Len(q) \in Nat /\ Len(g) \in Nat /\ Len(q) <= Len(g)
    BY <1>1, <1>3, PrefixesAre
  <2> QED
    BY <1>1, <1>2, <1>5, <2>1, ScopeIs
<1> QED
  BY <1>1, <1>2, <1>4, <1>5 DEF InTurn

-----------------------------------------------------------------------------
(* A handler's step, seen by the tree *)

\* Where a call goes, and what must then be so.
Goes(p) ==
    /\ calls'[p].leg \in Nat /\ calls'[p].result \in Results
    /\ \/ calls'[p].at = "streaming" /\ calls[p].at = "serving"
       \/ /\ calls'[p].at = "returned"
          /\ calls'[p].result \in Failures => Held(p)'
          /\ calls'[p].result = "nothing" => Cancelled(p)
       \/ calls'[p].at = "pause" /\ calls[p].at = "member" /\ calls'[p].leg = calls[p].leg /\ Clean(p)
       \/ calls'[p].at = "panel" /\ calls[p].at = "enter" /\ calls[p].target \in Fusions
       \/ calls'[p].at = "last" /\ calls[p].at \in {"enter", "panel"} /\ calls[p].target \in Fusions
       \/ /\ calls'[p].at = "member" /\ calls[p].target \in Walks
          /\ calls[p].at = "enter" \/ (calls[p].at = "pause" /\ calls'[p].leg = calls[p].leg + 1)

\* The calls it makes.
Makes(p) == \A q \in DOMAIN calls' \ DOMAIN calls :
    /\ \E i \in Nat : q = Leg(p, i) /\ ((calls'[p].at = "panel" /\ i # 0) \/ Awaits(p, i)')
    /\ calls'[q].at \in {"enter", "serving"} /\ calls'[q].leg = 0 /\ calls'[q].written = 0 /\ calls'[q].result = "nothing"

\* A call stays, and what was asked of it.
Lasts == \A q \in DOMAIN calls : q \in DOMAIN calls' /\ calls'[q].target = calls[q].target

\* An answer begins only where none had.
Writes(p) == \A q \in DOMAIN calls : \/ calls'[q].written = calls[q].written
                                     \/ /\ calls'[q].written = 1 /\ q \in Scope(p) /\ Clean(p)
                                        /\ calls'[p].at \in {"streaming", "returned"}

Others(p) == \A q \in DOMAIN calls \ {p} :
    calls'[q].at = calls[q].at /\ calls'[q].leg = calls[q].leg /\ calls'[q].result = calls[q].result

Acts(p) == Foremost(p) /\ gone' = gone /\ Lasts /\ Writes(p) /\ Others(p) /\ Goes(p) /\ Makes(p)

\* What a call writes to does not change.
LEMMA SinksLast ==
    ASSUME Typed, Lasts, NEW g \in DOMAIN calls
    PROVE  /\ (IsPanelCall(g)' <=> IsPanelCall(g)) /\ (IsMember(g)' <=> IsMember(g)) /\ (IsSink(g)' <=> IsSink(g))
           /\ Path(g) /\ Prefixes(g) \subseteq DOMAIN calls
<1>1. Path(g) /\ Prefixes(g) \subseteq DOMAIN calls
  BY DEF Typed
<1>2. Len(g) > 1 => Parent(g) \in DOMAIN calls
  BY <1>1, ParentIs
<1>3. (IsPanelCall(g)' <=> IsPanelCall(g)) /\ (IsMember(g)' <=> IsMember(g))
  BY <1>2 DEF IsPanelCall, IsMember, Lasts
<1> QED
  BY <1>1, <1>3 DEF IsSink

LEMMA ScopesLast ==
    ASSUME Typed, Lasts, NEW g \in DOMAIN calls
    PROVE  Scope(g)' = Scope(g) /\ \A o \in Prefixes(g) : o \in DOMAIN calls /\ (IsMember(o)' <=> IsMember(o))
<1>1. Prefixes(g) \subseteq DOMAIN calls
  BY DEF Typed
<1>2. \A o \in Prefixes(g) : o \in DOMAIN calls /\ (IsMember(o)' <=> IsMember(o)) /\ (IsSink(o)' <=> IsSink(o))
  BY <1>1, SinksLast
<1> QED
  BY <1>2 DEF Scope

\* A leg that a handler begins to wait for is new.
LEMMA Fresh ==
    ASSUME TreeInv, NEW p \in DOMAIN calls, Acts(p), NEW i \in Nat, Awaits(p, i)'
    PROVE  Leg(p, i) \notin DOMAIN calls
<1> SUFFICES ASSUME Leg(p, i) \in DOMAIN calls PROVE FALSE
  OBVIOUS
<1> DEFINE q == Leg(p, i)
<1>1. Path(p) /\ calls[p].leg \in Nat
  BY DEF TreeInv, Typed
<1>2. Len(q) > 1 /\ Parent(q) = p /\ q[Len(q)] = i /\ p \in Prefixes(q) \ {q}
  <2>1. /\ Len(q) > 1 /\ Parent(q) = p /\ q[Len(q)] = i
        /\ Prefixes(q) = Prefixes(p) \cup {q} /\ q \notin Prefixes(p)
    BY <1>1, LegIs
  <2>2. p \in Prefixes(p)
    BY <1>1, PrefixesAre
  <2> HIDE DEF q
  <2> QED
    BY <2>1, <2>2
<1>3. calls[p].at # "enter"
  BY <1>2 DEF TreeInv, Rooted
<1>4. /\ calls[p].at = "panel" => i # 0
      /\ calls[p].at = "pause" => i <= calls[p].leg
  BY <1>2 DEF TreeInv, Begins
<1>5. \/ calls'[p].at = "last" /\ calls[p].at = "panel" /\ i = 0
      \/ calls'[p].at = "member" /\ calls[p].at = "pause" /\ i = calls[p].leg + 1
  BY <1>3 DEF Acts, Goes, Awaits
<1> QED
  BY <1>1, <1>4, <1>5

\* A call that a handler makes.
LEMMA MadeIs ==
    ASSUME TreeInv, NEW p \in DOMAIN calls, Acts(p), NEW q \in DOMAIN calls' \ DOMAIN calls
    PROVE  /\ Path(q) /\ Len(q) > 1 /\ Parent(q) = p /\ Prefixes(q) = Prefixes(p) \cup {q}
           /\ q \notin Prefixes(p) /\ Prefixes(p) \subseteq DOMAIN calls /\ p # q
           /\ calls[p].at \in {"enter", "panel", "pause"} /\ q[Len(q)] \in Nat
           /\ calls'[q].at \in {"enter", "serving"} /\ calls'[q].leg = 0 /\ calls'[q].written = 0
           /\ calls'[q].result = "nothing"
           /\ \/ calls'[p].at = "panel" /\ q[Len(q)] # 0 /\ IsPanelCall(q)' /\ IsSink(q)'
              \/ calls'[p].at # "panel" /\ Awaited(q)' /\ ~IsSink(q)'
<1>1. PICK i \in Nat : q = Leg(p, i) /\ ((calls'[p].at = "panel" /\ i # 0) \/ Awaits(p, i)')
  BY DEF Acts, Makes
<1>2. Path(p) /\ Prefixes(p) \subseteq DOMAIN calls
  BY DEF TreeInv, Typed
<1>3. Path(q) /\ Len(q) > 1 /\ q[Len(q)] = i /\ Parent(q) = p /\ Prefixes(q) = Prefixes(p) \cup {q} /\ q \notin Prefixes(p)
  BY <1>1, <1>2, LegIs
<1>4. p # q
  BY <1>2, <1>3, PrefixesAre
<1>5. calls'[p].at \in {"panel", "last", "member"}
  BY <1>1 DEF Awaits
<1>6. calls[p].at \in {"enter", "panel", "pause"} /\ calls'[p].target = calls[p].target
  BY <1>5 DEF Acts, Goes, Lasts
<1>7. /\ calls'[q].at \in {"enter", "serving"} /\ calls'[q].leg = 0 /\ calls'[q].written = 0
      /\ calls'[q].result = "nothing"
  BY DEF Acts, Makes
<1>8. CASE calls'[p].at = "panel"
  <2>1. i # 0 /\ calls'[p].target \in Fusions
    BY <1>1, <1>6, <1>8 DEF Awaits, Acts, Goes
  <2>2. IsPanelCall(q)'
    BY <1>3, <2>1 DEF IsPanelCall
  <2>3. IsSink(q)'
    BY <2>2 DEF IsSink
  <2> QED
    BY <1>2, <1>3, <1>4, <1>6, <1>7, <1>8, <2>1, <2>2, <2>3
<1>9. CASE calls'[p].at # "panel"
  <2>1. Awaits(p, i)'
    BY <1>1, <1>9
  <2>2. Awaited(q)'
    BY <1>3, <2>1 DEF Awaited
  <2>3. i = 0 \/ calls'[p].target \notin Fusions
    BY <1>6, <2>1, FusionAssumption DEF Awaits, Acts, Goes
  <2>4. ~IsSink(q)'
    BY <1>3, <2>3 DEF IsSink, IsPanelCall
  <2> QED
    BY <1>2, <1>3, <1>4, <1>6, <1>7, <1>9, <2>2, <2>4
<1> QED
  BY <1>8, <1>9

LEMMA MadeScope ==
    ASSUME TreeInv, NEW p \in DOMAIN calls, Acts(p), NEW q \in DOMAIN calls' \ DOMAIN calls
    PROVE  Scope(q)' = IF calls'[p].at = "panel" THEN {q} ELSE Scope(p) \cup {q}
<1>1. /\ Path(q) /\ Len(q) > 1 /\ Parent(q) = p
      /\ \/ calls'[p].at = "panel" /\ IsSink(q)'
         \/ calls'[p].at # "panel" /\ ~IsSink(q)'
      /\ Prefixes(q) = Prefixes(p) \cup {q} /\ q \notin Prefixes(p) /\ Prefixes(p) \subseteq DOMAIN calls
  BY MadeIs
<1>2. Scope(p)' = Scope(p) /\ Path(p) /\ q = Leg(p, q[Len(q)]) /\ q[Len(q)] \in Nat
  BY <1>1, ScopesLast, ParentIs DEF TreeInv, Acts, Typed
<1>3. Len(q) = Len(p) + 1 /\ Len(p) \in Nat /\ \A o \in Prefixes(p) : Len(o) \in 1 .. Len(p)
  BY <1>2, PrefixesAre, LegIs
<1>4. CASE calls'[p].at = "panel"
  BY <1>1, <1>3, <1>4 DEF Scope
<1>5. CASE calls'[p].at # "panel"
  <2>1. \A x \in Prefixes(p) : x \in Scope(q)' <=> x \in Scope(p)'
    BY <1>1, <1>5 DEF Scope
  <2>2. q \in Scope(q)'
    BY <1>1, <1>3, <1>5 DEF Scope
  <2>3. Scope(p)' \subseteq Prefixes(p) /\ Scope(q)' \subseteq Prefixes(q)
    BY DEF Scope
  <2> QED
    BY <1>1, <1>2, <1>5, <2>1, <2>2, <2>3
<1> QED
  BY <1>4, <1>5

-----------------------------------------------------------------------------
(* What such a step keeps *)

LEMMA TypedKept == ASSUME TreeInv, NEW p \in DOMAIN calls, Acts(p) PROVE Typed'
<1> SUFFICES ASSUME NEW q \in DOMAIN calls'
             PROVE  /\ Path(q) /\ Prefixes(q) \subseteq DOMAIN calls'
                    /\ calls'[q].at \in Places /\ calls'[q].leg \in Nat /\ calls'[q].written \in Nat
                    /\ calls'[q].result \in Results
                    /\ calls'[q].at \in {"member", "pause"} => calls'[q].target \in Walks
                    /\ calls'[q].at \in {"panel", "last"} => calls'[q].target \in Fusions
  BY DEF Typed
<1>1. DOMAIN calls \subseteq DOMAIN calls'
  BY DEF Acts, Lasts
<1>2. CASE q \in DOMAIN calls
  <2>1. /\ Path(q) /\ Prefixes(q) \subseteq DOMAIN calls'
        /\ calls[q].at \in Places /\ calls[q].leg \in Nat /\ calls[q].written \in Nat
        /\ calls[q].result \in Results
        /\ calls[q].at \in {"member", "pause"} => calls[q].target \in Walks
        /\ calls[q].at \in {"panel", "last"} => calls[q].target \in Fusions
        /\ calls'[q].target = calls[q].target
    BY <1>1, <1>2 DEF TreeInv, Typed, Acts, Lasts
  <2>2. calls'[q].written \in Nat
    BY <1>2, <2>1 DEF Acts, Writes
  <2>3. CASE q = p
    BY <2>1, <2>2, <2>3 DEF Acts, Goes, Places
  <2>4. CASE q # p
    BY <1>2, <2>1, <2>2, <2>4 DEF Acts, Others
  <2> QED
    BY <2>3, <2>4
<1>3. CASE q \notin DOMAIN calls
  <2>1. /\ Path(q) /\ Prefixes(q) = Prefixes(p) \cup {q} /\ Prefixes(p) \subseteq DOMAIN calls
        /\ calls'[q].at \in {"enter", "serving"} /\ calls'[q].leg = 0 /\ calls'[q].written = 0
        /\ calls'[q].result = "nothing"
    BY <1>3, MadeIs
  <2> QED
    BY <1>1, <2>1 DEF Places, Results
<1> QED
  BY <1>2, <1>3

LEMMA RootedKept == ASSUME TreeInv, NEW p \in DOMAIN calls, Acts(p) PROVE Rooted'
<1> SUFFICES ASSUME NEW g \in DOMAIN calls', NEW q \in Prefixes(g) \ {g}
             PROVE  calls'[q].at \notin {"enter", "serving", "streaming"}
  BY DEF Rooted
<1>1. CASE g \in DOMAIN calls
  <2>1. q \in DOMAIN calls /\ calls[q].at \notin {"enter", "serving", "streaming"}
    BY <1>1 DEF TreeInv, Typed, Rooted
  <2> QED
    BY <2>1 DEF Acts, Others, Goes
<1>2. CASE g \notin DOMAIN calls
  <2>1. /\ q \in Prefixes(p) /\ q \in DOMAIN calls
        /\ calls[p].at \in {"enter", "panel", "pause"}
    BY <1>2, MadeIs
  <2>2. CASE q = p
    BY <2>1, <2>2 DEF Acts, Goes
  <2>3. CASE q # p
    <3>1. calls[q].at \notin {"enter", "serving", "streaming"}
      BY <2>1, <2>3 DEF TreeInv, Rooted
    <3> QED
      BY <2>1, <2>3, <3>1 DEF Acts, Others
  <2> QED
    BY <2>2, <2>3
<1> QED
  BY <1>1, <1>2

LEMMA BeginsKept == ASSUME TreeInv, NEW p \in DOMAIN calls, Acts(p) PROVE Begins'
<1> SUFFICES ASSUME NEW q \in DOMAIN calls', Len(q) > 1
             PROVE  /\ calls'[Parent(q)].at = "panel" => q[Len(q)] # 0
                    /\ calls'[Parent(q)].at \in {"member", "pause"} => q[Len(q)] <= calls'[Parent(q)].leg
  BY DEF Begins
<1>1. CASE q \in DOMAIN calls
  <2>1. Path(q) /\ q[Len(q)] \in Nat /\ Parent(q) \in DOMAIN calls /\ Parent(q) \in Prefixes(q) \ {q}
    BY <1>1, ParentIs DEF TreeInv, Typed
  <2>2. /\ calls[Parent(q)].at = "panel" => q[Len(q)] # 0
        /\ calls[Parent(q)].at \in {"member", "pause"} => q[Len(q)] <= calls[Parent(q)].leg
        /\ calls[Parent(q)].at # "enter" /\ calls[Parent(q)].leg \in Nat
    BY <1>1, <2>1 DEF TreeInv, Begins, Rooted, Typed
  <2>3. CASE Parent(q) = p
    BY <2>1, <2>2, <2>3 DEF Acts, Goes
  <2>4. CASE Parent(q) # p
    BY <2>1, <2>2, <2>4 DEF Acts, Others
  <2> QED
    BY <2>3, <2>4
<1>2. CASE q \notin DOMAIN calls
  <2>1. /\ Parent(q) = p /\ q[Len(q)] \in Nat
        /\ \/ calls'[p].at = "panel" /\ q[Len(q)] # 0
           \/ calls'[p].at # "panel" /\ Awaited(q)'
    BY <1>2, MadeIs
  <2>2. Awaited(q)' => Awaits(p, q[Len(q)])'
    BY <2>1 DEF Awaited
  <2>3. calls'[p].at # "panel" => Awaits(p, q[Len(q)])'
    BY <2>1, <2>2
  <2>4. calls'[p].leg \in Nat
    BY DEF Acts, Goes
  <2> QED
    BY <2>1, <2>3, <2>4 DEF Awaits
<1> QED
  BY <1>1, <1>2

\* Who is awaited stays so, unless its caller moves.
LEMMA AwaitedLasts ==
    ASSUME TreeInv, NEW p \in DOMAIN calls, Acts(p), NEW o \in DOMAIN calls, Len(o) > 1
    PROVE  /\ Parent(o) # p => (Awaited(o)' <=> Awaited(o))
           /\ Parent(o) = p => ~Awaited(o)'
<1>1. Path(o) /\ Parent(o) \in DOMAIN calls /\ o[Len(o)] \in Nat /\ o = Leg(Parent(o), o[Len(o)])
  BY ParentIs DEF TreeInv, Typed
<1>2. Parent(o) # p => (Awaited(o)' <=> Awaited(o))
  BY <1>1 DEF Acts, Others, Awaited, Awaits
<1>3. ASSUME Parent(o) = p, Awaited(o)' PROVE FALSE
  <2>1. Awaits(p, o[Len(o)])'
    BY <1>3 DEF Awaited
  <2>2. Leg(p, o[Len(o)]) \notin DOMAIN calls
    BY <1>1, <2>1, Fresh
  <2> QED
    BY <1>1, <1>3, <2>2
<1> QED
  BY <1>2, <1>3

\* A call whose step this is is over it, or others go on as they were.
LEMMA RunsOn ==
    ASSUME TreeInv, NEW p \in DOMAIN calls, Acts(p), NEW g \in DOMAIN calls
    PROVE  /\ Running(g)' => Running(g)
           /\ g # p => (calls'[g].at = calls[g].at /\ (Running(g)' <=> Running(g)))
BY DEF Acts, Others, Running, Foremost

LEMMA LinesKept == ASSUME TreeInv, NEW p \in DOMAIN calls, Acts(p) PROVE Lines'
<1> SUFFICES ASSUME NEW g \in DOMAIN calls', Running(g)',
                    NEW o \in Prefixes(g), Len(o) > 1, Parent(o) \in Scope(g)'
             PROVE  Awaited(o)'
  BY DEF Lines
<1>1. Typed /\ Lines /\ Lasts /\ Foremost(p)
  BY DEF TreeInv, Acts
<1>2. CASE g \in DOMAIN calls
  <2>1. Running(g) /\ Scope(g)' = Scope(g) /\ Path(g) /\ o \in DOMAIN calls
    BY <1>1, <1>2, RunsOn, ScopesLast DEF Typed
  <2>2. Awaited(o)
    BY <1>1, <1>2, <2>1 DEF Lines
  <2>3. Path(o) /\ Len(Parent(o)) < Len(o) /\ Len(o) <= Len(g) /\ Len(g) \in Nat
    <3>1. Path(o) /\ Len(o) \in 1 .. Len(g) /\ Len(g) \in Nat
      BY <2>1, PrefixesAre
    <3>2. Len(Parent(o)) = Len(o) - 1
      BY <3>1, ParentIs
    <3> QED
      BY <3>1, <3>2
  <2>4. Parent(o) # p
    <3> SUFFICES ASSUME Parent(o) = p PROVE FALSE
      OBVIOUS
    <3>1. g = p
      BY <1>1, <1>2, <2>1, Alone
    <3> QED
      BY <2>3, <3>1, PrefixesAre
  <2> QED
    BY <2>1, <2>2, <2>4, AwaitedLasts
<1>3. CASE g \notin DOMAIN calls
  <2>1. /\ Path(g) /\ Parent(g) = p /\ Prefixes(g) = Prefixes(p) \cup {g} /\ g \notin Prefixes(p)
        /\ \/ calls'[p].at = "panel"
           \/ calls'[p].at # "panel" /\ Awaited(g)'
        /\ Prefixes(p) \subseteq DOMAIN calls
    BY <1>3, MadeIs
  <2>2. Scope(g)' = IF calls'[p].at = "panel" THEN {g} ELSE Scope(p) \cup {g}
    BY <1>3, MadeScope
  <2>3. Path(p) /\ Running(p) /\ p \in Prefixes(p) /\ \A x \in Prefixes(p) : Len(x) \in 1 .. Len(p)
    BY <1>1, PrefixesAre DEF Typed, Foremost
  <2>4. CASE o = g
    BY <1>3, <2>1, <2>2, <2>3, <2>4
  <2>5. CASE o \in Prefixes(p)
    <3>1. /\ Path(o) /\ Parent(o) \in Prefixes(o) /\ Len(Parent(o)) = Len(o) - 1
          /\ Len(o) \in 1 .. Len(p) /\ Prefixes(o) \subseteq Prefixes(p) /\ Len(p) \in Nat
      BY <2>3, <2>5, PrefixesAre, ParentIs
    <3>2. Parent(o) # p /\ Parent(o) # g
      BY <2>1, <3>1
    <3>3. Parent(o) \in Scope(p)
      BY <2>2, <3>2
    <3>4. Awaited(o)
      BY <1>1, <2>3, <2>5, <3>3 DEF Lines
    <3> QED
      BY <2>1, <2>5, <3>2, <3>4, AwaitedLasts
  <2> QED
    BY <2>1, <2>4, <2>5
<1> QED
  BY <1>2, <1>3

-----------------------------------------------------------------------------

LEMMA InTurnKept == ASSUME TreeInv, NEW p \in DOMAIN calls, Acts(p) PROVE InTurn'
<1>1. Typed /\ Lines /\ InTurn /\ Lasts /\ Foremost(p)
  BY DEF TreeInv, Acts
<1>2. ASSUME NEW g \in DOMAIN calls, NEW h \in DOMAIN calls, Running(g)', Running(h)', Scope(g)' \cap Scope(h)' # {}
      PROVE  g \in Prefixes(h) \/ h \in Prefixes(g)
  <2>1. Running(g) /\ Running(h) /\ Scope(g)' = Scope(g) /\ Scope(h)' = Scope(h)
    BY <1>1, <1>2, RunsOn, ScopesLast
  <2> QED
    BY <1>1, <1>2, <2>1 DEF InTurn
<1>3. ASSUME NEW g \in DOMAIN calls' \ DOMAIN calls, NEW h \in DOMAIN calls, Running(h)', Scope(g)' \cap Scope(h)' # {}
      PROVE  h \in Prefixes(g)
  <2>1. Running(h) /\ Scope(h)' = Scope(h) /\ Path(h) /\ Prefixes(h) \subseteq DOMAIN calls /\ Path(p)
    BY <1>1, <1>3, RunsOn, ScopesLast DEF Typed
  <2>2. Scope(h) \subseteq DOMAIN calls
    BY <2>1, ScopeIs
  <2>3. Scope(g)' = IF calls'[p].at = "panel" THEN {g} ELSE Scope(p) \cup {g}
    BY MadeScope
  <2>4. Scope(p) \cap Scope(h) # {}
    BY <1>3, <2>1, <2>2, <2>3
  <2>5. h \in Scope(p)
    BY <1>1, <2>1, <2>4, WaitFor
  <2>6. Prefixes(g) = Prefixes(p) \cup {g}
    BY MadeIs
  <2> QED
    BY <2>1, <2>5, <2>6, ScopeIs
<1>4. ASSUME NEW g \in DOMAIN calls' \ DOMAIN calls, NEW h \in DOMAIN calls' \ DOMAIN calls, Scope(g)' \cap Scope(h)' # {}
      PROVE  g \in Prefixes(h) \/ h \in Prefixes(g)
  <2>1. /\ Path(g) /\ Path(h) /\ g = Leg(p, g[Len(g)]) /\ h = Leg(p, h[Len(h)]) /\ Parent(g) = p /\ Parent(h) = p
        /\ calls'[p].at # "panel" => Awaited(g)' /\ Awaited(h)'
    BY MadeIs, ParentIs
  <2>2. CASE calls'[p].at = "panel"
    <3>1. g = h
      BY <1>4, <2>2, MadeScope
    <3> QED
      BY <2>1, <3>1, PrefixesAre
  <2>3. CASE calls'[p].at # "panel"
    <3>1. Awaits(p, g[Len(g)])' /\ Awaits(p, h[Len(h)])'
      BY <2>1, <2>3 DEF Awaited
    <3>2. g[Len(g)] = h[Len(h)]
      BY <3>1 DEF Awaits
    <3>3. g = h
      BY <2>1, <3>2
    <3> QED
      BY <2>1, <3>3, PrefixesAre
  <2> QED
    BY <2>2, <2>3
<1>5. ASSUME NEW g \in DOMAIN calls', NEW h \in DOMAIN calls', Running(g)', Running(h)', Scope(g)' \cap Scope(h)' # {}
      PROVE  g \in Prefixes(h) \/ h \in Prefixes(g)
  BY <1>2, <1>3, <1>4, <1>5
<1> QED
  BY <1>5 DEF InTurn

\* Only the callers of a call, who wait for it, have it write for them.
LEMMA WritesAbove ==
    ASSUME TreeInv, NEW p \in DOMAIN calls, Acts(p), NEW g \in DOMAIN calls, Running(g),
           NEW q \in Scope(g), calls'[q].written # calls[q].written
    PROVE  g = p \/ ((\E i \in Nat : Awaits(g, i) /\ Leg(g, i) \in Scope(p)) /\ g \in Scope(p))
<1>1. Typed /\ Lines /\ InTurn /\ Lasts /\ Foremost(p) /\ Running(p)
  BY DEF TreeInv, Acts, Foremost
<1>2. Path(g) /\ Prefixes(g) \subseteq DOMAIN calls
  BY DEF TreeInv, Typed
<1>3. q \in DOMAIN calls
  BY <1>2, ScopeIs
<1>4. q \in Scope(p)
  BY <1>3 DEF Acts, Writes
<1>5. g \in Scope(p)
  BY <1>1, <1>4, WaitFor
<1> QED
  BY <1>1, <1>5, Waits

LEMMA UntouchedKept == ASSUME TreeInv, NEW p \in DOMAIN calls, Acts(p) PROVE Untouched'
<1> SUFFICES ASSUME NEW g \in DOMAIN calls', calls'[g].at \in {"enter", "serving", "panel", "pause"},
                    NEW q \in Scope(g)'
             PROVE  calls'[q].written = 0
  BY DEF Untouched, Clean
<1>1. Typed /\ Lasts /\ Untouched
  BY DEF TreeInv, Acts
<1>2. Path(p) /\ Prefixes(p) \subseteq DOMAIN calls /\ Scope(p) \subseteq DOMAIN calls
  BY <1>1, ScopeIs DEF Typed
<1>3. CASE g \in DOMAIN calls /\ g # p
  <2>1. calls[g].at = calls'[g].at /\ Scope(g)' = Scope(g) /\ Path(g) /\ Prefixes(g) \subseteq DOMAIN calls
    BY <1>1, <1>3, ScopesLast DEF Acts, Others, Typed
  <2>2. Running(g) /\ calls[q].written = 0
    BY <1>1, <1>3, <2>1 DEF Running, Untouched, Clean
  <2>3. \A i \in Nat : ~Awaits(g, i)
    BY <2>1 DEF Awaits
  <2> QED
    BY <1>3, <2>1, <2>2, <2>3, WritesAbove
<1>4. CASE g = p
  <2>1. calls'[p].at \in {"panel", "pause"} /\ Clean(p) /\ Scope(p)' = Scope(p)
    BY <1>1, <1>4, ScopesLast DEF Acts, Goes, Untouched
  <2> QED
    BY <1>2, <1>4, <2>1 DEF Acts, Writes, Clean
<1>5. CASE g \notin DOMAIN calls
  <2>1. /\ calls[p].at \in {"enter", "panel", "pause"} /\ calls'[g].written = 0
        /\ calls'[p].at = "panel" \/ (Awaited(g)' /\ Parent(g) = p)
    BY <1>5, MadeIs
  <2>2. calls'[p].at \notin {"streaming", "returned"}
    BY <2>1 DEF Awaited, Awaits
  <2>3. q \in Scope(p) \cup {g}
    BY <1>5, MadeScope
  <2> QED
    BY <1>1, <1>2, <2>1, <2>2, <2>3 DEF Untouched, Clean, Acts, Writes
<1> QED
  BY <1>3, <1>4, <1>5

LEMMA FailedKept == ASSUME TreeInv, NEW p \in DOMAIN calls, Acts(p) PROVE FailedClean'
<1> SUFFICES ASSUME NEW g \in DOMAIN calls', calls'[g].at = "returned", calls'[g].result \in Failures,
                    Len(g) > 1, Awaited(g)'
             PROVE  Held(g)'
  BY DEF FailedClean
<1>1. Typed /\ Lines /\ InTurn /\ Lasts /\ Foremost(p)
  BY DEF TreeInv, Acts
<1>2. g \in DOMAIN calls
  BY MadeIs
<1>3. CASE g = p
  BY <1>3 DEF Acts, Goes
<1>4. CASE g # p
  <2> DEFINE h == Parent(g)
  <2>1. /\ calls[g].at = "returned" /\ calls[g].result \in Failures /\ Path(g) /\ Prefixes(g) \subseteq DOMAIN calls
        /\ Scope(g)' = Scope(g) /\ \A o \in Prefixes(g) : IsMember(o)' <=> IsMember(o)
    BY <1>1, <1>2, <1>4, ScopesLast DEF Acts, Others, Typed
  <2>2. h # p /\ Awaited(g)
    BY <1>2, AwaitedLasts
  <2>3. Held(g)
    BY <1>2, <2>1, <2>2 DEF TreeInv, FailedClean
  <2>4. h \in DOMAIN calls /\ Path(h) /\ g = Leg(h, g[Len(g)]) /\ g[Len(g)] \in Nat
    BY <2>1, ParentIs
  <2>5. Running(h) /\ Awaits(h, g[Len(g)])
    BY <2>2 DEF Awaited, Awaits, Running
  <2>6. ~IsSink(g)
    <3>1. calls[h].at = "last" => g[Len(g)] = 0
      BY <2>2 DEF Awaited, Awaits
    <3>2. calls[h].at = "member" => calls[h].target \notin Fusions
      BY <2>4, FusionAssumption DEF TreeInv, Typed
    <3> QED
      BY <2>5, <3>1, <3>2 DEF Awaits, IsSink, IsPanelCall
  <2>7. Scope(g) = Scope(h) \cup {g}
    BY <2>1, <2>6, SharedScope
  <2>8. g \notin Scope(p)
    <3> SUFFICES ASSUME g \in Scope(p) PROVE FALSE
      OBVIOUS
    <3>1. Running(g)
      BY <1>1, <1>4, Waits DEF Foremost
    <3> QED
      BY <2>1, <3>1 DEF Running
  <2>9. ASSUME NEW q \in Scope(g), calls'[q].written # calls[q].written PROVE FALSE
    <3>1. q \in DOMAIN calls
      BY <2>1, ScopeIs
    <3>2. q \in Scope(p)
      BY <2>9, <3>1 DEF Acts, Writes
    <3>3. q \in Scope(h)
      BY <2>7, <2>8, <3>2
    <3>4. PICK i \in Nat : Awaits(h, i) /\ Leg(h, i) \in Scope(p)
      BY <2>2, <2>4, <2>5, <2>9, <3>3, WritesAbove
    <3>5. i = g[Len(g)]
      BY <2>5, <3>4 DEF Awaits
    <3> QED
      BY <2>4, <2>8, <3>4, <3>5
  <2>10. \A q \in Scope(g) : calls'[q].written = calls[q].written
    BY <2>9
  <2> QED
    BY <2>1, <2>3, <2>10 DEF Held
<1> QED
  BY <1>3, <1>4

LEMMA CancelledLasts == ASSUME TreeInv, NEW p \in DOMAIN calls, Acts(p), NEW g \in DOMAIN calls, Cancelled(g) PROVE Cancelled(g)'
<1>1. Typed /\ Lasts
  BY DEF TreeInv, Acts
<1>2. CASE g[1] \in gone
  BY <1>2 DEF Cancelled, Acts
<1>3. ASSUME NEW q \in Prefixes(g), IsPanelCall(q), calls[Parent(q)].at # "panel"
      PROVE  Cancelled(g)'
  <2>1. q \in DOMAIN calls /\ Path(q) /\ Len(q) > 1
    BY <1>1, <1>3 DEF Typed, IsPanelCall
  <2>2. Parent(q) \in Prefixes(q) \ {q} /\ Parent(q) \in DOMAIN calls
    BY <1>1, <2>1, ParentIs DEF Typed
  <2>3. calls[Parent(q)].at # "enter"
    BY <2>1, <2>2 DEF TreeInv, Rooted
  <2>4. calls'[Parent(q)].at # "panel"
    BY <1>3, <2>2, <2>3 DEF Acts, Others, Goes
  <2>5. IsPanelCall(q)'
    BY <1>1, <1>3, <2>1, SinksLast
  <2> QED
    BY <1>3, <2>4, <2>5 DEF Cancelled
<1> QED
  BY <1>2, <1>3 DEF Cancelled

LEMMA SilencedKept == ASSUME TreeInv, NEW p \in DOMAIN calls, Acts(p) PROVE Silenced'
<1> SUFFICES ASSUME NEW g \in DOMAIN calls', calls'[g].at = "returned", calls'[g].result = "nothing"
             PROVE  Cancelled(g)'
  BY DEF Silenced
<1>1. g \in DOMAIN calls
  BY MadeIs
<1>2. Cancelled(g)
  BY <1>1 DEF TreeInv, Silenced, Acts, Others, Goes
<1> QED
  BY <1>1, <1>2, CancelledLasts

LEMMA OnceKept == ASSUME TreeInv, NEW p \in DOMAIN calls, Acts(p) PROVE AnsweredOnce'
<1> SUFFICES ASSUME NEW g \in DOMAIN calls' PROVE calls'[g].written <= 1
  BY DEF AnsweredOnce
<1>1. CASE g \in DOMAIN calls
  BY <1>1 DEF TreeInv, AnsweredOnce, Acts, Writes
<1>2. CASE g \notin DOMAIN calls
  BY <1>2, MadeIs
<1> QED
  BY <1>1, <1>2

LEMMA RunsKept == ASSUME TreeInv, NEW p \in DOMAIN calls, Acts(p) PROVE RunsForSomebody'
<1> SUFFICES ASSUME NEW g \in DOMAIN calls', Running(g)', Len(g) > 1, ~Cancelled(g)'
             PROVE  (calls'[Parent(g)].at = "panel" /\ IsPanelCall(g)') \/ Awaited(g)'
  BY DEF RunsForSomebody, Awaited, Awaits
<1>1. Typed /\ Lasts /\ Foremost(p)
  BY DEF TreeInv, Acts
<1>2. CASE g \in DOMAIN calls
  <2>1. Running(g) /\ ~Cancelled(g) /\ Path(g) /\ Prefixes(g) \subseteq DOMAIN calls
    BY <1>1, <1>2, RunsOn, CancelledLasts DEF Typed
  <2>2. (calls[Parent(g)].at = "panel" /\ IsPanelCall(g)) \/ Awaited(g)
    BY <1>2, <2>1 DEF TreeInv, RunsForSomebody, Awaited, Awaits
  <2>3. Parent(g) \in DOMAIN calls /\ g = Leg(Parent(g), g[Len(g)]) /\ g[Len(g)] \in Nat /\ g \in Prefixes(g)
    BY <2>1, ParentIs, PrefixesAre
  <2>4. IsPanelCall(g)' <=> IsPanelCall(g)
    BY <1>1, <1>2, SinksLast
  <2>5. CASE Parent(g) # p
    BY <1>2, <2>2, <2>3, <2>4, <2>5, AwaitedLasts DEF Acts, Others
  <2>6. CASE Parent(g) = p /\ Awaited(g)
    BY <1>1, <1>2, <2>1, <2>3, <2>6 DEF Foremost, Awaited
  <2>7. CASE Parent(g) = p /\ calls[p].at = "panel" /\ IsPanelCall(g)
    <3>1. calls'[p].at # "panel"
      BY <2>7 DEF Acts, Goes
    <3>2. Cancelled(g)'
      BY <2>3, <2>4, <2>7, <3>1 DEF Cancelled
    <3> QED
      BY <3>2
  <2> QED
    BY <2>2, <2>5, <2>6, <2>7
<1>3. CASE g \notin DOMAIN calls
  BY <1>3, MadeIs
<1> QED
  BY <1>2, <1>3

LEMMA ActsKeep == ASSUME TreeInv, NEW p \in DOMAIN calls, Acts(p) PROVE TreeInv'
<1>1. Typed' /\ Rooted' /\ Begins' /\ Lines' /\ InTurn'
  BY TypedKept, RootedKept, BeginsKept, LinesKept, InTurnKept
<1>2. Untouched' /\ FailedClean' /\ Silenced' /\ RunsForSomebody' /\ AnsweredOnce'
  BY UntouchedKept, FailedKept, SilencedKept, RunsKept, OnceKept
<1> QED
  BY <1>1, <1>2 DEF TreeInv

-----------------------------------------------------------------------------
(* The other steps: an answer is heard, a client leaves or comes *)

Rests ==
    /\ DOMAIN calls' = DOMAIN calls /\ gone \subseteq gone'
    /\ \A q \in DOMAIN calls :
        /\ calls'[q].target = calls[q].target /\ calls'[q].leg = calls[q].leg /\ calls'[q].written = calls[q].written
        /\ \/ calls'[q].at = calls[q].at /\ calls'[q].result = calls[q].result
           \/ calls[q].at = "returned" /\ calls'[q].at = "heard" /\ calls'[q].result = "nothing"

LEMMA RestsKeep == ASSUME TreeInv, Rests PROVE TreeInv'
<1>1. Typed /\ Lasts
  BY DEF TreeInv, Rests, Lasts
<1>2. \A g \in DOMAIN calls :
        /\ Path(g) /\ Prefixes(g) \subseteq DOMAIN calls /\ Scope(g)' = Scope(g) /\ Scope(g) \subseteq DOMAIN calls
        /\ \A o \in Prefixes(g) : IsMember(o)' <=> IsMember(o)
  BY <1>1, ScopesLast, ScopeIs DEF Typed
<1>3. \A g \in DOMAIN calls : Len(g) > 1 => Parent(g) \in DOMAIN calls
  BY <1>2, ParentIs
<1>4. \A g \in DOMAIN calls :
        /\ Running(g)' <=> Running(g)
        /\ \A place \in Places \ {"returned", "heard"} : calls'[g].at = place <=> calls[g].at = place
        /\ calls'[g].at = "returned" => calls[g].at = "returned" /\ calls'[g].result = calls[g].result
        /\ \A i : Awaits(g, i)' <=> Awaits(g, i)
  BY DEF Rests, Running, Awaits, Places
<1>5. \A g \in DOMAIN calls : Len(g) > 1 => (Awaited(g)' <=> Awaited(g))
  BY <1>3, <1>4 DEF Awaited
<1>6. ASSUME NEW g \in DOMAIN calls, Cancelled(g) PROVE Cancelled(g)'
  <2>1. CASE g[1] \in gone
    BY <2>1 DEF Cancelled, Rests
  <2>2. ASSUME NEW q \in Prefixes(g), IsPanelCall(q), calls[Parent(q)].at # "panel" PROVE Cancelled(g)'
    <3>1. q \in DOMAIN calls /\ Parent(q) \in DOMAIN calls
      BY <1>2, <1>3, <2>2 DEF IsPanelCall
    <3>2. IsPanelCall(q)' /\ calls'[Parent(q)].at # "panel"
      BY <1>1, <1>4, <2>2, <3>1, SinksLast DEF Places
    <3> QED
      BY <2>2, <3>2 DEF Cancelled
  <2> QED
    BY <1>6, <2>1, <2>2 DEF Cancelled
<1>7. Typed'
  BY <1>2 DEF TreeInv, Typed, Rests, Places, Results
<1>8. Rooted' /\ Begins'
  <2>1. Rooted'
    BY <1>2, <1>4 DEF TreeInv, Rooted, Rests, Places
  <2>2. Begins'
    BY <1>3, <1>4 DEF TreeInv, Begins, Rests, Places
  <2> QED
    BY <2>1, <2>2
<1>9. Lines'
  <2> SUFFICES ASSUME NEW p \in DOMAIN calls, Running(p)', NEW o \in Prefixes(p), Len(o) > 1, Parent(o) \in Scope(p)'
               PROVE  Awaited(o)'
    BY DEF Lines, Rests
  <2>1. Running(p) /\ o \in DOMAIN calls /\ Parent(o) \in Scope(p)
    BY <1>2, <1>4
  <2> QED
    BY <1>5, <2>1 DEF TreeInv, Lines
<1>10. InTurn'
  BY <1>2, <1>4 DEF TreeInv, InTurn, Rests
<1>11. Untouched'
  <2> SUFFICES ASSUME NEW p \in DOMAIN calls, calls'[p].at \in {"enter", "serving", "panel", "pause"}, NEW q \in Scope(p)'
               PROVE  calls'[q].written = 0
    BY DEF Untouched, Clean, Rests
  <2>1. calls[p].at \in {"enter", "serving", "panel", "pause"} /\ q \in Scope(p) /\ q \in DOMAIN calls
    BY <1>2, <1>4 DEF Places
  <2> QED
    BY <2>1 DEF TreeInv, Untouched, Clean, Rests
<1>12. FailedClean'
  <2> SUFFICES ASSUME NEW p \in DOMAIN calls, calls'[p].at = "returned", calls'[p].result \in Failures, Len(p) > 1, Awaited(p)'
               PROVE  Held(p)'
    BY DEF FailedClean, Rests
  <2>1. Held(p)
    BY <1>4, <1>5 DEF TreeInv, FailedClean
  <2>2. \A q \in Scope(p) : calls'[q].written = calls[q].written
    BY <1>2 DEF Rests
  <2> QED
    BY <1>2, <2>1, <2>2 DEF Held
<1>13. Silenced'
  BY <1>4, <1>6 DEF TreeInv, Silenced, Rests
<1>14. RunsForSomebody'
  <2> SUFFICES ASSUME NEW g \in DOMAIN calls, Running(g)', Len(g) > 1, ~Cancelled(g)'
               PROVE  (calls'[Parent(g)].at = "panel" /\ IsPanelCall(g)') \/ Awaited(g)'
    BY DEF RunsForSomebody, Awaited, Awaits, Rests
  <2>1. (calls[Parent(g)].at = "panel" /\ IsPanelCall(g)) \/ Awaited(g)
    BY <1>4, <1>6 DEF TreeInv, RunsForSomebody, Awaited, Awaits
  <2>2. IsPanelCall(g)' <=> IsPanelCall(g)
    BY <1>1, SinksLast
  <2> QED
    BY <1>3, <1>4, <1>5, <2>1, <2>2 DEF Places
<1>15. AnsweredOnce'
  BY DEF TreeInv, AnsweredOnce, Rests
<1> QED
  BY <1>7, <1>8, <1>9, <1>10, <1>11, <1>12, <1>13, <1>14, <1>15 DEF TreeInv

\* What a client's request begins with.
LEMMA ClientIs ==
    ASSUME NEW c \in Clients
    PROVE  Path(<<c>>) /\ Prefixes(<<c>>) = {<<c>>} /\ Len(<<c>>) = 1
<1>1. Path(<<c>>) /\ Len(<<c>>) = 1
  BY DEF Path, Steps
<1>2. \A q \in Prefixes(<<c>>) : q = <<c>>
  <2> TAKE q \in Prefixes(<<c>>)
  <2>1. Len(q) \in 1 .. 1 /\ <<c>> \in Prefixes(<<c>>)
    BY <1>1, PrefixesAre
  <2> QED
    BY <1>1, <2>1, Nested
<1>3. <<c>> \in Prefixes(<<c>>)
  BY <1>1, PrefixesAre
<1> QED
  BY <1>1, <1>2, <1>3

Comes(c) ==
    /\ <<c>> \notin DOMAIN calls /\ DOMAIN calls' = DOMAIN calls \cup {<<c>>} /\ gone' = gone
    /\ \A q \in DOMAIN calls : calls'[q] = calls[q]
    /\ calls'[<<c>>].at \in {"enter", "serving"} /\ calls'[<<c>>].leg = 0 /\ calls'[<<c>>].written = 0
    /\ calls'[<<c>>].result = "nothing"

LEMMA ComesKeep == ASSUME TreeInv, NEW c \in Clients, Comes(c) PROVE TreeInv'
<1> DEFINE new == <<c>>
<1>1. Typed /\ Lasts
  BY DEF TreeInv, Comes, Lasts
<1>2. \A g \in DOMAIN calls :
        /\ Path(g) /\ Prefixes(g) \subseteq DOMAIN calls /\ Scope(g)' = Scope(g) /\ Scope(g) \subseteq DOMAIN calls
        /\ \A o \in Prefixes(g) : IsMember(o)' <=> IsMember(o)
        /\ Len(g) > 1 => Parent(g) \in DOMAIN calls
  BY <1>1, ScopesLast, ScopeIs, ParentIs DEF Typed
<1>3. Path(new) /\ Prefixes(new) = {new} /\ Len(new) = 1 /\ Scope(new)' = {new}
  <2>1. Path(new) /\ Prefixes(new) = {new} /\ Len(new) = 1
    BY ClientIs
  <2> QED
    BY <2>1 DEF Scope
<1>4. /\ new \notin DOMAIN calls /\ DOMAIN calls' = DOMAIN calls \cup {new}
      /\ calls'[new].at \in {"enter", "serving"} /\ calls'[new].leg = 0 /\ calls'[new].written = 0
      /\ calls'[new].result = "nothing" /\ \A q \in DOMAIN calls : calls'[q] = calls[q]
  BY DEF Comes
<1> HIDE DEF new
<1>5. \A g \in DOMAIN calls :
        /\ Running(g)' <=> Running(g)
        /\ \A i : Awaits(g, i)' <=> Awaits(g, i)
        /\ Len(g) > 1 => (Awaited(g)' <=> Awaited(g))
  BY <1>2, <1>4 DEF Running, Awaits, Awaited
<1>6. ASSUME NEW g \in DOMAIN calls PROVE Cancelled(g)' <=> Cancelled(g)
  <2>1. \A q \in Prefixes(g) : (IsPanelCall(q)' <=> IsPanelCall(q)) /\ (IsPanelCall(q) => calls'[Parent(q)] = calls[Parent(q)])
    BY <1>1, <1>2, <1>4, SinksLast DEF IsPanelCall
  <2> QED
    BY <2>1 DEF Cancelled, Comes
<1>7. Typed'
  BY <1>2, <1>3, <1>4 DEF TreeInv, Typed, Places, Results
<1>8. Rooted'
  BY <1>2, <1>3, <1>4 DEF TreeInv, Rooted
<1>9. Begins'
  BY <1>2, <1>3, <1>4 DEF TreeInv, Begins
<1>10. Lines'
  <2> SUFFICES ASSUME NEW p \in DOMAIN calls', Running(p)', NEW o \in Prefixes(p), Len(o) > 1, Parent(o) \in Scope(p)'
               PROVE  Awaited(o)'
    BY DEF Lines
  <2>1. p \in DOMAIN calls
    <3>1. p # new
      <4> SUFFICES ASSUME p = new PROVE FALSE
        OBVIOUS
      <4>1. o = new
        BY <1>3
      <4>2. Len(o) = 1
        BY <1>3, <4>1
      <4> QED
        BY <4>2
    <3> QED
      BY <1>4, <3>1
  <2>2. o \in DOMAIN calls
    BY <1>2, <2>1
  <2> QED
    BY <1>2, <1>5, <2>1, <2>2 DEF TreeInv, Lines
<1>11. InTurn'
  <2> SUFFICES ASSUME NEW p \in DOMAIN calls', NEW g \in DOMAIN calls', Running(p)', Running(g)', Scope(p)' \cap Scope(g)' # {}
               PROVE  p \in Prefixes(g) \/ g \in Prefixes(p)
    BY DEF InTurn
  <2>1. (p = new <=> g = new)
    BY <1>2, <1>3, <1>4
  <2>2. CASE p = new
    BY <1>3, <2>1, <2>2
  <2>3. CASE p # new
    BY <1>2, <1>4, <1>5, <2>1, <2>3 DEF TreeInv, InTurn
  <2> QED
    BY <2>2, <2>3
<1>12. Untouched'
  BY <1>2, <1>3, <1>4 DEF TreeInv, Untouched, Clean
<1>13. FailedClean'
  <2> SUFFICES ASSUME NEW p \in DOMAIN calls', calls'[p].at = "returned", calls'[p].result \in Failures, Len(p) > 1, Awaited(p)'
               PROVE  Held(p)'
    BY DEF FailedClean
  <2>1. p \in DOMAIN calls
    BY <1>3, <1>4
  <2>2. Held(p)
    BY <1>4, <1>5, <2>1 DEF TreeInv, FailedClean
  <2> QED
    BY <1>2, <1>4, <2>1, <2>2 DEF Held
<1>14. Silenced'
  BY <1>4, <1>6 DEF TreeInv, Silenced
<1>15. RunsForSomebody'
  <2> SUFFICES ASSUME NEW g \in DOMAIN calls', Running(g)', Len(g) > 1, ~Cancelled(g)'
               PROVE  (calls'[Parent(g)].at = "panel" /\ IsPanelCall(g)') \/ Awaited(g)'
    BY DEF RunsForSomebody, Awaited, Awaits
  <2>1. g \in DOMAIN calls
    BY <1>3, <1>4
  <2>2. (calls[Parent(g)].at = "panel" /\ IsPanelCall(g)) \/ Awaited(g)
    BY <1>5, <1>6, <2>1 DEF TreeInv, RunsForSomebody, Awaited, Awaits
  <2>3. IsPanelCall(g)' <=> IsPanelCall(g)
    BY <1>1, <2>1, SinksLast
  <2> QED
    BY <1>2, <1>4, <1>5, <2>1, <2>2, <2>3
<1>16. AnsweredOnce'
  BY <1>4 DEF TreeInv, AnsweredOnce
<1> QED
  BY <1>7, <1>8, <1>9, <1>10, <1>11, <1>12, <1>13, <1>14, <1>15, <1>16 DEF TreeInv

-----------------------------------------------------------------------------
(* Each action is such a step *)

\* A call that waits for no leg.
LEMMA NoLeg ==
    ASSUME NEW p, calls[p].at \in {"enter", "serving", "streaming", "panel", "pause"}
    PROVE  Foremost(p)
BY DEF Foremost, Running, Awaits

\* A writer that an answer reaches is one of the call's, and no other is nearer.
LEMMA PassedIs ==
    ASSUME NEW p, NEW success
    PROVE  /\ PassedBy(p, success) \subseteq Scope(p)
           /\ ~success => \A q \in PassedBy(p, success) : \A o \in Prefixes(p) : IsMember(o) => Len(o) <= Len(q)
BY DEF PassedBy, Scope

LEMMA Returns ==
    ASSUME IInv, TreeInv, NEW p \in DOMAIN calls, NEW result, NEW writers, Return(p, result, writers),
           Foremost(p), result \in Results, writers \subseteq Scope(p), writers # {} => Clean(p),
           result = "nothing" => Cancelled(p),
           result \in Failures =>
             \/ Clean(p) /\ \A q \in writers : \A o \in Prefixes(p) : IsMember(o) => Len(o) <= Len(q)
             \/ writers = {} /\ Held(p)
    PROVE  Acts(p)
<1> DEFINE last == Ended(calls[p], IF ~Cancelled(p) THEN result ELSE "nothing")
           cs == [calls EXCEPT ![p] = last]
<1>1. calls' = Marked(cs, writers) /\ gone' = gone
  BY DEF Return
<1>2. /\ Shaped(last) /\ last.at = "returned" /\ last.leg = 0 /\ last.written = calls[p].written
      /\ last.target = calls[p].target
      /\ (~Cancelled(p) /\ last.result = result) \/ (Cancelled(p) /\ last.result = "nothing")
  BY DEF Ended, Shaped
<1> HIDE DEF last
<1>3. /\ DOMAIN cs = DOMAIN calls /\ cs[p] = last
      /\ \A q \in DOMAIN calls \ {p} : cs[q] = calls[q]
      /\ \A q \in DOMAIN cs : Shaped(cs[q])
  BY <1>2 DEF IInv, Shape
<1> HIDE DEF cs
<1>4. /\ DOMAIN calls' = DOMAIN calls
      /\ \A q \in DOMAIN calls :
            /\ calls'[q].target = cs[q].target /\ calls'[q].at = cs[q].at
            /\ calls'[q].leg = cs[q].leg /\ calls'[q].result = cs[q].result
            /\ calls'[q].written = IF q \in writers THEN cs[q].written + 1 ELSE cs[q].written
  BY <1>1, <1>3, MarkedIs
<1>5. \A q \in DOMAIN calls :
        /\ calls'[q].target = calls[q].target
        /\ calls'[q].written = IF q \in writers THEN calls[q].written + 1 ELSE calls[q].written
  BY <1>2, <1>3, <1>4
<1>6. Others(p)
  BY <1>3, <1>4 DEF Others
<1>7. /\ calls'[p].at = "returned" /\ calls'[p].leg = 0
      /\ (~Cancelled(p) /\ calls'[p].result = result) \/ (Cancelled(p) /\ calls'[p].result = "nothing")
  BY <1>2, <1>3, <1>4
<1>8. Lasts /\ Typed
  BY <1>4, <1>5 DEF Lasts, TreeInv
<1>9. Writes(p)
  <2> SUFFICES ASSUME NEW q \in DOMAIN calls, q \in writers
               PROVE  calls'[q].written = 1 /\ q \in Scope(p) /\ Clean(p)
    BY <1>5, <1>7 DEF Writes
  <2>1. Clean(p) /\ q \in Scope(p)
    OBVIOUS
  <2>2. calls[q].written = 0
    BY <2>1 DEF Clean
  <2> QED
    BY <1>5, <2>1, <2>2
<1>10. ASSUME calls'[p].result \in Failures PROVE Held(p)'
  <2>1. result \in Failures
    BY <1>7, <1>10 DEF Failures
  <2>2. Scope(p)' = Scope(p) /\ \A o \in Prefixes(p) : IsMember(o)' <=> IsMember(o)
    BY <1>8, ScopesLast
  <2>3. Path(p) /\ Prefixes(p) \subseteq DOMAIN calls /\ Scope(p) \subseteq Prefixes(p)
    BY <1>8, ScopeIs DEF Typed
  <2> SUFFICES ASSUME NEW q \in Scope(p), calls'[q].written # 0, NEW o \in Prefixes(p), IsMember(o)
               PROVE  Len(o) <= Len(q)
    BY <2>2 DEF Held
  <2>4. CASE Clean(p) /\ \A x \in writers : \A y \in Prefixes(p) : IsMember(y) => Len(y) <= Len(x)
    <3>1. q \in writers
      BY <1>5, <2>3, <2>4 DEF Clean
    <3> QED
      BY <2>4, <3>1
  <2>5. CASE writers = {} /\ Held(p)
    <3>1. calls[q].written # 0
      BY <1>5, <2>3, <2>5
    <3> QED
      BY <2>5, <3>1 DEF Held
  <2> QED
    BY <2>1, <2>4, <2>5
<1>11. Goes(p)
  <2>1. calls'[p].leg \in Nat /\ calls'[p].result \in Results
    BY <1>7 DEF Results
  <2>2. calls'[p].result = "nothing" => Cancelled(p)
    BY <1>7
  <2> QED
    BY <1>7, <1>10, <2>1, <2>2 DEF Goes
<1>12. Makes(p)
  BY <1>4 DEF Makes
<1> QED
  BY <1>1, <1>6, <1>8, <1>9, <1>11, <1>12 DEF Acts

LEMMA Fails ==
    ASSUME IInv, TreeInv, NEW p \in DOMAIN calls, Foremost(p), Clean(p), Fail(p)
    PROVE  Acts(p)
<1>1. PICK failure \in Failures : Return(p, failure, PassedBy(p, FALSE))
  BY DEF Fail, Failures
<1>2. failure \in Results /\ failure # "nothing"
  BY DEF Failures, Results
<1> QED
  BY <1>1, <1>2, PassedIs, Returns

\* What it means that the awaited leg has returned.
LEMMA LegEnded ==
    ASSUME TreeInv, NEW p \in DOMAIN calls, NEW i \in Nat, Awaits(p, i), At(Leg(p, i), "returned")
    PROVE  /\ Foremost(p) /\ calls[Leg(p, i)].result \in Results
           /\ calls[Leg(p, i)].result = "nothing" => Cancelled(p)
           /\ calls[Leg(p, i)].result \in Failures => Held(p)
           /\ calls[Leg(p, i)].result \in Failures /\ calls[p].at = "member" => Clean(p)
<1> DEFINE q == Leg(p, i)
<1>1. q \in DOMAIN calls /\ calls[q].at = "returned" /\ Path(p) /\ calls[q].result \in Results
  BY DEF At, TreeInv, Typed
<1>2. /\ Path(q) /\ Len(q) > 1 /\ q[Len(q)] = i /\ Parent(q) = p /\ q[1] = p[1]
      /\ Prefixes(q) = Prefixes(p) \cup {q} /\ Len(q) = Len(p) + 1
      /\ Len(p) \in Nat /\ \A o \in Prefixes(p) : Len(o) \in 1 .. Len(p)
  BY <1>1, LegIs, PrefixesAre
<1>3. Awaited(q)
  BY <1>2 DEF Awaited
<1>4. \A j \in Nat : Awaits(p, j) => j = i
  BY DEF Awaits
<1>5. Foremost(p)
  <2>1. ~Running(q)
    BY <1>1 DEF Running
  <2>2. Running(p)
    BY DEF Awaits, Running
  <2> QED
    BY <1>4, <2>1, <2>2 DEF Foremost
<1> HIDE DEF q
<1>6. ~IsSink(q) /\ ~IsPanelCall(q) /\ (IsMember(q) <=> calls[p].at = "member")
  <2>1. CASE calls[p].at = "last"
    <3>1. i = 0 /\ calls[p].target \in Fusions
      BY <2>1 DEF Awaits, TreeInv, Typed
    <3> QED
      BY <1>2, <2>1, <3>1, FusionAssumption DEF IsSink, IsPanelCall, IsMember
  <2>2. CASE calls[p].at = "member"
    <3>1. calls[p].target \in Walks
      BY <2>2 DEF TreeInv, Typed
    <3> QED
      BY <1>2, <2>2, <3>1, FusionAssumption DEF IsSink, IsPanelCall, IsMember
  <2> QED
    BY <2>1, <2>2 DEF Awaits
<1>7. Scope(q) = Scope(p) \cup {q} /\ Scope(p) \subseteq Prefixes(p)
  BY <1>1, <1>2, <1>6, SharedScope, ScopeIs
<1>8. Cancelled(q) => Cancelled(p)
  BY <1>2, <1>6 DEF Cancelled
<1>9. calls[q].result = "nothing" => Cancelled(p)
  BY <1>1, <1>8 DEF TreeInv, Silenced
<1>10. ASSUME calls[q].result \in Failures
       PROVE  Held(p) /\ (calls[p].at = "member" => Clean(p))
  <2>1. Held(q)
    BY <1>1, <1>2, <1>3, <1>10 DEF TreeInv, FailedClean
  <2>2. Held(p)
    BY <1>2, <1>7, <2>1 DEF Held
  <2>3. ASSUME calls[p].at = "member", NEW x \in Scope(p), calls[x].written # 0 PROVE FALSE
    <3>1. IsMember(q) /\ q \in Prefixes(q) /\ x \in Scope(q)
      BY <1>2, <1>6, <1>7, <2>3
    <3>2. Len(q) <= Len(x)
      BY <2>1, <2>3, <3>1 DEF Held
    <3> QED
      BY <1>2, <1>7, <3>2
  <2> QED
    BY <2>2, <2>3 DEF Clean
<1> QED
  BY <1>1, <1>5, <1>9, <1>10 DEF q

-----------------------------------------------------------------------------

\* A call that goes on beside the calls it begins.
LEMMA Starts ==
    ASSUME TreeInv, NEW p \in DOMAIN calls, calls[p].at \in {"enter", "panel", "pause"}, gone' = gone,
           DOMAIN calls \subseteq DOMAIN calls', \A q \in DOMAIN calls \ {p} : calls'[q] = calls[q],
           calls'[p].target = calls[p].target, calls'[p].written = calls[p].written, Goes(p), Makes(p)
    PROVE  Acts(p)
<1>1. Foremost(p)
  BY NoLeg
<1>2. Lasts /\ Writes(p) /\ Others(p)
  BY DEF Lasts, Writes, Others
<1> QED
  BY <1>1, <1>2 DEF Acts

\* One leg is begun beside it.
Branches(p, r, i, target) == calls' = Begun([calls EXCEPT ![p] = r], Leg(p, i), target)

LEMMA BranchesOff ==
    ASSUME IInv, NEW p \in DOMAIN calls, NEW r, Shaped(r), NEW i, NEW target, Branches(p, r, i, target)
    PROVE  /\ DOMAIN calls \subseteq DOMAIN calls' /\ calls'[p] = r
           /\ \A q \in DOMAIN calls \ {p} : calls'[q] = calls[q]
           /\ \A q \in DOMAIN calls' \ DOMAIN calls : q = Leg(p, i) /\ calls'[q] = NewCall(target)
<1> DEFINE new == Leg(p, i)
<1>1. calls' = Begun([calls EXCEPT ![p] = r], new, target)
  BY DEF Branches
<1> HIDE DEF new
<1>2. /\ DOMAIN calls \subseteq DOMAIN calls' /\ calls'[p] = r
      /\ \A q \in DOMAIN calls \ {p} : calls'[q] = calls[q]
      /\ \A q \in DOMAIN calls' \ DOMAIN calls : q = new /\ calls'[q] = NewCall(target)
  BY <1>1, MovedOne
<1> QED
  BY <1>2 DEF new

\* The same when it begins one and waits for it.
LEMMA StartsOne ==
    ASSUME IInv, TreeInv, NEW p \in DOMAIN calls, gone' = gone, NEW i \in Nat, NEW target,
           NEW r, Shaped(r), r.target = calls[p].target, r.written = calls[p].written,
           r.result = calls[p].result, r.leg \in Nat,
           Branches(p, r, i, target),
           \/ /\ calls[p].at \in {"enter", "panel"} /\ calls[p].target \in Fusions
              /\ r.at = "last" /\ i = 0
           \/ /\ calls[p].target \in Walks /\ r.at = "member" /\ i = r.leg
              /\ calls[p].at = "enter" \/ (calls[p].at = "pause" /\ r.leg = calls[p].leg + 1)
    PROVE  Acts(p)
<1>1. /\ DOMAIN calls \subseteq DOMAIN calls' /\ calls'[p] = r
      /\ \A q \in DOMAIN calls \ {p} : calls'[q] = calls[q]
      /\ \A q \in DOMAIN calls' \ DOMAIN calls : q = Leg(p, i) /\ calls'[q] = NewCall(target)
  BY BranchesOff, Zenon
<1>2. calls[p].result \in Results
  BY DEF TreeInv, Typed
<1>3. Goes(p)
  BY <1>1, <1>2 DEF Goes
<1>4. Awaits(p, i)'
  BY <1>1 DEF Awaits
<1>5. Makes(p)
  <2> SUFFICES ASSUME NEW q \in DOMAIN calls' \ DOMAIN calls
               PROVE  /\ q = Leg(p, i) /\ Awaits(p, i)'
                      /\ calls'[q].at \in {"enter", "serving"} /\ calls'[q].leg = 0 /\ calls'[q].written = 0
                      /\ calls'[q].result = "nothing"
    BY Zenon DEF Makes
  <2>1. q = Leg(p, i) /\ calls'[q] = NewCall(target)
    BY <1>1
  <2>2. /\ calls'[q].at \in {"enter", "serving"} /\ calls'[q].leg = 0 /\ calls'[q].written = 0
        /\ calls'[q].result = "nothing"
    BY <2>1, NewCallIs
  <2> QED
    BY <1>4, <2>1, <2>2
<1> QED
  BY <1>1, <1>3, <1>5, Starts

LEMMA AnswerActs == ASSUME IInv, TreeInv, NEW p \in DOMAIN calls, Answer(p) PROVE Acts(p)
<1> DEFINE cs == [calls EXCEPT ![p].at = "streaming"]
           ws == PassedBy(p, TRUE)
<1>1. calls[p].at = "serving" /\ calls' = Marked(cs, ws) /\ gone' = gone
  BY DEF Answer, At
<1>2. Placed(calls, cs, p, "streaming", calls[p].result)
  <2>1. \A o \in DOMAIN calls : Shaped(calls[o])
    BY DEF IInv, Shape
  <2> HIDE DEF cs
  <2>3. cs = [calls EXCEPT ![p].at = "streaming"]
    BY DEF cs
  <2> QED
    BY <2>1, <2>3, AtEdited, Zenon
<1> HIDE DEF cs
<1>3. /\ DOMAIN cs = DOMAIN calls
      /\ \A o \in DOMAIN calls :
            /\ Shaped(cs[o]) /\ cs[o].target = calls[o].target
            /\ cs[o].leg = calls[o].leg /\ cs[o].written = calls[o].written
            /\ cs[o].at = IF o = p THEN "streaming" ELSE calls[o].at
            /\ cs[o].result = calls[o].result
  BY <1>2 DEF Placed
<1>4. /\ DOMAIN calls' = DOMAIN calls
      /\ \A q \in DOMAIN calls :
            /\ calls'[q].target = cs[q].target /\ calls'[q].at = cs[q].at
            /\ calls'[q].leg = cs[q].leg /\ calls'[q].result = cs[q].result
            /\ calls'[q].written = IF q \in ws THEN cs[q].written + 1 ELSE cs[q].written
  <2> HIDE DEF ws
  <2>1. \A q \in DOMAIN cs : Shaped(cs[q])
    BY <1>3
  <2> QED
    BY <1>1, <1>3, <2>1, MarkedIs
<1>5. ws \subseteq Scope(p) /\ Foremost(p) /\ Clean(p)
  <2>1. ws \subseteq Scope(p)
    BY PassedIs
  <2>2. Clean(p)
    BY <1>1 DEF TreeInv, Untouched
  <2>3. Foremost(p)
    BY <1>1, NoLeg
  <2> QED
    BY <2>1, <2>2, <2>3
<1> HIDE DEF ws
<1>6. calls'[p].at = "streaming" /\ calls'[p].leg \in Nat /\ calls'[p].result \in Results
  BY <1>3, <1>4 DEF TreeInv, Typed
<1>7. Writes(p)
  <2> SUFFICES ASSUME NEW q \in DOMAIN calls, q \in ws PROVE calls'[q].written = 1
    BY <1>3, <1>4, <1>5, <1>6 DEF Writes
  <2>1. calls[q].written = 0
    BY <1>5 DEF Clean
  <2> QED
    BY <1>3, <1>4, <2>1
<1>8. Lasts /\ Others(p) /\ Goes(p) /\ Makes(p)
  BY <1>1, <1>3, <1>4, <1>6 DEF Lasts, Others, Goes, Makes
<1> QED
  BY <1>1, <1>5, <1>7, <1>8 DEF Acts

LEMMA ProviderActs == ASSUME IInv, TreeInv, NEW p \in DOMAIN calls, Provider(p) PROVE Acts(p)
<1>1. CASE Answer(p)
  BY <1>1, AnswerActs
<1>2. CASE FinishAnswer(p)
  <2>1. PICK success \in Successes : Return(p, success, {})
    BY <1>2 DEF FinishAnswer, Successes
  <2>2. success \in Results /\ success # "nothing" /\ success \notin Failures
    BY DEF Successes, Failures, Results
  <2>3. Foremost(p)
    BY <1>2, NoLeg DEF FinishAnswer, At
  <2> QED
    BY <2>1, <2>2, <2>3, Returns
<1>3. CASE AnswerFails(p)
  <2>1. Foremost(p) /\ Clean(p)
    BY <1>3, NoLeg DEF AnswerFails, At, TreeInv, Untouched
  <2> QED
    BY <1>3, <2>1, Fails DEF AnswerFails
<1> QED
  BY <1>1, <1>2, <1>3 DEF Provider

\* A call ends with nothing only because it was cancelled.
LEMMA GivesUp ==
    ASSUME IInv, TreeInv, NEW p \in DOMAIN calls, Foremost(p), Cancelled(p), Return(p, "nothing", {})
    PROVE  Acts(p)
BY Returns DEF Results, Failures

LEMMA OnlyMemberActs == ASSUME IInv, TreeInv, NEW p \in DOMAIN calls, OnlyMember(p) PROVE Acts(p)
<1> PICK r : r = [calls[p] EXCEPT !.at = "last"]
  OBVIOUS
<1>1. Shaped(calls[p]) /\ calls[p].leg \in Nat
  BY DEF IInv, Shape, TreeInv, Typed
<1>2. Shaped(r)
  BY <1>1 DEF Shaped
<1>3. r.target = calls[p].target /\ r.at = "last" /\ r.leg = calls[p].leg /\ r.result = calls[p].result /\ r.written = calls[p].written
  BY <1>1 DEF Shaped
<1>4. /\ Branches(p, r, 0, Members[calls[p].target][1]) /\ gone' = gone
      /\ calls[p].at = "enter" /\ calls[p].target \in Fusions
  BY DEF Branches, OnlyMember, At, IInv, Shape
<1> QED
  BY <1>1, <1>2, <1>3, <1>4, StartsOne

LEMMA StartMemberActs ==
    ASSUME IInv, TreeInv, NEW p \in DOMAIN calls, calls[p].target \in Walks, NEW i \in Nat, StartMember(p, i),
           calls[p].at = "enter" \/ (calls[p].at = "pause" /\ i = calls[p].leg + 1)
    PROVE  Acts(p)
<1> PICK r : r = [calls[p] EXCEPT !.at = "member", !.leg = i]
  OBVIOUS
<1>1. Shaped(calls[p])
  BY DEF IInv, Shape
<1>2. Shaped(r)
  BY <1>1, MemberIs
<1>3. r.target = calls[p].target /\ r.at = "member" /\ r.leg = i /\ r.result = calls[p].result /\ r.written = calls[p].written
  BY <1>1 DEF Shaped
<1>4. Branches(p, r, i, Members[calls[p].target][i]) /\ gone' = gone
  BY DEF Branches, StartMember, IInv, Shape
<1> QED
  BY <1>2, <1>3, <1>4, StartsOne

LEMMA CollectedActs == ASSUME IInv, TreeInv, NEW p \in DOMAIN calls, At(p, "panel"), Collected(p) PROVE Acts(p)
<1>1. CASE Fail(p)
  BY <1>1, Fails, NoLeg DEF At, TreeInv, Untouched
<1>2. CASE /\ calls' = Begun([calls EXCEPT ![p].at = "last", ![p].texts = {}, ![p].oks = 0], Leg(p, 0), LastTarget(p))
           /\ UNCHANGED gone
  <2> PICK r : r = [calls[p] EXCEPT !.at = "last", !.texts = {}, !.oks = 0]
    OBVIOUS
  <2>1. Shaped(calls[p]) /\ calls[p].leg \in Nat /\ calls[p].target \in Fusions
    BY DEF IInv, Shape, TreeInv, Typed, At
  <2>2. Shaped(r) /\ r.target = calls[p].target /\ r.at = "last" /\ r.leg = calls[p].leg /\ r.result = calls[p].result /\ r.written = calls[p].written
    BY <2>1, LastIs
  <2>3. Branches(p, r, 0, LastTarget(p)) /\ gone' = gone
    BY <1>2 DEF Branches, IInv, Shape
  <2> QED
    BY <2>1, <2>2, <2>3, StartsOne DEF At
<1> QED
  BY <1>1, <1>2 DEF Collected

-----------------------------------------------------------------------------

LEMMA StartPanelActs == ASSUME IInv, TreeInv, NEW p \in DOMAIN calls, StartPanel(p) PROVE Acts(p)
<1> DEFINE members == Members[calls[p].target]
           legs == {Leg(p, i) : i \in DOMAIN members}
           new == [q \in legs |-> NewCall(members[q[Len(q)]])]
           cs == [calls EXCEPT ![p].at = "panel"]
<1>1. /\ calls' = Beside(cs, new) /\ gone' = gone
      /\ calls[p].at = "enter" /\ calls[p].target \in Fusions
  BY DEF StartPanel, At
<1>2. members \in Seq(Targets)
  BY <1>1, FusionAssumption DEF Combos
<1>3. \A i \in DOMAIN members : i \in Nat \ {0}
  BY <1>2
<1>4. \A q \in legs : \E i \in Nat \ {0} : q = Leg(p, i)
  BY <1>3
<1> HIDE DEF members
<1>5. DOMAIN new = legs /\ \A q \in legs : \E target : new[q] = NewCall(target)
  OBVIOUS
<1> HIDE DEF new, legs
<1>6. Placed(calls, cs, p, "panel", calls[p].result)
  <2>1. \A o \in DOMAIN calls : Shaped(calls[o])
    BY DEF IInv, Shape
  <2> HIDE DEF cs
  <2>2. cs = [calls EXCEPT ![p].at = "panel"]
    BY DEF cs
  <2> QED
    BY <2>1, <2>2, AtEdited, Zenon
<1> HIDE DEF cs
<1>7. /\ DOMAIN cs = DOMAIN calls
      /\ \A o \in DOMAIN calls :
            /\ Shaped(cs[o]) /\ cs[o].target = calls[o].target
            /\ cs[o].leg = calls[o].leg /\ cs[o].written = calls[o].written
            /\ cs[o].at = IF o = p THEN "panel" ELSE calls[o].at
            /\ cs[o].result = calls[o].result
  BY <1>6 DEF Placed
<1>8. /\ DOMAIN calls' = DOMAIN calls \cup legs
      /\ \A o \in DOMAIN calls : calls'[o] = cs[o]
      /\ \A o \in DOMAIN calls' \ DOMAIN calls : o \in legs /\ calls'[o] = new[o]
  BY <1>1, <1>5, <1>7 DEF Beside
<1>9. calls'[p].at = "panel" /\ calls'[p].leg \in Nat /\ calls'[p].result \in Results
  BY <1>7, <1>8 DEF TreeInv, Typed
<1>10. Goes(p)
  BY <1>1, <1>9 DEF Goes
<1>11. Makes(p)
  <2> SUFFICES ASSUME NEW q \in DOMAIN calls' \ DOMAIN calls
               PROVE  /\ \E i \in Nat : q = Leg(p, i) /\ calls'[p].at = "panel" /\ i # 0
                      /\ calls'[q].at \in {"enter", "serving"} /\ calls'[q].leg = 0 /\ calls'[q].written = 0
                      /\ calls'[q].result = "nothing"
    BY Zenon DEF Makes
  <2>1. PICK target : calls'[q] = NewCall(target)
    BY <1>5, <1>8
  <2>2. PICK i \in Nat \ {0} : q = Leg(p, i)
    BY <1>4, <1>8
  <2>3. /\ calls'[q].at \in {"enter", "serving"} /\ calls'[q].leg = 0 /\ calls'[q].written = 0
        /\ calls'[q].result = "nothing"
    BY <2>1, NewCallIs
  <2> QED
    BY <1>9, <2>2, <2>3
<1>12. Lasts /\ Others(p) /\ Writes(p)
  BY <1>7, <1>8 DEF Lasts, Others, Writes
<1> QED
  BY <1>1, <1>10, <1>11, <1>12, NoLeg DEF Acts

LEMMA LastReturnedActs == ASSUME IInv, TreeInv, NEW p \in DOMAIN calls, LastReturned(p) PROVE Acts(p)
<1>1. At(Leg(p, 0), "returned") /\ Awaits(p, 0) /\ Return(p, calls[Leg(p, 0)].result, {})
  BY DEF LastReturned, At, Awaits
<1>2. /\ Foremost(p) /\ calls[Leg(p, 0)].result \in Results
      /\ calls[Leg(p, 0)].result = "nothing" => Cancelled(p)
      /\ calls[Leg(p, 0)].result \in Failures => Held(p)
  BY <1>1, LegEnded
<1> QED
  BY <1>1, <1>2, Returns

\* The pause after a member that failed.
LEMMA Pauses ==
    ASSUME IInv, TreeInv, NEW p \in DOMAIN calls, calls[p].at = "member", Foremost(p), Clean(p),
           calls' = [calls EXCEPT ![p].at = "pause"], gone' = gone
    PROVE  Acts(p)
<1>1. Placed(calls, calls', p, "pause", calls[p].result)
  <2>1. \A o \in DOMAIN calls : Shaped(calls[o])
    BY DEF IInv, Shape
  <2> QED
    BY <2>1, AtEdited
<1>2. /\ DOMAIN calls' = DOMAIN calls
      /\ \A o \in DOMAIN calls :
            /\ calls'[o].target = calls[o].target
            /\ calls'[o].leg = calls[o].leg /\ calls'[o].written = calls[o].written
            /\ calls'[o].at = IF o = p THEN "pause" ELSE calls[o].at
            /\ calls'[o].result = calls[o].result
  BY <1>1 DEF Placed
<1>3. calls'[p].at = "pause" /\ calls'[p].leg = calls[p].leg /\ calls'[p].leg \in Nat /\ calls'[p].result \in Results
  BY <1>2 DEF TreeInv, Typed
<1>4. Goes(p) /\ Makes(p)
  BY <1>2, <1>3 DEF Goes, Makes
<1>5. Lasts /\ Others(p) /\ Writes(p)
  BY <1>2 DEF Lasts, Others, Writes
<1> QED
  BY <1>4, <1>5 DEF Acts

LEMMA MemberReturnedActs == ASSUME IInv, TreeInv, NEW p \in DOMAIN calls, MemberReturned(p) PROVE Acts(p)
<1> DEFINE i == calls[p].leg
           result == calls[Leg(p, i)].result
<1>1. calls[p].at = "member" /\ At(Leg(p, i), "returned") /\ i \in Nat
  BY DEF MemberReturned, At, TreeInv, Typed
<1>2. Awaits(p, i)
  BY <1>1 DEF Awaits
<1>3. /\ Foremost(p) /\ result \in Results /\ (result = "nothing" => Cancelled(p))
      /\ result \in Failures => Held(p) /\ Clean(p)
  BY <1>1, <1>2, LegEnded
<1>4. \/ Cancelled(p) /\ Return(p, "nothing", {})
      \/ ~Cancelled(p) /\ result \in Successes /\ Return(p, result, {})
      \/ ~Cancelled(p) /\ result = "refused" /\ Return(p, result, PassedBy(p, FALSE))
      \/ ~Cancelled(p) /\ result \notin Successes /\ Fail(p)
      \/ ~Cancelled(p) /\ result \notin Successes /\ calls' = [calls EXCEPT ![p].at = "pause"] /\ gone' = gone
  BY DEF MemberReturned, Committed
<1> HIDE DEF result
<1>5. /\ result \in Successes => result # "nothing" /\ result \notin Failures
      /\ result = "refused" => result \in Failures /\ result # "nothing"
      /\ ~Cancelled(p) /\ result \notin Successes => result \in Failures
  BY <1>3 DEF Successes, Failures, Results
<1>6. CASE Cancelled(p) /\ Return(p, "nothing", {})
  BY <1>3, <1>6, GivesUp
<1>7. CASE ~Cancelled(p) /\ result \in Successes /\ Return(p, result, {})
  BY <1>3, <1>5, <1>7, Returns
<1>8. CASE ~Cancelled(p) /\ result = "refused" /\ Return(p, result, PassedBy(p, FALSE))
  <2>1. Clean(p) /\ result \in Failures
    BY <1>3, <1>5, <1>8
  <2>2. /\ PassedBy(p, FALSE) \subseteq Scope(p)
        /\ \A q \in PassedBy(p, FALSE) : \A o \in Prefixes(p) : IsMember(o) => Len(o) <= Len(q)
    BY PassedIs
  <2> QED
    BY <1>3, <1>5, <1>8, <2>1, <2>2, Returns
<1>9. CASE ~Cancelled(p) /\ result \notin Successes /\ Fail(p)
  BY <1>3, <1>5, <1>9, Fails
<1>10. CASE ~Cancelled(p) /\ result \notin Successes /\ calls' = [calls EXCEPT ![p].at = "pause"] /\ gone' = gone
  BY <1>1, <1>3, <1>5, <1>10, Pauses
<1> QED
  BY <1>4, <1>6, <1>7, <1>8, <1>9, <1>10

LEMMA NextMemberActs == ASSUME IInv, TreeInv, NEW p \in DOMAIN calls, NextMember(p) PROVE Acts(p)
<1>1. calls[p].at = "pause" /\ calls[p].target \in Walks /\ calls[p].leg \in Nat
  BY DEF NextMember, At, TreeInv, Typed
<1>2. CASE Cancelled(p) /\ Return(p, "nothing", {})
  BY <1>1, <1>2, NoLeg, GivesUp
<1>3. CASE StartMember(p, calls[p].leg + 1)
  BY <1>1, <1>3, StartMemberActs
<1> QED
  BY <1>2, <1>3 DEF NextMember

LEMMA HandlerActs == ASSUME IInv, TreeInv, NEW p \in DOMAIN calls, Handler(p) PROVE Acts(p) \/ Rests
<1>1. CASE Abort(p)
  <2>1. Foremost(p)
    BY <1>1, NoLeg DEF Abort, At
  <2> QED
    BY <1>1, <2>1, GivesUp DEF Abort
<1>2. CASE Refuse(p)
  <2>1. Foremost(p) /\ Clean(p)
    BY <1>2, NoLeg DEF Refuse, At, TreeInv, Untouched
  <2> QED
    BY <1>2, <2>1, Fails DEF Refuse
<1>3. CASE OnlyMember(p)
  BY <1>3, OnlyMemberActs
<1>4. CASE StartPanel(p)
  BY <1>4, StartPanelActs
<1>5. CASE Hear(p)
  BY <1>5, HearIs DEF Rests
<1>6. CASE AllAnswered(p) \/ GraceOver(p) \/ Stopped(p)
  BY <1>6, CollectedActs DEF AllAnswered, GraceOver, Stopped
<1>7. CASE LastReturned(p)
  BY <1>7, LastReturnedActs
<1>8. CASE StartWalk(p)
  BY <1>8, StartMemberActs DEF StartWalk, At
<1>9. CASE MemberReturned(p)
  BY <1>9, MemberReturnedActs
<1>10. CASE NextMember(p)
  BY <1>10, NextMemberActs
<1> QED
  BY <1>1, <1>2, <1>3, <1>4, <1>5, <1>6, <1>7, <1>8, <1>9, <1>10 DEF Handler

LEMMA TreeNext == IInv /\ TreeInv /\ [Next]_vars => TreeInv'
<1> SUFFICES ASSUME IInv, TreeInv, [Next]_vars PROVE TreeInv'
  OBVIOUS
<1>1. CASE UNCHANGED vars
  <2>1. Rests
    BY <1>1 DEF vars, Rests
  <2> QED
    BY <2>1, RestsKeep
<1>2. ASSUME NEW c \in Clients, Begin(c) PROVE TreeInv'
  <2> PICK target \in Asks[c] : calls' = Begun(calls, <<c>>, target)
    BY <1>2 DEF Begin
  <2>1. Comes(c)
    BY <1>2, NewCallIs DEF Comes, Begin, Begun, Beside
  <2> QED
    BY <2>1, ComesKeep
<1>3. ASSUME NEW c \in Clients, Leave(c) PROVE TreeInv'
  <2>1. Rests
    BY <1>3 DEF Leave, Rests
  <2> QED
    BY <2>1, RestsKeep
<1>4. ASSUME NEW p \in DOMAIN calls, Provider(p) \/ Handler(p) PROVE TreeInv'
  BY <1>4, ProviderActs, HandlerActs, ActsKeep, RestsKeep
<1> QED
  BY <1>1, <1>2, <1>3, <1>4 DEF Next

LEMMA TreeStart == Init => TreeInv
<1> SUFFICES ASSUME Init PROVE TreeInv
  OBVIOUS
<1>1. DOMAIN calls = {}
  BY DEF Init
<1> QED
  BY <1>1 DEF TreeInv, Typed, Rooted, Begins, Lines, InTurn, Untouched, FailedClean, Silenced, RunsForSomebody, AnsweredOnce

\* Whatever fails, is cancelled or answers late, at any depth: on no writer is a second
\* answer begun.  A panel call writes into its own buffer, a member that failed is held
\* back by its probe, and a judge is asked only where the panel wrote nothing.
THEOREM OneAnswer == Spec => []AnsweredOnce
<1>1. TreeInv => AnsweredOnce
  BY DEF TreeInv
<1> QED
  BY <1>1, Start, NextPreserves, TreeStart, TreeNext, PTL DEF Spec

\* No call is left running for a caller that is gone: what still runs is awaited by the
\* panel or the handler that made it, or is cancelled.
THEOREM NoOrphans == Spec => []RunsForSomebody
<1>1. TreeInv => RunsForSomebody
  BY DEF TreeInv
<1> QED
  BY <1>1, Start, NextPreserves, TreeStart, TreeNext, PTL DEF Spec
=============================================================================
