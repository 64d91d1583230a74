-------------------------------- MODULE Fusion --------------------------------
(***************************************************************************)
(* internal/ingress/fusion_serving.go and combo_walk.go: a request for a   *)
(* Fusion Combo fans out to its panel, collects the answers with a quorum, *)
(* a grace window and a hard timeout, and has a judge write the answer; a  *)
(* Combo with Combos among its members tries them in turn.                 *)
(*                                                                         *)
(* Each leg is a request to the same handler, so calls nest.  A call is    *)
(* known by its path: the client, then the number of each leg on the way   *)
(* (of a panel call or a member; 0 for a judge or an only member).  What   *)
(* the ordinary handler serves (Dispatch) is a model here: it answers with *)
(* a status, streams, and ends, or never ends unless it is cancelled.      *)
(***************************************************************************)
EXTENDS Naturals, Sequences, FiniteSets

CONSTANTS Clients,
          Models,        \* targets the ordinary handler serves
          Fusions, Walks, \* Combos
          Members,       \* the members of a Combo, as it resolves or plans them
          Judge,         \* the judge of a Fusion Combo
          Asks,          \* what each client may ask for
          MinPanelQuorum, MaxPanels,
          MaxConcurrent, \* capacity of fusionSlots
          MaxComboDepth

Combos == Fusions \cup Walks
Targets == Models \cup Combos

ASSUME FusionAssumption ==
    /\ Fusions \cap Walks = {} /\ Models \cap Combos = {}
    /\ DOMAIN Members = Combos /\ \A c \in Combos : Members[c] \in Seq(Targets) /\ Members[c] # <<>>
    /\ Judge \in [Fusions -> Targets] /\ Asks \in [Clients -> SUBSET Targets]
    /\ MinPanelQuorum \in Nat /\ MaxPanels \in Nat /\ MaxConcurrent \in Nat /\ MaxComboDepth \in Nat

VARIABLES
    calls,  \* the calls made so far
    slots,  \* taken places of fusionSlots
    gone    \* clients that left
vars == <<calls, slots, gone>>

\* What a call ended with: an answer with text in it, one without (or that broke
\* off), one too large for a panel, a failure a Combo falls past, one it does not,
\* or nothing written.
Successes == {"text", "blank", "large"}
Failures == {"failed", "refused"}
Results == Successes \cup Failures \cup {"nothing"}

\* A panel call whose status is 2xx and whose body is within the limit.
Ok(result) == result \in {"text", "blank"}

Call == [target : Targets,
         at     : {"enter", "serving", "streaming", "panel", "last", "member", "pause", "returned", "heard"},
         result : Results,
         leg    : Nat,      \* the member a walk is at
         oks    : Nat,      \* successes heard
         texts  : SUBSET Nat, \* panel calls that gave text
         written : Nat]     \* history: answers begun on the writer made for this call

NewCall(target) == [target |-> target, at |-> IF target \in Models THEN "serving" ELSE "enter",
                    result |-> "nothing", leg |-> 0, oks |-> 0, texts |-> {}, written |-> 0]

Init == calls = <<>> /\ slots = 0 /\ gone = {}

-----------------------------------------------------------------------------
(* The tree of calls *)

Parent(p) == SubSeq(p, 1, Len(p) - 1)
Prefixes(p) == {SubSeq(p, 1, n) : n \in 1 .. Len(p)}
Leg(p, i) == Append(p, i)
Panel(p) == DOMAIN Members[calls[p].target]

\* A call with a writer of its own: the client's, a panel call's bufferedResponse,
\* a member's probeWriter.  The others write to their parent's.
IsPanelCall(p) == Len(p) > 1 /\ p[Len(p)] # 0 /\ calls[Parent(p)].target \in Fusions
IsMember(p) == Len(p) > 1 /\ calls[Parent(p)].target \in Walks
IsSink(p) == Len(p) = 1 \/ IsPanelCall(p)

\* The nearest of a set of prefixes.
Nearest(ps) == CHOOSE q \in ps : \A o \in ps : Len(o) <= Len(q)
Sink(p) == Nearest({q \in Prefixes(p) : IsSink(q)})
Writer(p) == Nearest({q \in Prefixes(p) : IsSink(q) \/ IsMember(q)})

\* A status of 2xx passes every probeWriter on its way to the nearest sink; another is
\* held by the first.
PassedBy(p, success) == {q \in Prefixes(p) :
    /\ IsSink(q) \/ IsMember(q)
    /\ \A o \in Prefixes(p) : IsSink(o) \/ (~success /\ IsMember(o)) => Len(o) <= Len(q)}

\* The calls that are made beside the others.
Beside(cs, new) == [q \in DOMAIN cs \cup DOMAIN new |-> IF q \in DOMAIN cs THEN cs[q] ELSE new[q]]
Begun(cs, q, target) == Beside(cs, [x \in {q} |-> NewCall(target)])

Marked(cs, ws) == [q \in DOMAIN cs |-> IF q \in ws THEN [cs[q] EXCEPT !.written = @ + 1] ELSE cs[q]]

\* Broken variant of Cancelled: the panel's context outlives the collection.
CancelledByClient(p) == p[1] \in gone

\* The context of a call has ended: its client left, or a collection it belongs to
\* is over.
Cancelled(p) ==
    \/ p[1] \in gone
    \/ \E q \in Prefixes(p) : IsPanelCall(q) /\ calls[Parent(q)].at # "panel"

-----------------------------------------------------------------------------
(* Ending a call *)

Holds(p) == calls[p].target \in Fusions /\ Len(Members[calls[p].target]) > 1 /\ calls[p].at \in {"panel", "last"}

\* Broken variant of Capacity: the channel is not sized to the panel.
CapacityOne(p) == 1

\* The buffer of `arrived'.
Capacity(p) == Len(Members[calls[p].target])

Room(p) == IsPanelCall(p) =>
    Cardinality({i \in Panel(Parent(p)) : calls[Leg(Parent(p), i)].at = "returned"}) < Capacity(Parent(p))

\* Broken variant of Released: only a judge's end gives the slot back.
ReleasedAtEnd(p) == IF Holds(p) /\ calls[p].at = "last" THEN slots - 1 ELSE slots

\* The deferred release, whatever the handler returns from.
Released(p) == IF Holds(p) THEN slots - 1 ELSE slots

Ended(call, result) == [target |-> call.target, at |-> "returned", result |-> result, leg |-> 0, oks |-> 0,
                        texts |-> {}, written |-> call.written]

\* The handler returns, and gives its slot back.  A panel call also sends itself
\* to the collector, which may be gone.
Return(p, result, writers) ==
    /\ Room(p)
    /\ LET awaited == ~Cancelled(p) IN
       calls' = Marked([calls EXCEPT ![p] = Ended(calls[p], IF awaited THEN result ELSE "nothing")], writers)
    /\ slots' = Released(p)
    /\ UNCHANGED gone

\* An error is written.  Only a walk tells one failure from another, and only a
\* panel an answer too large for it.
Fail(p) == \E failure \in IF IsMember(Writer(p)) THEN Failures ELSE {"failed"} : Return(p, failure, PassedBy(p, FALSE))

At(p, where) == p \in DOMAIN calls /\ calls[p].at = where

-----------------------------------------------------------------------------
(* What the ordinary handler serves *)

Answer(p) ==
    /\ At(p, "serving")
    /\ calls' = Marked([calls EXCEPT ![p].at = "streaming"], PassedBy(p, TRUE))
    /\ UNCHANGED <<slots, gone>>

FinishAnswer(p) ==
    /\ At(p, "streaming")
    /\ \E success \in IF IsPanelCall(Sink(p)) THEN Successes ELSE {"text", "blank"} : Return(p, success, {})

AnswerFails(p) == At(p, "serving") /\ Fail(p)

\* A call whose context has ended ends, whatever the provider does.
Abort(p) ==
    /\ \/ At(p, "serving")
       \/ At(p, "streaming")
    /\ Cancelled(p)
    /\ Return(p, "nothing", {})

-----------------------------------------------------------------------------
(* fused, serveFusion *)

Begin(c) ==
    /\ <<c>> \notin DOMAIN calls
    /\ \E target \in Asks[c] : calls' = Begun(calls, <<c>>, target)
    /\ UNCHANGED <<slots, gone>>

TooDeep(p) == Len(p) - 1 >= MaxComboDepth
Width(p) == Len(Members[calls[p].target])

\* Unauthorized, unreadable, not permitted, nested too deeply, a panel too wide, no
\* slot, a body or a configuration that cannot be used, nothing planned.
Refuse(p) == At(p, "enter") /\ Fail(p)

OnlyMember(p) ==
    /\ At(p, "enter") /\ calls[p].target \in Fusions /\ Width(p) = 1 /\ ~TooDeep(p)
    /\ calls' = Begun([calls EXCEPT ![p].at = "last"], Leg(p, 0), Members[calls[p].target][1])
    /\ UNCHANGED <<slots, gone>>

StartPanel(p) ==
    LET members == Members[calls[p].target] IN
    /\ At(p, "enter") /\ calls[p].target \in Fusions /\ Width(p) \in 2 .. MaxPanels /\ ~TooDeep(p)
    /\ slots < MaxConcurrent
    /\ slots' = slots + 1
    /\ calls' = Beside([calls EXCEPT ![p].at = "panel"],
                       [q \in {Leg(p, i) : i \in DOMAIN members} |-> NewCall(members[q[Len(q)]])])
    /\ UNCHANGED gone

\* collectPanel hears the answers one at a time.
Hear(p) ==
    /\ At(p, "panel")
    /\ \E i \in Panel(p) :
        LET q == Leg(p, i)
            result == calls[q].result
        IN
        /\ calls[q].at = "returned"
        /\ calls' = [calls EXCEPT
            ![q].at = "heard", ![q].result = "nothing",
            ![p].oks = IF Ok(result) THEN calls[p].oks + 1 ELSE calls[p].oks,
            ![p].texts = IF result = "text" THEN calls[p].texts \cup {i} ELSE calls[p].texts]
    /\ UNCHANGED <<slots, gone>>

AllHeard(p) == \A i \in Panel(p) : calls[Leg(p, i)].at = "heard"

\* What is asked last, of whom: the only model that answered, or the judge.
LastTarget(p) ==
    LET members == Members[calls[p].target]
        texts == calls[p].texts
    IN IF Cardinality(texts) = 1 THEN members[CHOOSE i \in texts : TRUE] ELSE Judge[calls[p].target]

\* The collection is over, the calls still running are cancelled.
Collected(p) ==
    IF calls[p].texts = {} THEN Fail(p)
    ELSE \/ /\ calls' = Begun([calls EXCEPT ![p].at = "last", ![p].texts = {}, ![p].oks = 0], Leg(p, 0), LastTarget(p))
            /\ UNCHANGED <<slots, gone>>
         \/ Cardinality(calls[p].texts) > 1 /\ Fail(p)

AllAnswered(p) == At(p, "panel") /\ AllHeard(p) /\ Collected(p)
GraceOver(p) == At(p, "panel") /\ calls[p].oks >= MinPanelQuorum /\ Collected(p)

\* The hard timeout, at any time, or the end of the context.
Stopped(p) == At(p, "panel") /\ Collected(p)

\* Its answer was the call's own; what it wrote is written.
LastReturned(p) ==
    /\ At(p, "last") /\ At(Leg(p, 0), "returned")
    /\ Return(p, calls[Leg(p, 0)].result, {})

-----------------------------------------------------------------------------
(* walkCombo *)

StartMember(p, i) ==
    /\ calls' = Begun([calls EXCEPT ![p].at = "member", ![p].leg = i], Leg(p, i), Members[calls[p].target][i])
    /\ UNCHANGED <<slots, gone>>

StartWalk(p) == At(p, "enter") /\ calls[p].target \in Walks /\ ~TooDeep(p) /\ StartMember(p, 1)

\* Broken variant of Committed: a stream that broke off is a failure to fall past.
CommittedWhole(result) == result \in {"text", "large"}

\* probe.committed: the client has the status already.
Committed(result) == result \in Successes

MemberReturned(p) ==
    LET result == calls[Leg(p, calls[p].leg)].result IN
    /\ At(p, "member") /\ At(Leg(p, calls[p].leg), "returned")
    /\ IF Cancelled(p) THEN Return(p, "nothing", {})
       ELSE IF Committed(result) THEN Return(p, result, {})
       ELSE IF result = "refused" THEN Return(p, result, PassedBy(p, FALSE))
       ELSE IF calls[p].leg = Width(p) THEN Fail(p)
       ELSE calls' = [calls EXCEPT ![p].at = "pause"] /\ UNCHANGED <<slots, gone>>

\* trace.wait ends, or is ended by the context.
NextMember(p) ==
    /\ At(p, "pause")
    /\ IF Cancelled(p) THEN Return(p, "nothing", {}) ELSE StartMember(p, calls[p].leg + 1)

-----------------------------------------------------------------------------

Leave(c) ==
    /\ c \notin gone /\ <<c>> \in DOMAIN calls /\ ~At(<<c>>, "returned")
    /\ gone' = gone \cup {c}
    /\ UNCHANGED <<calls, slots>>

Provider(p) == Answer(p) \/ FinishAnswer(p) \/ AnswerFails(p)

Handler(p) ==
    \/ Abort(p) \/ Refuse(p) \/ OnlyMember(p) \/ StartPanel(p) \/ Hear(p)
    \/ AllAnswered(p) \/ GraceOver(p) \/ Stopped(p) \/ LastReturned(p)
    \/ StartWalk(p) \/ MemberReturned(p) \/ NextMember(p)

Next ==
    \/ \E c \in Clients : Begin(c) \/ Leave(c)
    \/ \E p \in DOMAIN calls : Provider(p) \/ Handler(p)

Spec == Init /\ [][Next]_vars

\* The gateway's own steps are taken; a provider need never answer.
FairSpec == Spec /\ WF_vars(\E p \in DOMAIN calls : Handler(p))

-----------------------------------------------------------------------------
(* Properties *)

\* A slot is taken exactly while a Fusion's panel or judge runs, nested ones too.
SlotsHeld == slots <= MaxConcurrent /\ slots = Cardinality({p \in DOMAIN calls : Holds(p)})

\* Whoever reads an answer is sent one at most: neither a member fallen past, nor
\* a panel call, nor a second leg writes where another has begun to.
AnsweredOnce == \A p \in DOMAIN calls : calls[p].written <= 1

\* No work without a reader: a call that runs is awaited by its parent, or its
\* context has ended.
Running(p) == calls[p].at \notin {"returned", "heard"}
RunsForSomebody == \A p \in DOMAIN calls : Running(p) /\ Len(p) > 1 /\ ~Cancelled(p) =>
    LET parent == calls[Parent(p)] IN
    \/ parent.at = "panel" /\ IsPanelCall(p)
    \/ parent.at = "last" /\ p[Len(p)] = 0
    \/ parent.at = "member" /\ p[Len(p)] = parent.leg

\* No panel is collected for ever though no provider answers, and a call whose
\* context has ended ends, and with it what it holds.
PanelsEnd == <>[](\A p \in DOMAIN calls : Running(p) => calls[p].at # "panel" /\ ~Cancelled(p))
=============================================================================
