-------------------------------- MODULE KiroLegs --------------------------------
(***************************************************************************)
(* internal/protocol/kiro: the response legs from Kiro's EventStream to    *)
(* Chat and to Messages, behind the integrity gate.  The gate reads an     *)
(* answer to its end before a client sees any of it and has an unusable    *)
(* one repeated once.  It reads through the same machine as the leg that   *)
(* then converts the bytes it held, so one pass stands for both here.      *)
(***************************************************************************)
EXTENDS WireLegs

Machine0 == [tools |-> <<>>, used |-> FALSE, stop |-> "", explicit |-> FALSE, delivered |-> FALSE,
             rejected |-> FALSE, u |-> 0, out |-> <<>>]

DeliverText(m, k, p) == [Emit(m, Piece("text", 0, k, p)) EXCEPT !.delivered = TRUE]

-----------------------------------------------------------------------------
(* Stop reasons *)

Failing == {"retryable", "incomplete", "refusal", "unknown"}
\* Usable as far as it got, then the budget ran out.
Truncations == {"max_tokens", "model_context_window_exceeded"}

Disposition(reason, tools) ==
    CASE reason \in {"malformed_model_output", "invalid_model_output"} -> "retryable"
      [] reason \in {"cancelled", "pause_turn", "model_context_window_exceeded"} -> "incomplete"
      [] reason = "refusal" -> "refusal"
      [] reason = "max_tokens" -> IF tools THEN "incomplete" ELSE "length"
      [] reason \in {"", "end_turn", "tool_use"} -> IF tools \/ reason = "tool_use" THEN "tool_use" ELSE "complete"
      [] OTHER -> "unknown"

Severity(reason) ==
    LET order == <<"length", "retryable", "unknown", "incomplete", "refusal">>
        is == Disposition(reason, FALSE)
    IN IF Contains(order, is) THEN 1 + CHOOSE n \in DOMAIN order : order[n] = is ELSE 1

\* Broken variant of Stop: the latest reason stands.
StopLatest(m, reason) == IF reason = "" THEN m ELSE [m EXCEPT !.stop = reason]

\* A later, milder reason does not hide a failure.
Stop(m, reason) ==
    IF reason # "" /\ (\/ m.stop = "" \/ Severity(reason) > Severity(m.stop)
                       \/ reason = "tool_use" /\ m.stop = "end_turn")
    THEN [m EXCEPT !.stop = reason] ELSE m

-----------------------------------------------------------------------------
(* Tools: their fragments are held until the answer is over *)

\* A fragment of the other kind is rejected; of an object the last is kept.  "bad" is a
\* string that makes the input no JSON object, "none" a fragment without input, and
\* "nameless" one rejected for its name, its id or its shape.
Fragment(m, e) ==
    LET known == IF Known(m.tools, e.i) THEN m.tools
                 ELSE Append(m.tools, [i |-> e.i, kind |-> "", p |-> <<>>, bad |-> FALSE])
        n == CHOOSE n \in DOMAIN known : known[n].i = e.i
        kind == IF e.k = "bad" THEN "string" ELSE e.k
    IN CASE e.k = "nameless" -> [m EXCEPT !.used = TRUE, !.rejected = TRUE]
         [] e.k = "none" -> [m EXCEPT !.used = TRUE, !.tools = known]
         [] e.k \notin {"nameless", "none"} /\ known[n].kind \notin {"", kind} ->
               [m EXCEPT !.used = TRUE, !.tools = known, !.rejected = TRUE]
         [] OTHER -> [m EXCEPT !.used = TRUE,
                        !.tools = [known EXCEPT ![n].kind = kind, ![n].bad = @ \/ e.k = "bad",
                                     ![n].p = IF kind = "object" THEN e.p ELSE @ \o e.p]]

Usable(tool) == tool.kind # "" /\ ~tool.bad
AnyUsable(m) == \E n \in DOMAIN m.tools : Usable(m.tools[n])

\* The two chunks of each usable call; those calls are numbered among themselves.
ToolChunks(tools, n) ==
    LET index == Cardinality({k \in 1 .. n - 1 : Usable(tools[k])})
    IN IF ~Usable(tools[n]) THEN <<>>
       ELSE <<Piece("call", index, "function", <<>>), Piece("call", index, "", OrNothing(tools[n].p))>>
CallChunks(m) == FlattenSeq([n \in DOMAIN m.tools |-> ToolChunks(m.tools, n)])

-----------------------------------------------------------------------------
(* The machine *)

\* A stop event without a reason has one; metadata without a reason is none.
Handle(m, e) ==
    CASE e.t = "text" /\ e.k = "code" ->
            IF e.p = <<>> THEN [m EXCEPT !.delivered = TRUE] ELSE DeliverText(m, "text", e.p)
      [] e.t = "text" /\ e.k # "code" -> IF e.p = <<>> THEN m ELSE DeliverText(m, e.k, e.p)
      [] e.t = "tool" -> Fragment(m, e)
      [] e.t = "messageStop" ->
            [Stop(m, IF e.k # "" THEN e.k ELSE IF m.used THEN "tool_use" ELSE "end_turn") EXCEPT !.explicit = TRUE]
      [] e.t = "metadata" -> [Stop(m, e.k) EXCEPT !.explicit = @ \/ e.k # ""]
      [] e.t = "metrics" -> Counted(m, e)

\* How an answer whose body ended between two frames is judged: a finish reason, or why
\* it is none.  The stop reason goes before the calls.
Judged(m) ==
    LET calls == AnyUsable(m)
        declared == Disposition(m.stop, m.used)
        final == Disposition(m.stop, calls)
        truncated == final = "incomplete" /\ m.stop \in Truncations /\ (m.out # <<>> \/ calls)
        unusable == m.stop = "tool_use" \/ m.rejected \/ m.tools # <<>>
    IN IF declared \in Failing /\ ~(m.stop \in Truncations /\ m.out # <<>>) THEN declared
       ELSE IF ~calls /\ ~m.delivered /\ unusable THEN "invalid tool"
       ELSE IF ~calls /\ ~m.delivered /\ ~m.explicit THEN "missing"
       ELSE IF final \in Failing /\ ~truncated THEN final
       ELSE IF truncated THEN "length"
       ELSE IF calls THEN "tool_calls"
       ELSE IF final = "length" THEN "length" ELSE "stop"

-----------------------------------------------------------------------------
(* The gate *)

Gate0 == [m |-> Machine0, attempt |-> 1, asks |-> FALSE, out |-> <<>>, end |-> ""]

Finishes == {"stop", "length", "tool_calls"}
\* What the answer is asked for once more.
Repeated == {"retryable", "invalid tool", "missing", "vain"}

\* Broken variant of Repeat: the second answer is added to what the first gave.
RepeatAdding(s) == [s EXCEPT !.asks = TRUE, !.attempt = 2]

\* The bytes of the first answer are dropped.
Repeat(s) == [s EXCEPT !.asks = TRUE, !.attempt = 2, !.m = Machine0]

\* A body that broke, or fell silent for too long, is missing its end.  A text without calls
\* that is an ellipsis or only announces what it will do is "vain".
GateVerdict(m, e) ==
    CASE e.t = "broken" -> "missing"
      [] e.t = "eof" /\ e.k = "vain" /\ Judged(m) \in Finishes /\ ~AnyUsable(m) -> "vain"
      [] OTHER -> Judged(m)

\* Gate, and the leg that converts what it released or reports its failure.  An error event,
\* a bound exceeded and a repair that was not answered fail it at once.
Gated(s, e, released, failed) ==
    CASE e.t \in {"text", "tool", "messageStop", "metadata", "metrics"} -> [s EXCEPT !.m = Handle(@, e)]
      [] e.t \in {"eof", "broken"} /\ GateVerdict(s.m, e) \in Finishes -> released
      [] e.t \in {"eof", "broken"} /\ GateVerdict(s.m, e) \in Repeated /\ s.attempt = 1 -> Repeat(s)
      [] OTHER -> failed

-----------------------------------------------------------------------------
(* KiroStreamToChat *)

ReleaseChat(s, reason) ==
    Finished([s EXCEPT !.out = <<Plain("role")>> \o s.m.out \o CallChunks(s.m)], reason, s.m.u)

KiroToChat(s, e) == Gated(s, e, ReleaseChat(s, GateVerdict(s.m, e)), FailChat(s, "failed"))

-----------------------------------------------------------------------------
(* KiroStreamToMessages: runs of one kind are one block *)

StopRun(b) == IF b.kind = "" THEN b ELSE [Emit(b, Piece("content_block_stop", b.index, "", <<>>)) EXCEPT !.kind = ""]

OpenRun(b, k) ==
    [Emit(b, Piece("content_block_start", b.next, k, <<>>)) EXCEPT !.index = b.next, !.next = @ + 1]

\* A block of a call is closed with its arguments; it is not a run.
Accept(b, d) ==
    LET run == IF d.t # "text" \/ b.kind = d.k THEN b ELSE [OpenRun(StopRun(b), d.k) EXCEPT !.kind = d.k]
    IN CASE d.t = "text" -> Emit(run, Piece("content_block_delta", run.index, d.k, d.p))
         [] d.t = "call" /\ d.k # "" -> OpenRun(StopRun(b), d.k)
         [] OTHER -> Emit(Emit(b, Piece("content_block_delta", b.index, "function", d.p)),
                          Piece("content_block_stop", b.index, "", <<>>))

MessageStopReason(finish) ==
    CASE finish = "tool_calls" -> "tool_use" [] finish = "length" -> "max_tokens" [] OTHER -> "end_turn"

\* An answer with no content is one empty text block.
ReleaseMessages(s, reason) ==
    LET blocks == [kind |-> "", index |-> 0, next |-> 1, out |-> <<Plain("message_start")>>]
        all == StopRun(FoldLeft(Accept, blocks, s.m.out \o CallChunks(s.m)))
        empty == <<Piece("content_block_start", 1, "text", <<>>), Piece("content_block_stop", 1, "", <<>>)>>
        shown == all.out \o IF all.next > 1 THEN <<>> ELSE empty
    IN Over([s EXCEPT !.out = shown \o <<Final("message_delta", MessageStopReason(reason), s.m.u),
                                         Plain("message_stop")>>], "ok")

KiroToMessages(s, e) == Gated(s, e, ReleaseMessages(s, GateVerdict(s.m, e)), FailMessages(s, "failed"))
=============================================================================
