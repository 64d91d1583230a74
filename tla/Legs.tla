---------------------------------- MODULE Legs ----------------------------------
(***************************************************************************)
(* internal/protocol: the response legs that turn one streaming protocol   *)
(* into another while the provider is still answering: Chat to Messages    *)
(* and back (anthropic), Chat to Responses and back (openai).  A leg is a  *)
(* step function: a state and an event give the next state, with the       *)
(* events still to be written in "out" and, once the leg is over, how it   *)
(* ended in "end".  A text is the sequence of the pieces it came in.       *)
(***************************************************************************)
EXTENDS Naturals, Sequences, SequencesExt

\* An event of any of the three protocols: its type, the block, item or call it is
\* about, a kind, name or reason, the pieces it carries, the usage it reports (0 for
\* none), and the output that ends a Responses stream.
Plain(t) == [t |-> t, i |-> 0, k |-> "", p |-> <<>>, u |-> 0, output |-> <<>>]
Piece(t, i, k, p) == [Plain(t) EXCEPT !.i = i, !.k = k, !.p = p]
Final(t, k, u) == [Plain(t) EXCEPT !.k = k, !.u = u]

TextKinds == {"think", "text", "refusal"}
\* A call is of a function, or of a custom tool, which Chat and Messages carry as a
\* function of its name.
CallKinds == {"function", "custom"}

\* The arguments of a call that was given none: "{}".
NoArguments == <<0>>

Emit(s, e) == [s EXCEPT !.out = Append(@, e)]
Over(s, how) == [s EXCEPT !.end = how]
Counted(s, e) == IF e.u = 0 THEN s ELSE [s EXCEPT !.u = e.u]

\* The calls of a leg are kept in the order they came.
Known(calls, i) == \E n \in DOMAIN calls : calls[n].i = i
CallAt(calls, i) == CHOOSE n \in DOMAIN calls : calls[n].i = i

-----------------------------------------------------------------------------
(* Finish reasons *)

\* A reason of "tool_calls" with no call behind it is an error.
ResolveFinish(reason, calls) ==
    CASE reason = "" /\ calls > 0 -> "tool_calls"
      [] reason = "" /\ calls = 0 -> "stop"
      [] reason = "tool_calls" /\ calls = 0 -> "none to run"
      [] OTHER -> reason

ToOpenAIFinish(reason) ==
    CASE reason = "max_tokens" -> "length" [] reason = "tool_use" -> "tool_calls"
      [] reason = "refusal" -> "content_filter" [] OTHER -> "stop"

FromOpenAIFinish(reason) ==
    CASE reason = "length" -> "max_tokens" [] reason = "tool_calls" -> "tool_use"
      [] reason = "content_filter" -> "refusal" [] OTHER -> "end_turn"

-----------------------------------------------------------------------------
(* ChatStreamToMessages: thinking and text flow as they come, in one block at a   *)
(* time; a call's arguments are held until its block is closed.                   *)

ChatToMessages0 ==
    [started |-> FALSE, finish |-> "", seen |-> FALSE, open |-> [k \in {"think", "text"} |-> 0],
     next |-> 1, calls |-> <<>>, count |-> 0, u |-> 0, out |-> <<>>, end |-> ""]

\* failMessagesStream; what this chunk had not written yet is dropped.
FailMessages(s, how) == Over([s EXCEPT !.out = <<Plain("error")>>], how)

Started(s) == IF s.started THEN s ELSE [Emit(s, Plain("message_start")) EXCEPT !.started = TRUE]

StopBlock(s, k) ==
    IF s.open[k] = 0 THEN s
    ELSE [Emit(s, Piece("content_block_stop", s.open[k], "", <<>>)) EXCEPT !.open[k] = 0]

StartBlock(s, k) == [Emit(s, Piece("content_block_start", s.next, k, <<>>)) EXCEPT !.next = @ + 1]

AddText(s, k, p) ==
    LET stopped == StopBlock(s, IF k = "think" THEN "text" ELSE "think")
        opened == IF stopped.open[k] # 0 THEN stopped
                  ELSE [StartBlock(stopped, k) EXCEPT !.open[k] = stopped.next]
    IN Emit(opened, Piece("content_block_delta", opened.open[k], k, p))

\* Broken variant of StartCall: a repeated id opens another block.
StartCallAgain(s, e) ==
    IF e.k = "" THEN s
    ELSE LET stopped == StopBlock(StopBlock(s, "think"), "text")
         IN [StartBlock(stopped, e.k) EXCEPT !.count = @ + 1,
               !.calls = Append(@, [i |-> e.i, k |-> e.k, block |-> stopped.next, p |-> <<>>])]

\* The block opens once per index, though the id may come again with each piece.
StartCall(s, e) ==
    IF e.k = "" \/ Known(s.calls, e.i) THEN s
    ELSE LET stopped == StopBlock(StopBlock(s, "think"), "text")
         IN [StartBlock(stopped, e.k) EXCEPT !.count = @ + 1,
               !.calls = Append(@, [i |-> e.i, k |-> e.k, block |-> stopped.next, p |-> <<>>])]

AddCall(s, e) ==
    LET opened == StartCall(s, e)
    IN CASE e.p = <<>> -> opened
         [] e.p # <<>> /\ ~Known(opened.calls, e.i) -> FailMessages(s, "failed")
         [] OTHER -> [opened EXCEPT !.calls[CallAt(opened.calls, e.i)].p = @ \o e.p]

CloseCall(s, call) ==
    LET flushed == IF call.p = <<>> THEN s
                   ELSE Emit(s, Piece("content_block_delta", call.block, call.k, call.p))
    IN Emit(flushed, Piece("content_block_stop", call.block, "", <<>>))

CloseBlocks(s) ==
    [FoldLeft(CloseCall, StopBlock(StopBlock(s, "think"), "text"), s.calls) EXCEPT !.calls = <<>>]

CloseMessage(s) ==
    LET reason == ResolveFinish(s.finish, s.count)
        closed == IF s.seen THEN s ELSE CloseBlocks(s)
    IN IF reason = "none to run" THEN FailMessages(s, "failed")
       ELSE Over(Emit(Emit(closed, Final("message_delta", FromOpenAIFinish(reason), s.u)),
                       Plain("message_stop")), "ok")

\* Broken variant of ChatToMessages: any clean end of the body completes the answer.
ChatToMessagesTrusting(s, e) ==
    CASE e.t \in {"[DONE]", "eof"} -> IF s.started THEN CloseMessage(s) ELSE FailMessages(s, "cut")
      [] e.t = "broken" -> FailMessages(s, "failed")
      [] e.t = "error" -> FailMessages(s, "failed")
      [] e.t = "usage" -> Counted(s, e)
      [] e.t = "role" -> Started(s)
      [] e.t = "text" -> IF e.p = <<>> \/ e.k = "refusal" THEN Started(s) ELSE AddText(Started(s), e.k, e.p)
      [] e.t = "call" -> AddCall(Started(s), e)
      [] e.t = "finish" -> [CloseBlocks(Started(Counted(s, e))) EXCEPT !.finish = e.k, !.seen = TRUE]

\* A body that ends without [DONE] is complete if a finish reason came.
ChatToMessages(s, e) ==
    CASE e.t = "[DONE]" -> IF s.started THEN CloseMessage(s) ELSE FailMessages(s, "cut")
      [] e.t = "eof" -> IF s.seen THEN CloseMessage(s) ELSE FailMessages(s, "cut")
      [] e.t = "broken" -> FailMessages(s, "failed")
      [] e.t = "error" -> FailMessages(s, "failed")
      [] e.t = "usage" -> Counted(s, e)
      [] e.t = "role" -> Started(s)
      [] e.t = "text" -> IF e.p = <<>> \/ e.k = "refusal" THEN Started(s) ELSE AddText(Started(s), e.k, e.p)
      [] e.t = "call" -> AddCall(Started(s), e)
      [] e.t = "finish" -> [CloseBlocks(Started(Counted(s, e))) EXCEPT !.finish = e.k, !.seen = TRUE]

-----------------------------------------------------------------------------
(* MessagesStreamToChat *)

MessagesToChat0 ==
    [server |-> 0, calls |-> <<>>, sentFinish |-> FALSE, u |-> 0, out |-> <<>>, end |-> ""]

\* failChatStream and streamFailure: an error object and the terminal marker.
FailChat(s, how) == Over(Emit(Emit(s, Plain("error")), Plain("[DONE]")), how)

OpenBlock(s, e) ==
    CASE e.k = "server" -> [s EXCEPT !.server = e.i]
      [] e.k \in CallKinds -> [Emit(s, Piece("call", Len(s.calls), e.k, <<>>))
                                 EXCEPT !.calls = Append(@, [i |-> e.i, given |-> FALSE])]
      [] OTHER -> s

\* What a call is given is written under the call's own index.
GiveCall(s, i, p) ==
    LET n == CallAt(s.calls, i) IN [Emit(s, Piece("call", n - 1, "", p)) EXCEPT !.calls[n].given = TRUE]

BlockDelta(s, e) ==
    CASE e.i = s.server -> s
      [] e.i # s.server /\ e.k \in TextKinds -> Emit(s, Piece("text", 0, e.k, e.p))
      [] OTHER -> IF Known(s.calls, e.i) THEN GiveCall(s, e.i, e.p) ELSE s

\* A call that was given nothing still gets valid JSON.
BlockStop(s, e) ==
    CASE e.i = s.server -> [s EXCEPT !.server = 0]
      [] e.i # s.server /\ Known(s.calls, e.i) ->
            IF s.calls[CallAt(s.calls, e.i)].given THEN s ELSE GiveCall(s, e.i, NoArguments)
      [] OTHER -> s

\* A refusal carries Anthropic's explanation as text.
MessageDelta(s, e) ==
    LET finish == ResolveFinish(ToOpenAIFinish(e.k), Len(s.calls))
        noted == IF e.k = "refusal" /\ e.p # <<>> THEN Emit(s, Piece("text", 0, "text", e.p)) ELSE s
    IN CASE e.k = "" -> s
         [] e.k # "" /\ finish = "none to run" -> FailChat(s, "failed")
         [] OTHER -> [Emit(noted, Final("finish", finish, s.u)) EXCEPT !.sentFinish = TRUE]

MessageStop(s) ==
    LET told == IF s.sentFinish THEN s ELSE Emit(s, Final("finish", ResolveFinish("", Len(s.calls)), s.u))
    IN Over(Emit(told, Plain("[DONE]")), "ok")

MessagesToChat(s, e) ==
    CASE e.t = "message_start" -> Emit(Counted(s, e), Plain("role"))
      [] e.t = "content_block_start" -> OpenBlock(s, e)
      [] e.t = "content_block_delta" -> BlockDelta(s, e)
      [] e.t = "content_block_stop" -> BlockStop(s, e)
      [] e.t = "message_delta" -> MessageDelta(Counted(s, e), e)
      [] e.t = "message_stop" -> MessageStop(s)
      [] e.t \in {"error", "broken"} -> FailChat(s, "failed")
      [] e.t = "eof" -> FailChat(s, "cut")

-----------------------------------------------------------------------------
(* ChatStreamToResponses: an output item for each text and each call, closed when *)
(* the stream is done.                                                            *)

ChatToResponses0 == [started |-> FALSE, finish |-> "", items |-> <<>>, u |-> 0, out |-> <<>>, end |-> ""]

FailResponses(s, how) == Over(Emit(s, Plain("response.failed")), how)

Created(s) == IF s.started THEN s ELSE [Emit(s, Plain("response.created")) EXCEPT !.started = TRUE]

\* An item of the answer: the text of a kind, or the call of an index.
Item(s, key) == CHOOSE n \in DOMAIN s.items : s.items[n].key = key

Ensure(s, key, kind) ==
    IF \E n \in DOMAIN s.items : s.items[n].key = key THEN s
    ELSE [s EXCEPT !.items = Append(@, [key |-> key, kind |-> kind, ids |-> 0, named |-> FALSE,
                                        p |-> <<>>, announced |-> FALSE, sent |-> 0])]

AnnounceItem(s, n) ==
    IF s.items[n].announced THEN s
    ELSE [Emit(s, Piece("response.output_item.added", n, s.items[n].kind, <<>>)) EXCEPT !.items[n].announced = TRUE]

ItemText(s, e) ==
    LET key == <<e.k, 0>>
        ensured == Ensure(s, key, e.k)
        n == Item(ensured, key)
    IN IF e.p = <<>> THEN s
       ELSE [Emit(AnnounceItem(ensured, n), Piece("delta", n, e.k, e.p)) EXCEPT !.items[n].p = @ \o e.p]

\* The id and the name that come with a piece are added to what the item has.
WithCall(s, n, e) ==
    [s EXCEPT !.items[n].ids = IF e.k = "" THEN @ ELSE @ + 1,
              !.items[n].named = @ \/ e.k \in CallKinds,
              !.items[n].kind = IF e.k = "custom" THEN e.k ELSE @,
              !.items[n].p = @ \o e.p]

\* Broken variant of Unsent: everything collected is sent again.
UnsentAll(item) == item.p

\* What was collected of a call's arguments since the last delta.
Unsent(item) == SubSeq(item.p, item.sent + 1, Len(item.p))

\* A function's arguments flow once it has an id, a name and a first argument; a custom
\* tool's input is held until the stream is done.
ItemCall(s, e) ==
    LET key == <<"call", e.i>>
        ensured == Ensure(s, key, "function")
        n == Item(ensured, key)
        given == WithCall(ensured, n, e)
        item == given.items[n]
        shown == IF item.named /\ item.ids > 0 /\ e.p # <<>> THEN AnnounceItem(given, n) ELSE given
    IN IF item.kind = "function" /\ shown.items[n].announced /\ Len(item.p) > item.sent
       THEN [Emit(shown, Piece("delta", n, "function", Unsent(item))) EXCEPT !.items[n].sent = Len(item.p)]
       ELSE shown

CloseItem(s, n) ==
    LET item == s.items[n]
        value == IF item.kind = "function" /\ item.p = <<>> THEN NoArguments ELSE item.p
        shown == AnnounceItem(s, n)
        input == IF item.kind = "custom" THEN Emit(shown, Piece("delta", n, "custom", value)) ELSE shown
    IN CASE s.end # "" -> s
         [] s.end = "" /\ item.kind \in CallKinds /\ (~item.named \/ item.ids = 0) -> FailResponses(s, "failed")
         [] OTHER -> [Emit(input, Piece("response.output_item.done", n, item.kind, value)) EXCEPT !.items[n].p = value]

CompleteResponse(s) ==
    LET closed == FoldLeft(CloseItem, s, [n \in DOMAIN s.items |-> n])
        t == IF s.finish \in {"length", "content_filter"} THEN "response.incomplete" ELSE "response.completed"
        output == [n \in DOMAIN s.items |-> [i |-> n, k |-> closed.items[n].kind, p |-> closed.items[n].p]]
    IN IF closed.end # "" THEN closed
       ELSE Over(Emit(closed, [Final(t, s.finish, s.u) EXCEPT !.output = output]), "ok")

ChatToResponses(s, e) ==
    CASE e.t = "[DONE]" -> IF s.started /\ s.finish # "" THEN CompleteResponse(s) ELSE FailResponses(s, "cut")
      [] e.t = "eof" -> FailResponses(s, "cut")
      [] e.t \in {"error", "broken"} -> FailResponses(s, "failed")
      [] e.t = "usage" -> Counted(s, e)
      [] e.t = "role" -> Created(s)
      [] e.t = "text" -> ItemText(Created(s), e)
      [] e.t = "call" -> ItemCall(Created(s), e)
      [] e.t = "finish" -> [Created(Counted(s, e)) EXCEPT !.finish = e.k]

-----------------------------------------------------------------------------
(* ResponsesStreamToChat: what an item holds may be told by its deltas, when it is *)
(* done and once more at the end of the stream, and is passed on once.             *)

ResponsesToChat0 == [started |-> FALSE, calls |-> <<>>, seen |-> {}, out |-> <<>>, end |-> ""]

WithRole(s) == IF s.started THEN s ELSE [Emit(s, Plain("role")) EXCEPT !.started = TRUE]

ShowCall(s, it) ==
    IF Known(s.calls, it.i) THEN s
    ELSE [Emit(s, Piece("call", Len(s.calls), it.k, <<>>))
            EXCEPT !.calls = Append(@, [i |-> it.i, k |-> it.k, input |-> <<>>, given |-> FALSE])]

\* A custom tool's input is the one of the finished item, or else what its deltas held.
Arguments(call, it) == IF call.k = "custom" /\ it.p = <<>> THEN call.input ELSE it.p

\* Broken variant of DoneCall: the arguments of a finished item are always passed on.
DoneCallAgain(s, it) ==
    LET n == CallAt(s.calls, it.i)
    IN [Emit(s, Piece("call", n - 1, "", Arguments(s.calls[n], it))) EXCEPT !.calls[n].given = TRUE]

DoneCall(s, it) ==
    LET n == CallAt(s.calls, it.i)
    IN IF s.calls[n].given THEN s
       ELSE [Emit(s, Piece("call", n - 1, "", Arguments(s.calls[n], it))) EXCEPT !.calls[n].given = TRUE]

DoneText(s, it) ==
    IF it.i \in s.seen THEN s
    ELSE [Emit(s, Piece("text", 0, it.k, it.p)) EXCEPT !.seen = @ \cup {it.i}]

\* consumeItem, of a finished item
ConsumeDone(s, it) == IF it.k \in CallKinds THEN DoneCall(ShowCall(s, it), it) ELSE DoneText(s, it)

ItemDelta(s, e) ==
    CASE e.k \in TextKinds -> [Emit(s, Piece("text", 0, e.k, e.p)) EXCEPT !.seen = @ \cup {e.i}]
      [] e.k \in CallKinds /\ ~Known(s.calls, e.i) -> FailChat(s, "failed")
      [] e.k = "function" /\ Known(s.calls, e.i) ->
            LET n == CallAt(s.calls, e.i) IN [Emit(s, Piece("call", n - 1, "", e.p)) EXCEPT !.calls[n].given = TRUE]
      [] OTHER -> [s EXCEPT !.calls[CallAt(s.calls, e.i)].input = @ \o e.p]

EndResponse(s, e) ==
    LET told == FoldLeft(ConsumeDone, s, e.output)
        finish == CASE e.k \in {"length", "content_filter"} -> e.k
                    [] e.k \notin {"length", "content_filter"} /\ told.calls # <<>> -> "tool_calls"
                    [] OTHER -> "stop"
    IN Over(Emit(Emit(told, Final("finish", finish, e.u)), Plain("[DONE]")), "ok")

ResponsesToChat(s, e) ==
    CASE e.t = "eof" -> FailChat(s, "cut")
      [] e.t = "broken" -> FailChat(s, "failed")
      [] e.t = "response.failed" -> FailChat(WithRole(s), "failed")
      [] e.t = "response.created" -> WithRole(s)
      [] e.t = "response.output_item.added" -> IF e.k \in CallKinds THEN ShowCall(WithRole(s), e) ELSE WithRole(s)
      [] e.t = "delta" -> ItemDelta(WithRole(s), e)
      [] e.t = "arguments.done" ->
            IF Known(s.calls, e.i) THEN ConsumeDone(WithRole(s), e) ELSE FailChat(WithRole(s), "failed")
      [] e.t = "response.output_item.done" -> ConsumeDone(WithRole(s), e)
      [] e.t \in {"response.completed", "response.incomplete"} -> EndResponse(WithRole(s), e)
=============================================================================
