------------------------------- MODULE Translation -------------------------------
(***************************************************************************)
(* ingress/translate.go and openai.go: a provider's stream relayed to a    *)
(* client that speaks another protocol.  Between Chat and another protocol *)
(* one leg reads the upstream body and writes to the client; between       *)
(* Messages and Responses two legs run, each in a goroutine of its own,    *)
(* joined by a pipe (chainStreams), and so between these and the wire of   *)
(* Ollama (O), Gemini (G), CommandCode (D) or Kiro (K).  The provider may  *)
(* fail, end or fall silent after any event, and the client may leave at   *)
(* any time.                                                               *)
(***************************************************************************)
EXTENDS KiroLegs

CONSTANTS Routes,    \* sequences of legs
          MaxPieces, \* deltas and items of an answer that goes through one leg
          MaxChained \* and of one that goes through two, or comes from Kiro

\* What each leg reads and writes.  Responses clients of Kiro are served through Chat,
\* Messages clients are not.
AllRoutes ==
    LET toChat == {"MC", "RC", "OC", "GC", "DC", "KC"}
    IN {<<"CM">>, <<"CR">>, <<"KM">>} \cup {<<leg>> : leg \in toChat}
       \cup {<<leg, "CM">> : leg \in toChat \ {"MC", "KC"}} \cup {<<leg, "CR">> : leg \in toChat \ {"RC"}}

ASSUME TranslationAssumption ==
    /\ Routes \subseteq AllRoutes
    /\ MaxPieces \in Nat /\ MaxChained \in Nat

VARIABLES
    route,     \* the legs this answer goes through
    said,      \* history: the blocks, items or calls the provider gave, with their pieces
    upstream,  \* where the provider's stream is
    legs,      \* the state of each leg
    client,    \* what the client made of the events it was sent
    present,   \* whether it is still there
    stopped,   \* chainStreams canceled the first leg and closed the upstream body
    result     \* what the translation returned
answerVars == <<route, said, upstream, legs, client, present, stopped, result>>

FreshLeg == [CM |-> ChatToMessages0, CR |-> ChatToResponses0, MC |-> MessagesToChat0, RC |-> ResponsesToChat0,
             OC |-> OllamaToChat0, GC |-> GeminiToChat0, DC |-> CommandToChat0, KC |-> Gate0, KM |-> Gate0]

Step(leg, s, e) ==
    CASE leg = "CM" -> ChatToMessages(s, e) [] leg = "CR" -> ChatToResponses(s, e)
      [] leg = "MC" -> MessagesToChat(s, e) [] leg = "RC" -> ResponsesToChat(s, e)
      [] leg = "OC" -> OllamaToChat(s, e) [] leg = "GC" -> GeminiToChat(s, e)
      [] leg = "DC" -> CommandToChat(s, e)
      [] leg = "KC" -> KiroToChat(s, e) [] leg = "KM" -> KiroToMessages(s, e)

Speaks == [CM |-> "chat", CR |-> "chat", MC |-> "messages", RC |-> "responses", OC |-> "ollama",
           GC |-> "gemini", DC |-> "commandcode", KC |-> "kiro", KM |-> "kiro"][route[1]]
Hears == [leg \in {"CM", "CR", "KM"} \cup {"MC", "RC", "OC", "GC", "DC", "KC"} |->
            CASE leg \in {"CM", "KM"} -> "messages" [] leg = "CR" -> "responses" [] OTHER -> "chat"][route[Len(route)]]

-----------------------------------------------------------------------------
(* The client assembles the answer from its events.  "bad" says that an event did *)
(* not fit what came before it; an answer is over where its ending says so, though *)
(* it does not fit.                                                               *)

Client0 == [started |-> FALSE, blocks |-> <<>>, reason |-> "", u |-> 0,
            failed |-> FALSE, over |-> FALSE, bad |-> FALSE]

Bad(c) == [c EXCEPT !.bad = TRUE]
Block(k, open) == [k |-> k, p |-> <<>>, open |-> open]
IsOpen(c, n) == n \in DOMAIN c.blocks /\ c.blocks[n].open

Opens(c, e) ==
    IF c.started /\ e.i = Len(c.blocks) + 1 THEN [c EXCEPT !.blocks = Append(@, Block(e.k, TRUE))] ELSE Bad(c)
Extends(c, e) ==
    IF IsOpen(c, e.i) /\ c.blocks[e.i].k = e.k THEN [c EXCEPT !.blocks[e.i].p = @ \o e.p] ELSE Bad(c)
Closes(c, e) == IF IsOpen(c, e.i) THEN [c EXCEPT !.blocks[e.i].open = FALSE] ELSE Bad(c)
Starts(c) == IF c.started THEN Bad(c) ELSE [c EXCEPT !.started = TRUE]
Fails(c) == [c EXCEPT !.failed = TRUE, !.over = TRUE]

AllClosed(c) == \A n \in DOMAIN c.blocks : ~c.blocks[n].open

ReadMessages(c, e) ==
    CASE e.t = "message_start" -> Starts(c)
      [] e.t = "content_block_start" -> Opens(c, e)
      [] e.t = "content_block_delta" -> Extends(c, e)
      [] e.t = "content_block_stop" -> Closes(c, e)
      [] e.t = "message_delta" -> IF AllClosed(c) /\ c.reason = "" THEN [c EXCEPT !.reason = e.k, !.u = e.u] ELSE Bad(c)
      [] e.t = "message_stop" -> [c EXCEPT !.over = TRUE, !.bad = @ \/ c.reason = ""]
      [] e.t = "error" -> Fails(c)

\* An item may open before those of a smaller index.
OpensItem(c, e) ==
    IF ~c.started \/ (e.i \in DOMAIN c.blocks /\ c.blocks[e.i].k # "") THEN Bad(c)
    ELSE [c EXCEPT !.blocks = [n \in 1 .. Max({e.i, Len(@)}) |->
            IF n = e.i THEN Block(e.k, TRUE) ELSE IF n <= Len(@) THEN @[n] ELSE Block("", FALSE)]]

\* A done item repeats what its deltas gave, and so does the output at the end; a call
\* that showed no arguments shows them when it is done.
ReadResponses(c, e) ==
    CASE e.t = "response.created" -> Starts(c)
      [] e.t = "response.output_item.added" -> OpensItem(c, e)
      [] e.t = "delta" -> Extends(c, e)
      [] e.t = "response.output_item.done" ->
            IF IsOpen(c, e.i) /\ c.blocks[e.i].p \in {e.p, IF e.k = "function" THEN <<>> ELSE e.p}
            THEN [Closes(c, e) EXCEPT !.blocks[e.i].p = e.p] ELSE Bad(c)
      [] e.t \in {"response.completed", "response.incomplete"} ->
            LET all == [n \in DOMAIN c.blocks |-> [i |-> n, k |-> c.blocks[n].k, p |-> c.blocks[n].p]]
            IN [c EXCEPT !.reason = e.k, !.u = e.u, !.over = TRUE, !.bad = @ \/ ~AllClosed(c) \/ e.output # all]
      [] e.t = "response.failed" -> Fails(c)

\* A Chat client adds texts to the message, and arguments to the call of the index.
Nth(c, n) == CHOOSE m \in DOMAIN c.blocks :
    c.blocks[m].k \in CallKinds /\ Len(SelectSeq(SubSeq(c.blocks, 1, m), LAMBDA b : b.k \in CallKinds)) = n + 1
CallCount(c) == Len(SelectSeq(c.blocks, LAMBDA b : b.k \in CallKinds))

ReadCall(c, e) ==
    CASE e.k # "" /\ e.i = CallCount(c) -> [c EXCEPT !.blocks = Append(@, [Block(e.k, FALSE) EXCEPT !.p = e.p])]
      [] e.k = "" /\ e.i < CallCount(c) -> [c EXCEPT !.blocks[Nth(c, e.i)].p = @ \o e.p]
      [] OTHER -> Bad(c)

ReadChat(c, e) ==
    CASE e.t = "role" -> Starts(c)
      [] e.t = "text" -> IF c.reason = "" THEN [c EXCEPT !.blocks = Append(@, [Block(e.k, FALSE) EXCEPT !.p = e.p])] ELSE Bad(c)
      [] e.t = "call" -> IF c.reason = "" THEN ReadCall(c, e) ELSE Bad(c)
      [] e.t = "finish" -> IF c.reason = "" THEN [c EXCEPT !.reason = e.k, !.u = e.u] ELSE Bad(c)
      [] e.t = "error" -> [c EXCEPT !.failed = TRUE]
      [] e.t = "[DONE]" -> [c EXCEPT !.over = TRUE, !.bad = @ \/ (~c.failed /\ c.reason = "")]

\* Nothing may follow the end of an answer.
ReadNext(c, e) ==
    CASE c.over -> Bad(c)
      [] ~c.over /\ Hears = "messages" -> ReadMessages(c, e)
      [] ~c.over /\ Hears = "responses" -> ReadResponses(c, e)
      [] ~c.over /\ Hears = "chat" -> ReadChat(c, e)

Complete(c) == c.over /\ ~c.failed

\* The texts of a kind, and the calls with their arguments; a call without a usable input
\* is none.
Texts(blocks, k) == FlattenSeq([n \in DOMAIN SelectSeq(blocks, LAMBDA b : b.k = k) |-> SelectSeq(blocks, LAMBDA b : b.k = k)[n].p])
IsCall(b) == b.k \notin TextKinds \cup {"server", "none", "bad"}
Calls(blocks) ==
    LET calls == SelectSeq(blocks, IsCall)
    IN [n \in DOMAIN calls |-> <<calls[n].k, IF calls[n].p = NoArguments THEN <<>> ELSE calls[n].p>>]
-----------------------------------------------------------------------------
(* The provider *)

Upstream0 == [started |-> FALSE, reasoned |-> FALSE, finished |-> FALSE, ended |-> FALSE, pieces |-> 0, u |-> 0, stops |-> {}]

TranslationInit ==
    /\ route \in Routes /\ legs = [n \in DOMAIN route |-> FreshLeg[route[n]]]
    /\ said = <<>> /\ upstream = Upstream0
    /\ client = Client0 /\ present = TRUE /\ stopped = FALSE /\ result = ""

Working(n) == legs[n].end = "" /\ legs[n].out = <<>>   \* waits for its source
Returned(n) == legs[n].end # "" /\ legs[n].out = <<>>
LastLeg == Len(route)

\* The first leg takes an event of the provider's.  One that comes once the context is
\* over is not looked at: see ReadFails.
Reads(e) ==
    /\ Working(1) /\ present /\ ~stopped /\ ~upstream.ended
    /\ legs' = [legs EXCEPT ![1] = Step(route[1], @, e)]
    /\ UNCHANGED <<route, client, present, stopped, result>>

\* The provider gives another piece of its answer.
NewPiece == <<upstream.pieces + 1>>
Bound == IF Len(route) = 1 /\ Speaks # "kiro" THEN MaxPieces ELSE MaxChained
May == ~upstream.finished /\ ~upstream.reasoned /\ upstream.pieces < Bound
Counts == upstream' = [upstream EXCEPT !.started = TRUE, !.pieces = @ + 1]
Said(key) == {n \in DOMAIN said : said[n].key = key}
Says(k, key, p) ==
    /\ Counts
    /\ said' = IF Said(key) = {} THEN Append(said, [key |-> key, k |-> k, p |-> p, at |-> "open"])
               ELSE [n \in DOMAIN said |-> IF n \notin Said(key) THEN said[n]
                       ELSE [said[n] EXCEPT !.p = @ \o p, !.k = IF k = "" THEN @ ELSE k]]

\* Chat: a chunk carries a text, the start of a call, or arguments of a call.  What a
\* chunk carries beside is so many chunks here.  No content follows the finish reason.
ChatText(k) == May /\ Reads(Piece("text", 0, k, NewPiece)) /\ Says(k, <<k, 0>>, NewPiece)
Named(i) == \E n \in Said(<<"call", i>>) : said[n].k # ""
ChatCall(i, k, p) == May /\ ~Named(i) /\ Reads(Piece("call", i, k, p)) /\ Says(k, <<"call", i>>, p)
\* The id may be there again; arguments may come for a call that was not started.
ChatArguments(i, k) ==
    /\ May /\ (k = "id" => Named(i))
    /\ Reads(Piece("call", i, k, NewPiece)) /\ Says("", <<"call", i>>, NewPiece)
ChatFinish(r) ==
    /\ ~upstream.finished /\ Reads(Final("finish", r, 0))
    /\ upstream' = [upstream EXCEPT !.started = TRUE, !.finished = TRUE] /\ UNCHANGED said
ChatUsage ==
    /\ upstream.u < 2 /\ (upstream.u = 0 \/ upstream.finished) /\ Reads(Final("usage", "", upstream.u + 1))
    /\ upstream' = [upstream EXCEPT !.u = @ + 1] /\ UNCHANGED said
ChatDone ==
    /\ Reads(Plain("[DONE]"))
    /\ upstream' = [upstream EXCEPT !.finished = @ \/ upstream.started, !.ended = TRUE] /\ UNCHANGED said

Chat ==
    \/ \E k \in TextKinds : ChatText(k)
    \/ \E i \in {0, 1} : \/ \E p \in {<<>>, NewPiece} : ChatCall(i, IF i = 0 THEN "function" ELSE "custom", p)
                         \/ \E k \in {"", "id"} : ChatArguments(i, k)
    \/ \E r \in {"stop", "tool_calls", "length"} : ChatFinish(r)
    \/ ChatUsage \/ ChatDone

\* Messages: blocks open one after another and may be given their deltas in turn.
MessagesStart ==
    /\ ~upstream.started /\ Reads(Final("message_start", "", 1))
    /\ upstream' = [upstream EXCEPT !.started = TRUE, !.u = 1] /\ UNCHANGED said
MessagesOpen(k) ==
    LET i == Len(said) + 1
    IN May /\ upstream.started /\ Reads(Piece("content_block_start", i, k, <<>>)) /\ Says(k, i, <<>>)
\* Texts come one after another; calls may take turns.
Current(i) == said[i].k \in CallKinds \/ \A j \in DOMAIN said : said[j].k = said[i].k => j <= i
MessagesDelta(i) ==
    May /\ said[i].at = "open" /\ Current(i) /\ Reads(Piece("content_block_delta", i, said[i].k, NewPiece)) /\ Says("", i, NewPiece)
MessagesClose(i) ==
    /\ said[i].at = "open" /\ Reads(Piece("content_block_stop", i, "", <<>>))
    /\ said' = [said EXCEPT ![i].at = "done"] /\ UNCHANGED upstream
MessagesEnd(r) ==
    /\ upstream.started /\ ~upstream.reasoned /\ \A i \in DOMAIN said : said[i].at = "done"
    /\ upstream' = [upstream EXCEPT !.reasoned = TRUE, !.u = 2]
    /\ LET note == IF r = "refusal" THEN NewPiece ELSE <<>>
       IN /\ Reads([Final("message_delta", r, 2) EXCEPT !.p = note])
          /\ said' = IF r = "refusal" THEN Append(said, [key |-> Len(said) + 1, k |-> "text", p |-> note, at |-> "done"]) ELSE said
MessagesStop ==
    /\ upstream.reasoned /\ Reads(Plain("message_stop"))
    /\ upstream' = [upstream EXCEPT !.finished = TRUE, !.ended = TRUE] /\ UNCHANGED said

Messages ==
    \/ MessagesStart
    \/ \E k \in {"text", "function", "custom", "server"} : MessagesOpen(k)
    \/ \E i \in DOMAIN said : MessagesDelta(i) \/ MessagesClose(i)
    \/ \E r \in {"", "end_turn", "tool_use", "refusal"} : MessagesEnd(r)
    \/ MessagesStop

\* Responses: what an item holds may come in deltas, or whole when its arguments or the
\* item are done, or only with the output at the end; a finished item may leave out the
\* input its deltas gave.
ResponsesStart ==
    /\ ~upstream.started /\ Reads(Plain("response.created"))
    /\ upstream' = [upstream EXCEPT !.started = TRUE] /\ UNCHANGED said
ResponsesAdd(k) ==
    LET i == Len(said) + 1
    IN May /\ upstream.started /\ Reads(Piece("response.output_item.added", i, k, <<>>)) /\ Says(k, i, <<>>)
ResponsesDelta(i) ==
    May /\ said[i].at = "open" /\ Current(i) /\ Reads(Piece("delta", i, said[i].k, NewPiece)) /\ Says("", i, NewPiece)
Wholes(i) == IF said[i].at = "open" /\ said[i].p = <<>> /\ Current(i) THEN {<<>>, NewPiece} ELSE {said[i].p}
ResponsesTell(t, at, i, whole) ==
    /\ said[i].at = "open" \/ (at = "done" /\ said[i].at = "told")
    /\ \/ Reads(Piece(t, i, said[i].k, whole))
       \/ said[i].k = "custom" /\ whole = said[i].p /\ Reads(Piece(t, i, said[i].k, <<>>))
    /\ said' = [said EXCEPT ![i].at = at, ![i].p = whole]
    /\ upstream' = [upstream EXCEPT !.pieces = IF whole = NewPiece THEN @ + 1 ELSE @]
\* An item never spoken of before.
ResponsesWhole(k) ==
    LET i == Len(said) + 1
    IN /\ May /\ upstream.started /\ Counts /\ Reads(Piece("response.output_item.done", i, k, NewPiece))
       /\ said' = Append(said, [key |-> i, k |-> k, p |-> NewPiece, at |-> "done"])
ResponsesEnd(r, all) ==
    LET new == IF all /\ May THEN {<<>>, <<[key |-> Len(said) + 1, k |-> "function", p |-> NewPiece, at |-> "done"]>>}
               ELSE {<<>>}
    IN \E more \in new :
        /\ upstream.started /\ (all \/ \A i \in DOMAIN said : said[i].at = "done")
        /\ said' = said \o more
        /\ upstream' = [upstream EXCEPT !.finished = TRUE, !.ended = TRUE, !.u = 1]
        /\ LET output == [i \in DOMAIN said' |-> [i |-> i, k |-> said'[i].k, p |-> said'[i].p]]
               t == IF r = "" THEN "response.completed" ELSE "response.incomplete"
           IN Reads([Final(t, r, 1) EXCEPT !.output = IF all THEN output ELSE <<>>])

Responses ==
    \/ ResponsesStart
    \/ \E k \in {"text", "function", "custom"} : ResponsesAdd(k) \/ ResponsesWhole(k)
    \/ \E i \in DOMAIN said : ResponsesDelta(i)
    \/ \E i \in DOMAIN said : \E whole \in Wholes(i) :
          \/ said[i].k \in CallKinds /\ ResponsesTell("arguments.done", "told", i, whole)
          \/ ResponsesTell("response.output_item.done", "done", i, whole)
    \/ \E r \in {"", "length"}, all \in BOOLEAN : ResponsesEnd(r, all)

\* Ollama: texts and whole calls, until a line says that the answer is done.
WholeText(k) == May /\ Reads(Piece("text", 0, k, NewPiece)) /\ Says(k, <<k, 0>>, NewPiece)
WholeArguments(p) ==
    LET i == Len(said) + 1 IN May /\ Reads(Piece("call", i, "function", p)) /\ Says("function", <<"call", i>>, p)
OllamaDone(r, u) ==
    /\ Reads(Final("done", r, u)) /\ UNCHANGED said
    /\ upstream' = [upstream EXCEPT !.finished = TRUE, !.ended = TRUE, !.u = u]

Ollama ==
    \/ \E k \in {"think", "text"} : WholeText(k)
    \/ \E p \in {<<>>, NewPiece} : WholeArguments(p)
    \/ \E r \in {"stop", "length", "tool_calls"}, u \in {0, 1} : OllamaDone(r, u)

\* Gemini: the same, and usage any time; more may follow the reason, until the body ends.
GeminiReason(r) ==
    /\ upstream' = [upstream EXCEPT !.started = TRUE, !.finished = r # "MALFORMED_FUNCTION_CALL"] /\ UNCHANGED said
    /\ Reads(IF r = "" THEN Plain("blocked") ELSE Final("finish", r, 0))
GeminiUsage ==
    /\ upstream.u < 2 /\ Reads(Final("usage", "", upstream.u + 1))
    /\ upstream' = [upstream EXCEPT !.u = @ + 1] /\ UNCHANGED said
GeminiMore(k, p) ==
    /\ upstream.pieces < Bound
    /\ \/ k = "call" /\ Reads(Piece("call", Len(said) + 1, "function", p)) /\ Says("function", <<"call", Len(said) + 1>>, p)
       \/ k # "call" /\ p # <<>> /\ Reads(Piece("text", 0, k, p)) /\ Says(k, <<k, 0>>, p)

Gemini ==
    \/ \E k \in {"think", "text", "call"}, p \in {<<>>, NewPiece} : GeminiMore(k, p)
    \/ \E r \in {"STOP", "MAX_TOKENS", "MALFORMED_FUNCTION_CALL", ""} : GeminiReason(r)
    \/ GeminiUsage
    \/ Reads(Plain("part")) /\ upstream' = [upstream EXCEPT !.ended = TRUE] /\ UNCHANGED said

\* CommandCode: a call has two ids, of which an event carries both, the second or none; "ids"
\* are those its start told: one that a delta tells first names nothing (to_chat_response.go:118).  A
\* call told whole under none of these is the oldest of its tool that is not told yet, and
\* no call is told whole at once while one of its tool waits to be.
IdsOf(i) == {<<>>, <<<<i, "call">>, <<i, "item">>>>}
Awaited(tool) == {n \in DOMAIN said : said[n].k \in CallKinds /\ said[n].tool = tool /\ said[n].at = "open"}
CommandOpen(t, tool, ids, p) ==
    /\ May /\ (t = "tool-call" => Awaited(tool) = {})
    /\ Reads(Piece(t, ids, tool, p)) /\ Counts
    /\ said' = Append(said, [key |-> <<"call", Len(said) + 1>>, k |-> "function", p |-> p, tool |-> tool, ids |-> ToSet(ids),
                             at |-> IF t = "tool-call" THEN "done" ELSE "open"])
CommandInput(i, ids) ==
    /\ May /\ said[i].at = "open" /\ ids # <<>> /\ Reads(Piece("tool-input-delta", ids, said[i].tool, NewPiece)) /\ Counts
    /\ said' = [said EXCEPT ![i].p = @ \o NewPiece]
CommandWhole(i, ids, whole) ==
    /\ said[i].at = "open" /\ (ToSet(ids) \cap said[i].ids # {} \/ i = Min(Awaited(said[i].tool)))
    /\ Reads(Piece("tool-call", ids, said[i].tool, whole))
    /\ said' = [said EXCEPT ![i].at = "done", ![i].p = whole]
    /\ upstream' = [upstream EXCEPT !.pieces = IF whole = NewPiece THEN @ + 1 ELSE @]
CommandStep(r, u) ==
    /\ ~upstream.reasoned /\ Reads(Final("finish-step", r, u)) /\ UNCHANGED said
    /\ upstream' = [upstream EXCEPT !.reasoned = TRUE, !.u = u]
CommandFinishes(r, u) ==
    /\ Reads(Final("finish", r, u)) /\ UNCHANGED said
    /\ upstream' = [upstream EXCEPT !.finished = TRUE, !.ended = TRUE, !.u = IF u = 0 THEN @ ELSE u]

Command ==
    \/ WholeText("text")
    \/ \E tool \in IF \E n \in DOMAIN said : IsCall(said[n]) THEN {"f", "g"} ELSE {"f"}, ids \in IdsOf(Len(said) + 1) :
          \/ CommandOpen("tool-input-start", tool, ids, <<>>)
          \/ \E p \in {<<>>, NewPiece} : CommandOpen("tool-call", tool, ids, p)
    \/ \E i \in {n \in DOMAIN said : said[n].k \in CallKinds} : \E ids \in IdsOf(i) \cup {<<<<i, "item">>>>} :
          \/ CommandInput(i, ids)
          \/ \E whole \in IF said[i].p = <<>> /\ May THEN {<<>>, NewPiece} ELSE {said[i].p} : CommandWhole(i, ids, whole)
    \/ \E r \in {"", "tool-calls"} : CommandStep(r, 1) \/ CommandFinishes(r, IF r = "" THEN 0 ELSE 2)
    \/ \E p \in {<<>>, NewPiece} : Reads(Piece("unknown", 0, "", p)) /\ UNCHANGED <<said, upstream>>

\* Kiro: texts, fragments of calls, and reasons to stop in any order, of which one at most is
\* a failure; the answer is over when the body ends.  A call without an input, or with one
\* that is no JSON, is none; the last object is a call's input.
Gates == {"KC", "KM"}
Failures == {"malformed_model_output", "cancelled", "model_context_window_exceeded"}
KiroTool(i, f) ==
    LET old == Said(<<"call", i>>)
        bad == f = "bad" \/ \E n \in old : said[n].k = "bad"
        kind == CASE bad -> "bad"
                  [] ~bad /\ f = "none" -> IF old = {} THEN "none" ELSE ""
                  [] OTHER -> "function"
    IN /\ May /\ Reads(Piece("tool", i, f, IF f \in {"string", "object"} THEN NewPiece ELSE <<>>))
       /\ IF f = "object" /\ old # {}
          THEN Counts /\ said' = [n \in DOMAIN said |-> IF n \in old THEN [said[n] EXCEPT !.k = kind, !.p = NewPiece] ELSE said[n]]
          ELSE Says(kind, <<"call", i>>, IF f \in {"string", "object"} THEN NewPiece ELSE <<>>)
KiroStop(t, r) ==
    /\ Cardinality(upstream.stops) < 2 /\ r \notin upstream.stops /\ (r \in Failures => upstream.stops \cap Failures = {})
    /\ Reads(Final(t, r, 0)) /\ UNCHANGED said
    /\ upstream' = [upstream EXCEPT !.stops = @ \cup {r}]
KiroMetrics ==
    /\ upstream.u < 1 /\ Reads(Final("metrics", "", upstream.u + 1))
    /\ upstream' = [upstream EXCEPT !.u = @ + 1] /\ UNCHANGED said
KiroEnds(v) ==
    /\ v = "vain" => Texts(said, "text") # <<>> /\ \A n \in DOMAIN said : ~IsCall(said[n])
    /\ Reads(Final("eof", v, 0)) /\ UNCHANGED said
    /\ upstream' = [upstream EXCEPT !.ended = TRUE,
                      !.finished = v = "" /\ upstream.stops \cap {"malformed_model_output", "cancelled"} = {}]

Kiro ==
    \/ \E k \in {"think", "text"} : WholeText(k)
    \/ Reads(Piece("text", 0, "code", <<>>)) /\ UNCHANGED <<said, upstream>>
    \/ \E f \in {"string", "none", "bad"} : KiroTool(0, f)
    \/ \E f \in {"object", "none"} : KiroTool(1, f)
    \/ \E r \in {"", "end_turn", "tool_use"} : KiroStop("messageStop", r)
    \/ \E r \in Failures \cup {"max_tokens"} : KiroStop("metadata", r)
    \/ KiroMetrics
    \/ \E v \in {"", "vain"} : KiroEnds(v)

\* The provider reports an error, its body ends or it breaks.  The end of a body of Kiro's
\* is KiroEnds, and one of which the gate keeps too much is an error as well.
Breaks ==
    /\ \E t \in {IF Speaks = "responses" THEN "response.failed" ELSE "error", "broken"} \cup (IF Speaks = "kiro" THEN {} ELSE {"eof"}) :
          Reads(Plain(t))
    /\ upstream' = [upstream EXCEPT !.ended = TRUE] /\ UNCHANGED said

Provider ==
    \/ Speaks = "chat" /\ Chat
    \/ Speaks = "messages" /\ Messages
    \/ Speaks = "responses" /\ Responses
    \/ Speaks = "ollama" /\ Ollama
    \/ Speaks = "gemini" /\ Gemini
    \/ Speaks = "commandcode" /\ Command
    \/ Speaks = "kiro" /\ Kiro
    \/ Breaks

\* The gate's timers: a body that gives nothing for too long is one that broke.
Silent ==
    /\ route[1] \in Gates /\ Reads(Plain("broken"))
    /\ upstream' = [upstream EXCEPT !.ended = TRUE] /\ UNCHANGED said

\* The one repair request is answered with another stream, or not: there is no attempt
\* left, no host answers, or it answers with a status of failure.
RepairAnswer ==
    /\ route[1] \in Gates /\ legs[1].asks /\ legs[1].end = "" /\ present
    /\ \/ /\ legs' = [legs EXCEPT ![1].asks = FALSE]
          /\ said' = <<>> /\ upstream' = Upstream0
       \/ /\ legs' = [legs EXCEPT ![1] = Step(route[1], @, Plain("refused"))]
          /\ UNCHANGED <<said, upstream>>
    /\ UNCHANGED <<route, client, present, stopped, result>>

-----------------------------------------------------------------------------
(* The legs *)

\* How a leg whose write failed for a reason may end.  One that was telling a failure keeps
\* its cause; those of openai do if they saw that the context was over before they wrote.
Causes(n, why) ==
    CASE legs[n].end \in {"", "ok"} -> {why}
      [] legs[n].end \notin {"", "ok"} /\ route[n] \in {"CR", "RC"} -> {why, legs[n].end}
      [] OTHER -> {legs[n].end}

Unwritten(n, why) == \E end \in Causes(n, why) : legs' = [legs EXCEPT ![n].out = <<>>, ![n].end = end]

ToClient == legs[LastLeg].out # <<>>

\* What a leg has to write is written to the client and flushed event by event, in one
\* step here: a client that leaves between has seen some of it.  A write fails once the
\* context of the request is done; a leg that had failed keeps its cause.
WriteClient ==
    /\ ToClient /\ UNCHANGED <<route, said, upstream, present, stopped, result>>
    /\ IF present
       THEN legs' = [legs EXCEPT ![LastLeg].out = <<>>] /\ client' = FoldLeft(ReadNext, client, legs[LastLeg].out)
       ELSE Unwritten(LastLeg, "canceled") /\ UNCHANGED client

Chained == LastLeg = 2
Rest(s) == [s EXCEPT !.out = Tail(@)]
\* The size limit of a leg's input is reached, or not.
Limited(e) == {e, Plain("broken")}

\* The pipe holds nothing: a write ends when the second leg has read the event.
Hand ==
    /\ Chained /\ legs[1].out # <<>> /\ present /\ Working(2)
    /\ \E e \in Limited(Head(legs[1].out)) : legs' = [legs EXCEPT ![1] = Rest(@), ![2] = Step(route[2], @, e)]
    /\ UNCHANGED <<route, said, upstream, client, present, stopped, result>>

\* A write to the pipe fails: the request's context is done, or the second leg returned
\* and left its error behind.
PipeBreaks ==
    /\ Chained /\ legs[1].out # <<>> /\ (~present \/ Returned(2))
    /\ LET why == IF ~present THEN "canceled" ELSE IF legs[2].end = "ok" THEN "pipe" ELSE legs[2].end
       IN Unwritten(1, why)
    /\ UNCHANGED <<route, said, upstream, client, present, stopped, result>>

\* The first leg closes the pipe with its error: nil reads as the end of the body, and
\* so does the error of a body that ended too early.
PipeEnds ==
    /\ Chained /\ Returned(1) /\ Working(2)
    /\ LET e == Plain(IF legs[1].end \in {"ok", "cut"} THEN "eof" ELSE "broken")
       IN legs' = [legs EXCEPT ![2] = Step(route[2], @, e)]
    /\ UNCHANGED <<route, said, upstream, client, present, stopped, result>>

\* A read of the upstream body fails: the request it belongs to is canceled with the
\* client's, or chainStreams closed it.
ReadFails ==
    /\ Working(1) /\ (~present \/ stopped)
    /\ legs' = [legs EXCEPT ![1] = Over(@, IF present THEN "failed" ELSE "canceled")]
    /\ UNCHANGED <<route, said, upstream, client, present, stopped, result>>

\* Broken variant of StopFirst: the upstream body is left to the first leg.
StopFirstNot == FALSE /\ UNCHANGED answerVars

StopFirst ==
    /\ Chained /\ Returned(2) /\ ~stopped /\ stopped' = TRUE
    /\ UNCHANGED <<route, said, upstream, legs, client, present, result>>

\* The first leg's failure is the cause, unless it only echoes that the second stopped.
ChainError(second, first) ==
    LET ours == first = "pipe" \/ (first = "canceled" /\ (present \/ second # "ok"))
    IN IF first # "ok" /\ ~ours THEN first ELSE second

Returns ==
    /\ result = "" /\ \A n \in DOMAIN route : Returned(n)
    /\ Chained => stopped
    /\ result' = IF Chained THEN ChainError(legs[2].end, legs[1].end) ELSE legs[1].end
    /\ UNCHANGED <<route, said, upstream, legs, client, present, stopped>>

ClientLeaves ==
    /\ present /\ result = "" /\ present' = FALSE
    /\ UNCHANGED <<route, said, upstream, legs, client, stopped, result>>

LegStep == WriteClient \/ Hand \/ PipeBreaks \/ PipeEnds \/ ReadFails \/ StopFirst \/ Returns

TranslationNext == Provider \/ Silent \/ RepairAnswer \/ LegStep \/ ClientLeaves

TranslationSpec == TranslationInit /\ [][TranslationNext]_answerVars

\* Goroutines run and the reads and writes that can go on do; a provider may be silent, but
\* the gate's timers fire (gate.go:412) and a repair is answered or times out (pool.go:201).
TranslationFairness == WF_answerVars(LegStep) /\ WF_answerVars(Silent) /\ WF_answerVars(RepairAnswer)

-----------------------------------------------------------------------------
(* Properties *)

TranslationTypeOK ==
    /\ route \in Routes /\ DOMAIN legs = DOMAIN route /\ present \in BOOLEAN /\ stopped \in BOOLEAN
    /\ result \in {"", "ok", "cut", "failed", "pipe", "canceled"}

\* Messages has no place for the text of a refusal.
Carried == IF Hears = "messages" THEN {"think", "text"} ELSE TextKinds

\* However its pieces interleave, repeat or come whole, the answer a client puts together
\* from a stream that ended well is the one the provider gave, with each call's arguments
\* under that call, the newest usage, and a tool to run if it stopped for one (Ollama's
\* reason is passed on to a Chat client as it is: to_chat_response.go:37-41).  No event
\* falls outside a block that was opened and is still open, and none comes after the end.
AnswerWhole ==
    /\ ~client.bad
    /\ Complete(client) =>
          /\ \A k \in Carried : Texts(client.blocks, k) = Texts(said, k)
          /\ Calls(client.blocks) = Calls(said)
          /\ client.u = upstream.u
          /\ (client.reason \in {"tool_calls", "tool_use"} /\ Hears # "responses" /\ route # <<"OC">>) => Calls(said) # <<>>

\* An answer that the provider broke off is never shown as whole, and the translation
\* reports a failure, by which the account is judged and usage recorded (openai.go:291-308),
\* just when the client that stayed was shown one.
CutIsTold ==
    /\ Complete(client) => upstream.finished
    /\ (result # "" /\ present) => client.over /\ (result = "ok" <=> Complete(client))

\* The translation returns once the client left, the body ended or the answer is over,
\* though the first leg may wait for a provider that says nothing more (translate.go:230);
\* and always where the gate's timers watch the provider.
TranslationEnds == (~present \/ upstream.ended \/ Returned(LastLeg) \/ route[1] \in Gates) ~> result # ""
=============================================================================
