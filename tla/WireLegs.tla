-------------------------------- MODULE WireLegs --------------------------------
(***************************************************************************)
(* internal/protocol: the response legs from the wires of Ollama, Gemini   *)
(* and CommandCode to Chat.  Ollama and CommandCode stream one JSON object *)
(* per line and say themselves when the answer is over; Gemini's objects   *)
(* end with the body.  As in Legs, what a line or chunk carries beside is  *)
(* so many events here.                                                    *)
(***************************************************************************)
EXTENDS Legs

\* The finish chunk and the marker after it.
Finished(s, reason, u) == Over(Emit(Emit(s, Final("finish", reason, u)), Plain("[DONE]")), "ok")

\* A whole call that was given no arguments is given "{}".
OrNothing(p) == IF p = <<>> THEN NoArguments ELSE p

-----------------------------------------------------------------------------
(* OllamaStreamToChat: each call comes whole and is numbered by its place in the  *)
(* answer; no chunk carries the role.                                             *)

OllamaToChat0 == [calls |-> 0, out |-> <<>>, end |-> ""]

\* A call makes any reason "tool_calls"; the reason "tool_calls" needs none.
OllamaFinish(reason, calls) ==
    CASE calls > 0 \/ reason \in {"tool_calls", "tool_use"} -> "tool_calls"
      [] calls = 0 /\ reason \in {"length", "max_tokens"} -> "length"
      [] OTHER -> "stop"

WholeCall(s, e) == [Emit(s, Piece("call", s.calls, "function", OrNothing(e.p))) EXCEPT !.calls = @ + 1]

OllamaToChat(s, e) ==
    CASE e.t = "text" -> IF e.p = <<>> THEN s ELSE Emit(s, e)
      [] e.t = "call" -> WholeCall(s, e)
      [] e.t = "done" -> Finished(s, OllamaFinish(e.k, s.calls), e.u)
      [] e.t \in {"error", "broken"} -> FailChat(s, "failed")
      [] e.t = "eof" -> FailChat(s, "cut")

-----------------------------------------------------------------------------
(* GeminiStreamToChat: the finish chunk waits for the end of the body, as usage   *)
(* may follow the reason.                                                         *)

GeminiToChat0 == [started |-> FALSE, calls |-> 0, finish |-> "", u |-> 0, out |-> <<>>, end |-> ""]

GeminiAnswers == {"STOP", "MAX_TOKENS", "SAFETY", "RECITATION", "BLOCKLIST", "PROHIBITED_CONTENT", "OTHER"}

GeminiFinish(reason) ==
    CASE reason = "MAX_TOKENS" -> "length"
      [] reason \in {"SAFETY", "RECITATION", "BLOCKLIST", "PROHIBITED_CONTENT"} -> "content_filter"
      [] OTHER -> "stop"

\* A body that ends without [DONE] is complete if a finish reason came.
GeminiEnds(s) ==
    CASE s.finish = "" -> FailChat(s, "cut")
      [] s.finish = "stop" /\ s.calls > 0 -> Finished(WithRole(s), "tool_calls", s.u)
      [] OTHER -> Finished(WithRole(s), s.finish, s.u)

\* A reason that is no answer, and a part that Chat has no place for, fail the stream; a
\* prompt that was blocked is a filtered answer.
GeminiToChat(s, e) ==
    CASE e.t = "text" -> IF e.p = <<>> THEN s ELSE Emit(WithRole(s), e)
      [] e.t = "call" -> WholeCall(WithRole(s), e)
      [] e.t = "usage" -> Counted(s, e)
      [] e.t = "finish" ->
            IF e.k \in GeminiAnswers THEN [s EXCEPT !.finish = GeminiFinish(e.k)] ELSE FailChat(s, "failed")
      [] e.t = "blocked" -> [s EXCEPT !.finish = "content_filter"]
      [] e.t \in {"part", "error", "broken"} -> FailChat(s, "failed")
      [] e.t = "eof" -> GeminiEnds(s)

-----------------------------------------------------------------------------
(* CommandCodeStreamToChat: a call may be started, given its input in pieces, and *)
(* told once more whole, each time under one or two of its ids or under none.  In *)
(* these events "i" is the sequence of the ids and "k" the tool.                  *)

CommandToChat0 == [started |-> FALSE, calls |-> <<>>, finish |-> "", u |-> 0, out |-> <<>>, end |-> ""]

CommandFinish(reason) ==
    CASE reason \in {"", "stop", "error"} -> "stop"
      [] reason \in {"tool-calls", "tool_use"} -> "tool_calls"
      [] reason = "content-filter" -> "content_filter"
      [] OTHER -> reason

\* byID: no id names two calls.
Names(s, id) == {n \in DOMAIN s.calls : id \in s.calls[n].ids}

\* The call that the first known id of the event names, or 0.
LookedUp(s, ids) ==
    LET known == SelectSeq(ids, LAMBDA id : Names(s, id) # {})
    IN IF known = <<>> THEN 0 ELSE CHOOSE n \in Names(s, known[1]) : TRUE

\* Broken variant of Alias: the first id is the only one kept.
AliasFirst(s, ids, n) ==
    [s EXCEPT !.calls[n].ids = @ \cup (IF @ = {} /\ ids # <<>> THEN {ids[1]} ELSE {})]

\* An id that names another call is left alone.
Alias(s, ids, n) == [s EXCEPT !.calls[n].ids = @ \cup {id \in ToSet(ids) : Names(s, id) = {}}]

\* open, with the ids of the event that register left for it.
OpenCall(s, e, p) ==
    LET n == Len(s.calls) + 1
        opened == [Emit(WithRole(s), Piece("call", n - 1, "function", p)) EXCEPT
                      !.calls = Append(@, [ids |-> {}, tool |-> e.k, given |-> p # <<>>, done |-> FALSE])]
    IN Alias(opened, e.i, n)

GiveInput(s, n, p) == [Emit(WithRole(s), Piece("call", n - 1, "", p)) EXCEPT !.calls[n].given = TRUE]

\* A call told whole under ids that name none is the oldest of its tool not told yet.
Meant(s, e) ==
    LET named == LookedUp(s, e.i)
        waiting == {n \in DOMAIN s.calls : ~s.calls[n].done /\ s.calls[n].tool = e.k}
    IN CASE named # 0 -> named
         [] named = 0 /\ waiting # {} -> Min(waiting)
         [] OTHER -> 0

\* Arguments already streamed stand.
ToldWhole(s, e) ==
    LET n == Meant(s, e)
        known == [Alias(s, e.i, n) EXCEPT !.calls[n].done = TRUE]
    IN CASE n = 0 -> [OpenCall(s, e, e.p) EXCEPT !.calls[Len(s.calls) + 1].done = TRUE]
         [] n # 0 /\ (s.calls[n].given \/ e.p = <<>>) -> known
         [] OTHER -> GiveInput(known, n, e.p)

\* A call that was given no arguments ends with "{}".
GiveNothing(s, n) == IF s.calls[n].given THEN s ELSE GiveInput(s, n, NoArguments)

\* The reason of the last step, if one was told, and the newest usage.
CommandEnds(s, e) ==
    LET reason == ResolveFinish(IF s.finish # "" THEN s.finish ELSE CommandFinish(e.k), Len(s.calls))
        closed == FoldLeft(GiveNothing, s, [n \in DOMAIN s.calls |-> n])
    IN IF reason = "none to run" THEN FailChat(s, "failed")
       ELSE Finished(closed, reason, Counted(s, e).u)

\* An event of a type not known is passed over unless it carries something.
CommandToChat(s, e) ==
    CASE e.t = "text" -> IF e.p = <<>> THEN s ELSE Emit(WithRole(s), e)
      [] e.t = "tool-input-start" -> IF LookedUp(s, e.i) # 0 THEN s ELSE OpenCall(s, e, <<>>)
      [] e.t = "tool-input-delta" ->
            CASE e.p = <<>> -> s
              [] e.p # <<>> /\ LookedUp(s, e.i) = 0 -> FailChat(s, "failed")
              [] OTHER -> GiveInput(s, LookedUp(s, e.i), e.p)
      [] e.t = "tool-call" -> ToldWhole(s, e)
      [] e.t = "finish-step" ->
            [Counted(s, e) EXCEPT !.finish = IF e.k = "" THEN @ ELSE CommandFinish(e.k)]
      [] e.t = "finish" -> CommandEnds(s, e)
      [] e.t = "unknown" -> IF e.p = <<>> THEN s ELSE FailChat(s, "failed")
      [] e.t \in {"error", "broken"} -> FailChat(s, "failed")
      [] e.t = "eof" -> FailChat(s, "cut")
=============================================================================
