-------------------------------- MODULE Page --------------------------------
(***************************************************************************)
(* A turn's events on the wire, and what the page shows of them: each of   *)
(* the turn's events as the AG-UI events derived from it, and the page's   *)
(* state as the fold of the events it was given.                           *)
(*                                                                         *)
(* A wire event's id is its position when it is the last one derived from  *)
(* one of the turn's events, and 0 when it carries none.                   *)
(***************************************************************************)
EXTENDS Documents

Wire(type, body) == [type |-> type, id |-> 0, body |-> body]

RunStarted == Wire("RUN_STARTED", [thread |-> "session"])

WireTypeOf ==
  [message_started |-> "TEXT_MESSAGE_START", text_piece |-> "TEXT_MESSAGE_CONTENT",
   call_started |-> "TOOL_CALL_START", arguments_piece |-> "TOOL_CALL_ARGS",
   call_completed |-> "TOOL_CALL_END", result_landed |-> "TOOL_CALL_RESULT",
   message_completed |-> "TEXT_MESSAGE_END"]

\* A turn that was cancelled finished, as the wire has it; the other bad ends are errors.
Mapped(event) ==
  IF event.kind = "turn_ended"
  THEN LET type == IF event.body.state \in {"finished", "cancelled"}
                   THEN "RUN_FINISHED" ELSE "RUN_ERROR"
       IN  Wire(type, event.body)
  ELSE Wire(WireTypeOf[event.kind], event.body)

IsTerminal(sent) == sent.type \in {"RUN_FINISHED", "RUN_ERROR"}

\* Mistaken: the position goes on the first event derived, not the last.
IdOnTheFirst(thinking, event, position) ==
  IF event.kind = "reasoning_piece"
  THEN LET id == IF thinking = 0 THEN position ELSE thinking
           start == Wire("REASONING_MESSAGE_START", [stretch |-> id])
           content == Wire("REASONING_MESSAGE_CONTENT", [stretch |-> id, text |-> event.body.text])
       IN  IF thinking = 0 THEN <<[start EXCEPT !.id = position], content>>
           ELSE <<[content EXCEPT !.id = position]>>
  ELSE LET end == Wire("REASONING_MESSAGE_END", [stretch |-> thinking])
       IN  IF thinking = 0 THEN <<[Mapped(event) EXCEPT !.id = position]>>
           ELSE <<[end EXCEPT !.id = position], Mapped(event)>>

\* What one of the turn's events is sent as, with a stretch of thinking opened before its first
\* piece and closed before what comes after it: `thinking` is the position it was opened at.
Derived(thinking, event, position) ==
  LET id == IF thinking = 0 THEN position ELSE thinking
      last == IF event.kind = "reasoning_piece"
              THEN Wire("REASONING_MESSAGE_CONTENT", [stretch |-> id, text |-> event.body.text])
              ELSE Mapped(event)
      before ==
        IF event.kind = "reasoning_piece" /\ thinking = 0
        THEN <<Wire("REASONING_MESSAGE_START", [stretch |-> id])>>
        ELSE IF event.kind # "reasoning_piece" /\ thinking # 0
        THEN <<Wire("REASONING_MESSAGE_END", [stretch |-> thinking])>>
        ELSE <<>>
  IN  Append(before, [last EXCEPT !.id = position])

\* The stretch that is open after the event.
ThinkingAfter(thinking, event, position) ==
  IF event.kind # "reasoning_piece" THEN 0 ELSE IF thinking = 0 THEN position ELSE thinking

-----------------------------------------------------------------------------
(* The page                                                                *)

\* The answer's state and parts, and the stretch of thinking that is open.
NothingShown == [state |-> "none", parts |-> <<>>, thinking |-> 0, writing |-> FALSE]

Opened(page) ==
  IF page.state # "none" THEN page
  ELSE [page EXCEPT !.state = "running", !.writing = TRUE, !.thinking = 0]

Holds(page, call) ==
  \E i \in DOMAIN page.parts : page.parts[i].kind = "tool_call" /\ page.parts[i].call = call

Unanswered(parts) == \E i \in DOMAIN parts : parts[i].kind = "tool_call" /\ ~parts[i].answered

\* Onto the last part when it is of that kind and stretch, else as a new one.
Appended(page, kind, stretch, text) ==
  LET n == Len(page.parts)
      same == /\ n > 0 /\ page.parts[n].kind = kind
              /\ kind # "tool_call" /\ page.parts[n].stretch = stretch
  IN  IF same THEN [page EXCEPT !.parts[n].text = @ \o text]
      ELSE [page EXCEPT !.parts = Append(@, [kind |-> kind, stretch |-> stretch, text |-> text])]

StretchOpened(page, stretch) ==
  IF page.thinking = stretch \/ ~page.writing THEN page
  ELSE [page EXCEPT !.thinking = stretch,
                    !.parts = Append(@, [kind |-> "reasoning", stretch |-> stretch, text |-> <<>>])]

\* A call's result lands on the call; the last one ends the answer's running.
Answered(page, call) ==
  LET parts == [i \in DOMAIN page.parts |->
                  IF page.parts[i].kind = "tool_call" /\ page.parts[i].call = call
                  THEN [page.parts[i] EXCEPT !.answered = TRUE] ELSE page.parts[i]]
  IN  [page EXCEPT !.parts = parts,
                   !.state = IF @ = "running" /\ ~Unanswered(parts) THEN "stored" ELSE @]

\* What one event does to the page.
Applied(page, sent) ==
  LET body == sent.body
      open == Opened(page)
  IN  CASE sent.type = "TEXT_MESSAGE_START" -> open
        [] sent.type = "TEXT_MESSAGE_CONTENT" ->
             IF open.state = "running" THEN Appended(open, "text", 0, body.text) ELSE page
        [] sent.type = "TEXT_MESSAGE_END" ->
             IF page.state # "running" THEN page
             ELSE [page EXCEPT !.state = IF Unanswered(page.parts) THEN "running" ELSE "stored",
                               !.writing = FALSE, !.thinking = 0]
        [] sent.type = "REASONING_MESSAGE_START" -> StretchOpened(page, body.stretch)
        [] sent.type = "REASONING_MESSAGE_CONTENT" ->
             IF ~page.writing THEN page
             ELSE Appended(StretchOpened(page, body.stretch), "reasoning", body.stretch, body.text)
        [] sent.type = "REASONING_MESSAGE_END" ->
             IF page.thinking = body.stretch THEN [page EXCEPT !.thinking = 0] ELSE page
        [] sent.type = "TOOL_CALL_START" ->
             IF open.state # "running" \/ Holds(open, body.call) THEN open
             ELSE [open EXCEPT !.parts =
                     Append(@, [kind |-> "tool_call", call |-> body.call, answered |-> FALSE])]
        [] sent.type = "TOOL_CALL_RESULT" ->
             IF Holds(page, body.call) THEN Answered(page, body.call) ELSE page
        [] IsTerminal(sent) ->
             [page EXCEPT !.writing = FALSE, !.thinking = 0,
                          !.state = IF @ # "running" THEN @
                                    ELSE IF sent.type = "RUN_ERROR" THEN "failed"
                                    ELSE IF body.state = "cancelled" THEN "cancelled"
                                    ELSE "stored"]
        [] OTHER -> page

\* What an opened conversation shows of a stored answer: everything but the thinking.
MessageView(message) ==
  LET upTo[n \in 0..Len(message.parts)] ==
        IF n = 0 THEN <<>>
        ELSE IF message.parts[n].kind = "reasoning" THEN upTo[n - 1]
        ELSE Append(upTo[n - 1], message.parts[n])
  IN  [message EXCEPT !.parts = upTo[Len(message.parts)]]

\* The text of an answer, wherever it stands among its parts.
TextOf(parts) ==
  LET upTo[n \in 0..Len(parts)] ==
        IF n = 0 THEN <<>>
        ELSE IF parts[n].kind = "text" THEN upTo[n - 1] \o parts[n].text
        ELSE upTo[n - 1]
  IN  upTo[Len(parts)]
=============================================================================
