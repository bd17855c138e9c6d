------------------------------ MODULE Documents ------------------------------
(***************************************************************************)
(* A turn's events and the parts of its answer, as the documents the store *)
(* keeps: what is cleaned on the way in, what cannot be written, what is   *)
(* read back, and the answer that is built from the events of a turn whose *)
(* runner is gone.                                                         *)
(*                                                                         *)
(* A text is a sequence of code points, of which four kinds matter: any    *)
(* other ("a"), the NUL, and the two halves of a surrogate pair. Arguments *)
(* are a JSON object that holds a number JSON cannot write ("nan") or not: *)
(* Python writes and reads back both. Ids, names and times are not kept.   *)
(***************************************************************************)
EXTENDS Naturals, Sequences, SequencesExt

Halves == {"high", "low"}

Event(kind, body) == [kind |-> kind, body |-> body]

MessageStarted == Event("message_started", [message |-> "answer"])
TextPiece(text) == Event("text_piece", [text |-> text])
ReasoningPiece(text) == Event("reasoning_piece", [text |-> text])
CallStarted(call) == Event("call_started", [call |-> call])
ArgumentsPiece(call, arguments) ==
  Event("arguments_piece", [call |-> call, arguments |-> arguments])
CallCompleted(call) == Event("call_completed", [call |-> call])
ResultLanded(call, text) == Event("result_landed", [call |-> call, text |-> text])
MessageCompleted == Event("message_completed", [message |-> "answer"])
TurnEnded(state) == Event("turn_ended", [state |-> state])

TextPart(text) == [kind |-> "text", text |-> text]
ToolCallPart(call, arguments) == [kind |-> "tool_call", call |-> call, arguments |-> arguments]
ToolResultPart(call, text) == [kind |-> "tool_result", call |-> call, text |-> text]

-----------------------------------------------------------------------------
(* Cleaning                                                                *)

\* One code point more: a NUL is dropped, and a half that completes a pair joins the first half.
Joins(before, c) ==
  IF c = "nul" THEN before
  ELSE IF c = "low" /\ before # <<>> /\ Last(before) = "high" THEN Append(Front(before), "pair")
  ELSE Append(before, c)

Joined(text) ==
  LET upTo[n \in 0..Len(text)] == IF n = 0 THEN <<>> ELSE Joins(upTo[n - 1], text[n])
  IN  upTo[Len(text)]

\* No NUL; a pair that came as two code points is joined, half of one is replaced.
CleanText(text) ==
  LET joined == Joined(text)
  IN  [i \in DOMAIN joined |-> IF joined[i] \in Halves THEN "replacement" ELSE joined[i]]

\* A number that JSON cannot write is refused, and the document with it.
CanWrite(arguments) == arguments # "nan"

PartToDocument(part) ==
  IF part.kind = "tool_call" THEN part ELSE [part EXCEPT !.text = CleanText(@)]

-----------------------------------------------------------------------------
(* Messages and events                                                     *)

CanStore(parts) ==
  \A i \in DOMAIN parts : parts[i].kind = "tool_call" => CanWrite(parts[i].arguments)

\* Whether it failed is written only of an answer that did.
StoredMessage(parts, failed) ==
  LET documents == [i \in DOMAIN parts |-> PartToDocument(parts[i])]
  IN  IF failed THEN [v |-> 1, parts |-> documents, failed |-> TRUE]
      ELSE [v |-> 1, parts |-> documents]

PartKeys ==
  [text |-> {"kind", "text"}, reasoning |-> {"kind", "text"},
   tool_call |-> {"kind", "call", "arguments"}, tool_result |-> {"kind", "call", "text"}]

\* Refused: a later version, a key nobody wrote or one that is missing, a part of another kind.
MessageReads(document) ==
  /\ document.v = 1
  /\ {"v", "parts"} \subseteq DOMAIN document /\ DOMAIN document \subseteq {"v", "parts", "failed"}
  /\ \A i \in DOMAIN document.parts :
       /\ document.parts[i].kind \in DOMAIN PartKeys
       /\ DOMAIN document.parts[i] = PartKeys[document.parts[i].kind]

PartFromDocument(document) ==
  CASE document.kind \in {"text", "reasoning"} -> [kind |-> document.kind, text |-> document.text]
    [] document.kind = "tool_call" -> ToolCallPart(document.call, document.arguments)
    [] OTHER -> ToolResultPart(document.call, document.text)

MessageFromDocument(document) ==
  [parts |-> [i \in DOMAIN document.parts |-> PartFromDocument(document.parts[i])],
   failed |-> "failed" \in DOMAIN document]

EventKeys ==
  [message_started |-> {"message"}, text_piece |-> {"text"}, reasoning_piece |-> {"text"},
   call_started |-> {"call"}, arguments_piece |-> {"call", "arguments"},
   call_completed |-> {"call"}, result_landed |-> {"call", "text"},
   message_completed |-> {"message"}, turn_ended |-> {"state"}]

\* An event's arguments are text, in which JSON's own escapes leave nothing to clean or refuse.
EventToDocument(position, event) ==
  [v |-> 1, position |-> position, kind |-> event.kind,
   body |-> IF "text" \in DOMAIN event.body THEN [event.body EXCEPT !.text = CleanText(@)]
            ELSE event.body]

\* Refused: a later version, a kind nobody knows, a key too many or too few.
Reads(document) ==
  /\ document.v = 1 /\ document.position >= 1
  /\ document.kind \in DOMAIN EventKeys
  /\ DOMAIN document.body = EventKeys[document.kind]

EventFromDocument(document) == Event(document.kind, document.body)

-----------------------------------------------------------------------------
(* The answer of a turn that did not finish                                *)

\* Text that arrives in a row is one part.
WithText(parts, text) ==
  IF parts # <<>> /\ parts[Len(parts)].kind = "text"
  THEN [parts EXCEPT ![Len(parts)].text = @ \o text]
  ELSE Append(parts, TextPart(text))

\* Mistaken: a call counts from its start.
CutShortToo(documents) ==
  LET calls == SelectSeq(documents, LAMBDA d : d.kind = "call_started")
  IN  [i \in DOMAIN calls |-> ToolCallPart(calls[i].body.call, "plain")]

\* The answer so far: its parts, and the arguments of each call that is not completed.
NothingBuilt == [parts |-> <<>>, calls |-> [call \in {} |-> ""]]

\* A call more, or the arguments of one: they are one piece.
Noted(calls, call, arguments) ==
  [c \in DOMAIN calls \cup {call} |-> IF c = call THEN arguments ELSE calls[c]]

Completed(built, call) ==
  [parts |-> Append(built.parts, ToolCallPart(call, built.calls[call])),
   calls |-> [c \in DOMAIN built.calls \ {call} |-> built.calls[c]]]

\* One event more. A call that was not started is passed over.
Rebuilt(built, d) ==
  LET body == d.body
  IN  CASE d.kind = "text_piece" -> [built EXCEPT !.parts = WithText(@, body.text)]
        [] d.kind = "call_started" -> [built EXCEPT !.calls = Noted(@, body.call, "")]
        [] d.kind = "arguments_piece" ->
             [built EXCEPT !.calls = IF body.call \in DOMAIN @
                                     THEN Noted(@, body.call, body.arguments) ELSE @]
        [] d.kind = "call_completed" ->
             IF body.call \in DOMAIN built.calls THEN Completed(built, body.call) ELSE built
        [] d.kind = "result_landed" ->
             [built EXCEPT !.parts = Append(@, ToolResultPart(body.call, body.text))]
        [] OTHER -> built

Built(documents) ==
  LET upTo[n \in 0..Len(documents)] ==
        IF n = 0 THEN NothingBuilt ELSE Rebuilt(upTo[n - 1], documents[n])
  IN  upTo[Len(documents)]

\* Its text, each call that was completed, and each result; a call cut short is left out.
PartialAnswer(documents) == Built(documents).parts
=============================================================================
