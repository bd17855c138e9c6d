------------------------------ MODULE Sessions ------------------------------
(***************************************************************************)
(* One person's sessions, and the two readers that go through them a page  *)
(* at a time while they are added, renamed, answered and deleted: the      *)
(* interface's list, whose next page is asked for with an opaque cursor,   *)
(* and the search tool of a turn, through a read bound to the turn's agent *)
(* and the worker's broker. A page ends at the (updated_at, id) of its     *)
(* last session, and the next one begins below it.                         *)
(*                                                                         *)
(* A write carries a moment read before it was sent, by the server or by a *)
(* worker, so the moments of two writes may be stored in the other order.  *)
(* The readers change nothing, so one of them at a time is enough.         *)
(***************************************************************************)
EXTENDS Integers, Sequences, FiniteSets

CONSTANTS
  Sessions,       \* the ids, in their order
  AgentOf,        \* each session's agent
  Mine,           \* the session the searching turn is in
  Where,          \* what of each session has the words: its title, messages of a role
  None,
  Configurations, \* the agents one configuration or another has
  ToolsOf,        \* the tools each agent names
  Build,          \* the tools of this build
  Limits,         \* the page sizes the interface may ask for
  Arguments,      \* the arguments a model may call the tool with
  MaxResults,     \* MAX_RESULTS
  DefaultResults, \* DEFAULT_RESULTS
  MaxSessions,    \* MAX_SESSIONS
  PageSize,       \* PAGE
  MaxClock,       \* bound: the moments there are
  MaxDelay,       \* bound: how old the moment of a write may be
  MaxWrites       \* bound: how many writes fall within one reading

ASSUME SessionsAssumption ==
  /\ Sessions \subseteq Nat /\ Mine \in Sessions /\ IsFiniteSet(Sessions)
  /\ Limits \subseteq Nat
  /\ {MaxResults, DefaultResults, MaxSessions, PageSize} \subseteq Nat \ {0}
  /\ {MaxClock, MaxDelay, MaxWrites} \subseteq Nat
  /\ \A m \in 0..MaxClock, s \in Sessions :
       None # <<m, s>> /\ None # [opaque |-> TRUE, moment |-> m, id |-> s]

VARIABLES
  clock,
  agents,         \* the agents configured
  row,            \* each session: its state and updated_at
  list,           \* the interface's reading
  search,         \* the tool's
  touched,        \* the sessions written since the reading began
  back,           \* those of them whose updated_at went back
  writes          \* how many writes that was

readVars == <<touched, back, writes>>
storeVars == <<clock, agents, row>>
vars == <<storeVars, list, search, readVars>>

-----------------------------------------------------------------------------
(* The store's statements                                                  *)

Visible == {s \in Sessions : row[s].state = "visible"}

Key(s) == <<row[s].updated, s>>

Below(k, j) == k[1] < j[1] \/ (k[1] = j[1] /\ k[2] < j[2])

\* Mistaken: the moment alone says where a page ended.
PastTheMoment(s, before) == before = None \/ row[s].updated < before[1]

\* Mistaken: the last session of a page begins the next.
FromTheLast(s, before) == before = None \/ ~Below(before, Key(s))

Past(s, before) == before = None \/ Below(Key(s), before)

Least(a, b) == IF a < b THEN a ELSE b

\* The first of those past the cursor, most recently updated first, as they now are.
SessionsOf(limit, before) ==
  LET owned == {s \in Visible : Past(s, before)}
      Rank(s) == Cardinality({x \in owned : Below(Key(s), Key(x))})
  IN  [i \in 1..Least(limit, Cardinality(owned)) |-> Key(CHOOSE s \in owned : Rank(s) = i - 1)]

Moments == {m \in 0..clock : clock - m <= MaxDelay}

Reading == list.pc # "none" \/ search.pc # "none"

Wrote(s, written) ==
  /\ Reading => writes < MaxWrites
  /\ writes' = IF Reading THEN writes + 1 ELSE 0
  /\ row' = [row EXCEPT ![s] = written]
  /\ touched' = IF Reading THEN touched \cup {s} ELSE {}
  /\ back' = IF Reading /\ written.state = "visible" /\ written.updated < row[s].updated
             THEN back \cup {s} ELSE back
  /\ UNCHANGED <<clock, agents, list, search>>

\* Its agent is one that is configured.
StartSession(s) ==
  /\ row[s].state = "none" /\ AgentOf[s] \in agents
  /\ \E m \in Moments : Wrote(s, [state |-> "visible", updated |-> m])

\* get_session found it before the moment was read. The UPDATE does not ask whether it is still
\* there; on one hidden meanwhile it writes what nobody reads.
RenameSession(s) ==
  /\ s \in Visible
  /\ \E m \in Moments : Wrote(s, [row[s] EXCEPT !.updated = m])

\* finish_turn's first statement.
FinishTurn(s) ==
  /\ s \in Visible
  /\ \E m \in Moments : Wrote(s, [row[s] EXCEPT !.updated = m])

HideSession(s) == s \in Visible /\ Wrote(s, [state |-> "hidden", updated |-> 0])

Tick ==
  /\ clock < MaxClock
  /\ clock' = clock + 1
  /\ UNCHANGED <<agents, row, list, search, readVars>>

-----------------------------------------------------------------------------
(* The interface's list                                                    *)

NoList == [pc |-> "none", limit |-> 0, cursor |-> None, shown |-> <<>>]

EncodeCursor(key) == [opaque |-> TRUE, moment |-> key[1], id |-> key[2]]

DecodeCursor(cursor) == IF cursor = None THEN None ELSE <<cursor.moment, cursor.id>>

\* The agent of every session of a page is looked up among those configured.
Summed(page) == \A i \in DOMAIN page : AgentOf[page[i][2]] \in agents

NextCursor(page, limit) ==
  IF Len(page) = limit THEN EncodeCursor(page[Len(page)]) ELSE None

OpenList(limit) ==
  /\ ~Reading
  /\ list' = [NoList EXCEPT !.pc = "asking", !.limit = limit]
  /\ UNCHANGED <<storeVars, search, readVars>>

\* One GET. A page of no sessions has no last one to make a cursor of, and a session whose agent
\* is no longer configured fails the page.
ListSessions ==
  LET page == SessionsOf(list.limit, DecodeCursor(list.cursor))
  IN  /\ list.pc = "asking"
      /\ list' = IF list.limit = 0 \/ ~Summed(page) THEN [list EXCEPT !.pc = "failed"]
                 ELSE [list EXCEPT !.shown = @ \o page,
                                   !.cursor = NextCursor(page, list.limit),
                                   !.pc = IF NextCursor(page, list.limit) = None THEN "over"
                                          ELSE "asking"]
      /\ UNCHANGED <<storeVars, search, readVars>>

\* A cursor that does not decode is refused, and changes nothing.
SendBrokenCursor ==
  /\ list.pc = "asking"
  /\ list' = [list EXCEPT !.pc = "failed"]
  /\ UNCHANGED <<storeVars, search, readVars>>

CloseList ==
  /\ list.pc \in {"over", "failed"}
  /\ list' = NoList
  /\ touched' = {} /\ back' = {} /\ writes' = 0
  /\ UNCHANGED <<storeVars, search>>

-----------------------------------------------------------------------------
(* The search tool                                                         *)

NoSearch == [pc |-> "none", limit |-> 0, size |-> 0, before |-> None, page |-> <<>>,
             after |-> None, read |-> 0, todo |-> <<>>, found |-> <<>>]

Agent == AgentOf[Mine]

FunctionsFor(agent) == ToolsOf[agent] \cap Build

Asked(arguments) == IF arguments.limit = None THEN DefaultResults ELSE arguments.limit

Refused(arguments) ==
  \/ arguments.unknown
  \/ arguments.query \in {"blank", "too long"}
  \/ Asked(arguments) \notin 1..MaxResults

CallSearch(arguments) ==
  /\ ~Reading
  /\ Mine \in Visible /\ Agent \in agents /\ "search_sessions" \in FunctionsFor(Agent)
  /\ search' = IF Refused(arguments) THEN [NoSearch EXCEPT !.pc = "failed"]
               ELSE [NoSearch EXCEPT !.pc = "asking", !.limit = Asked(arguments),
                                     !.size = Least(PageSize, MaxSessions)]
  /\ UNCHANGED <<storeVars, list, readVars>>

\* What the broker asks the server with, and what the server makes of it.
Params(before) ==
  IF before = None THEN <<>> ELSE [before_updated_at |-> before[1], before_id |-> before[2]]

FromParams(params) ==
  IF params = <<>> THEN None ELSE <<params.before_updated_at, params.before_id>>

BrokerSessionsOf(limit, before) == SessionsOf(limit, FromParams(Params(before)))

\* Those of the wanted sessions, in their order.
Kept(keys, wanted) ==
  LET kept[i \in 0..Len(keys)] ==
        IF i = 0 THEN <<>>
        ELSE IF keys[i][2] \in wanted THEN Append(kept[i - 1], keys[i]) ELSE kept[i - 1]
  IN  kept[Len(keys)]

OfAgent(page) == Kept(page, {s \in Sessions : AgentOf[s] = Agent})

FirstOf(keys, n) == SubSeq(keys, 1, Least(n, Len(keys)))

\* Mistaken: a page with few of the agent's sessions is the last.
FewOfItsOwn(page, size) == Len(OfAgent(page)) < size

IsLast(page, size) == Len(page) < size

\* After a page, or a session of it: the next session, the next page or the end.
Onward(s) ==
  IF s.todo # <<>> THEN [s EXCEPT !.pc = "getting"]
  ELSE IF s.read < MaxSessions
  THEN [s EXCEPT !.pc = "asking", !.before = s.after, !.page = <<>>,
                 !.size = Least(PageSize, MaxSessions - s.read)]
  ELSE [s EXCEPT !.pc = "over"]

\* Mistaken: past the last of the page that is the agent's own.
AskPastItsOwn(page) ==
  IF OfAgent(page) = <<>> THEN search.before ELSE OfAgent(page)[Len(OfAgent(page))]

AskPast(page) == page[Len(page)]

\* One call of the bound read's loop, which goes on until it has a page of the agent's own.
AskBroker ==
  /\ search.pc = "asking"
  /\ \E page \in {BrokerSessionsOf(search.size, search.before)} :
     \E own \in {search.page \o FirstOf(OfAgent(page), search.size - Len(search.page))} :
       search' =
         IF Len(own) < search.size /\ ~IsLast(page, search.size)
         THEN [search EXCEPT !.page = own, !.before = AskPast(page)]
         ELSE IF own = <<>> THEN [search EXCEPT !.pc = "over"]
         ELSE Onward([search EXCEPT !.after = own[Len(own)], !.read = @ + Len(own),
                                    !.todo = Kept(own, Sessions \ {Mine}), !.page = <<>>])
  /\ UNCHANGED <<storeVars, list, readVars>>

Due == Head(search.todo)[2]

\* A session deleted since its page fails the whole call.
GetSession ==
  /\ search.pc = "getting"
  /\ search' = [search EXCEPT !.pc = IF Due \in Visible THEN "messages" ELSE "failed"]
  /\ UNCHANGED <<storeVars, list, readVars>>

\* The words are in what the person or the agent wrote, or in the title.
Matches(s) == Where[s] \cap {"user", "assistant", "title"} # {}

ReadMessages ==
  LET found == IF Matches(Due) THEN Append(search.found, Head(search.todo)) ELSE search.found
      after == [search EXCEPT !.found = found, !.todo = Tail(@)]
  IN  /\ search.pc = "messages"
      /\ UNCHANGED <<storeVars, list, readVars>>
      /\ search' = IF Due \notin Visible THEN [search EXCEPT !.pc = "failed"]
                   ELSE IF Len(found) = search.limit THEN [after EXCEPT !.pc = "over"]
                   ELSE Onward(after)

\* What was found, or a failure, is the model's to read, and the turn goes on.
Answer ==
  /\ search.pc \in {"over", "failed"}
  /\ search' = NoSearch
  /\ touched' = {} /\ back' = {} /\ writes' = 0
  /\ UNCHANGED <<storeVars, list>>

-----------------------------------------------------------------------------

\* Sessions of agents that left the configuration may be there from before.
Init ==
  /\ clock = 0
  /\ agents \in Configurations
  /\ \E left \in SUBSET {s \in Sessions : AgentOf[s] \notin agents} :
       row = [s \in Sessions |-> [state |-> IF s \in left THEN "visible" ELSE "none",
                                  updated |-> 0]]
  /\ list = NoList /\ search = NoSearch
  /\ touched = {} /\ back = {} /\ writes = 0

Writes ==
  \E s \in Sessions : StartSession(s) \/ RenameSession(s) \/ FinishTurn(s) \/ HideSession(s)

Listing ==
  \/ \E limit \in Limits : OpenList(limit)
  \/ ListSessions \/ SendBrokenCursor \/ CloseList

SearchStep == AskBroker \/ GetSession \/ ReadMessages \/ Answer

Searching == (\E arguments \in Arguments : CallSearch(arguments)) \/ SearchStep

Next == Writes \/ Tick \/ Listing \/ Searching

\* The tool's call is a coroutine of the turn's: it goes on.
Fairness == WF_vars(SearchStep)

SessionsSpec == Init /\ [][Next]_vars /\ Fairness

-----------------------------------------------------------------------------
(* The properties                                                          *)

Times(keys, s) == Cardinality({i \in DOMAIN keys : keys[i][2] = s})

Keys == (0..clock) \X Sessions

\* What the readers have in hand is of this person's sessions and of moments past, no more of it
\* than was asked for, and of the turn's own agent, found outside
\* the turn's own session.
SessionsTypeOK ==
  /\ \A s \in Sessions : row[s].state \in {"none", "visible", "hidden"}
                         /\ row[s].updated \in 0..clock
  /\ touched \subseteq Sessions /\ back \subseteq touched
  /\ list.pc \in {"none", "asking", "over", "failed"} /\ list.shown \in Seq(Keys)
  /\ search.pc \in {"none", "asking", "getting", "messages", "over", "failed"}
  /\ \A keys \in {search.page, search.todo, search.found} :
       keys \in Seq(Keys) /\ \A i \in DOMAIN keys : AgentOf[keys[i][2]] = Agent
  /\ Times(search.found, Mine) = 0
  /\ search.read <= MaxSessions /\ Len(search.found) <= search.limit

\* A list read to its end has shown every session that was there from its beginning, as it was,
\* exactly once, wherever the others moved meanwhile.
ListsWhole ==
  list.pc = "over" => \A s \in Visible \ touched : Times(list.shown, s) = 1

\* No session is shown or found twice, unless its updated_at went back meanwhile.
NoneTwice ==
  \A s \in Sessions \ back : Times(list.shown, s) <= 1 /\ Times(search.found, s) <= 1

\* What holds at every moment of a reading page by page: the types, and that no session comes
\* twice, though sessions are renamed, asked in and deleted between the pages.
SessionsInv == SessionsTypeOK /\ NoneTwice

\* A search that answers has missed no session of its agent's that has the words and was there
\* from its beginning, as it was, but older ones than the last it found or read.
FindsTheNewest ==
  search.pc = "over" =>
    \A s \in Visible \ (touched \cup {Mine}) :
      AgentOf[s] = Agent /\ Where[s] \cap {"user", "assistant", "title"} # {}
        => \/ Times(search.found, s) = 1
           \/ Len(search.found) = search.limit
                /\ Below(Key(s), search.found[Len(search.found)])
           \/ search.read = MaxSessions /\ Below(Key(s), search.after)

\* A search is answered, however many of the sessions are of other agents, and however the
\* sessions move meanwhile.
SearchAnswers == search.pc # "none" ~> search.pc = "none"
=============================================================================
