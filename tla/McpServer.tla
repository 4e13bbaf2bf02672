----------------------------- MODULE McpServer -----------------------------
(***************************************************************************)
(* The MCP server (mcp/server.go): JSON-RPC over stdin and stdout, one     *)
(* request after the other, each a call of a tool on the store.  The       *)
(* client may send ahead; the server may be killed between what a tool     *)
(* does and its reply, and is then started anew by the client, which       *)
(* repeats what was not answered.                                          *)
(*                                                                         *)
(* One content stands for the argument of a tool: the text of a memory, of *)
(* a reminder or of a fact, or the name of a project.  Memories are known  *)
(* by their content, whose row has the id that the tools are given.        *)
(* memory_ask is the module Ask, the ranges of memory_timeline are dates   *)
(* as in Times, and memory_sessions lists what SessionDigest makes.        *)
(***************************************************************************)
EXTENDS Naturals, Sequences, FiniteSets

CONSTANTS
    Tool,        \* names of tools a client asks for, known and unknown
    Content,     \* arguments
    NoContent,   \* no argument
    MaxRequests, MaxKills  \* bounds

VARIABLES
    sent,      \* every request of the client, in order; its id is its place
    stdin,     \* the places of those the server has not yet read
    handling,  \* the request at work, with its reply once the tool is done; or NoRequest
    stdout,    \* the replies
    store,     \* [memories, states : sets of contents, reminders, queue : sequences of them]
    kills

mcpVars == <<sent, stdin, handling, stdout, store, kills>>

NoRequest == [id |-> 0, done |-> FALSE, reply |-> <<>>]
NoId == 0

McpInit ==
    /\ sent = <<>> /\ stdin = <<>> /\ handling = NoRequest /\ stdout = <<>>
    /\ store = [memories |-> {}, states |-> {}, reminders |-> <<>>, queue |-> <<>>] /\ kills = 0

\* What a client may send: a call of a tool, another method, known or not, a notification, or
\* a line that is no JSON.
Unargued == {"memory_list", "memory_timeline", "memory_sessions"}

Requests(n) ==
    [method : {"tools/call"}, id : {n}, tool : Tool \ Unargued, content : Content \cup {NoContent}]
    \cup [method : {"tools/call"}, id : {n}, tool : Tool \cap Unargued, content : {NoContent}]
    \cup [method : {"initialize", "prompts/list"}, id : {n}, tool : {""}, content : {NoContent}]
    \cup [method : {"notifications/cancelled", "garbage"}, id : {NoId}, tool : {""},
          content : {NoContent}]

\* of is a history variable: the request a reply is to.
Reply(n, id, kind, found) == [of |-> n, id |-> id, kind |-> kind, found |-> found]

-----------------------------------------------------------------------------

Send ==
    /\ Len(sent) < MaxRequests
    /\ \E r \in Requests(Len(sent) + 1) : sent' = Append(sent, r)
    /\ stdin' = Append(stdin, Len(sent) + 1)
    /\ UNCHANGED <<handling, stdout, store, kills>>

\* Run reads a line only when the reply to the one before is out.
ReadLine ==
    /\ handling = NoRequest /\ stdin # <<>>
    /\ handling' = [id |-> Head(stdin), done |-> FALSE, reply |-> <<>>] /\ stdin' = Tail(stdin)
    /\ UNCHANGED <<sent, stdout, store, kills>>

-----------------------------------------------------------------------------
(* The tools: what they tell, and what they make of the store s *)

Tells(s, found) == [kind |-> "ok", found |-> found, store |-> s]
Fails(s) == [kind |-> "error", found |-> {}, store |-> s]

toolSearch(s, c) == IF c = NoContent THEN Fails(s) ELSE Tells(s, {c} \cap s.memories)
toolList(s) == Tells(s, s.memories)

\* All is of today.
toolTimeline(s) == Tells(s, s.memories)

toolRead(s, c) == IF c \in s.memories THEN Tells(s, {c}) ELSE Fails(s)

\* A known content is the row it was.
toolWrite(s, c) ==
    IF c = NoContent THEN Fails(s) ELSE Tells([s EXCEPT !.memories = @ \cup {c}], {})

toolDelete(s, c) ==
    IF c \in s.memories THEN Tells([s EXCEPT !.memories = @ \ {c}], {}) ELSE Fails(s)

toolRemind(s, c) ==
    IF c = NoContent THEN Fails(s) ELSE Tells([s EXCEPT !.reminders = Append(@, c)], {})

\* Mutant: a project is told although no state of it is known.
StateOfAny(s, c) == Tells(s, IF c = NoContent THEN s.states ELSE {c})

toolStateGet(s, c) ==
    IF c = NoContent THEN Tells(s, s.states)
    ELSE IF c \in s.states THEN Tells(s, {c}) ELSE Fails(s)

toolStateSet(s, c) ==
    IF c = NoContent THEN Fails(s) ELSE Tells([s EXCEPT !.states = @ \cup {c}], {})

toolGraduate(s, c) ==
    IF c = NoContent THEN Tells(s, {s.queue[n] : n \in DOMAIN s.queue}) ELSE Tells([s EXCEPT !.queue = Append(@, c)], {})

toolSessions(s) == Tells(s, {})

Called(s, tool, c) ==
    CASE tool = "memory_search" -> toolSearch(s, c)
      [] tool = "memory_list" -> toolList(s)
      [] tool = "memory_timeline" -> toolTimeline(s)
      [] tool = "memory_read" -> toolRead(s, c)
      [] tool = "memory_write" -> toolWrite(s, c)
      [] tool = "memory_delete" -> toolDelete(s, c)
      [] tool = "memory_remind" -> toolRemind(s, c)
      [] tool = "memory_state_get" -> toolStateGet(s, c)
      [] tool = "memory_state_set" -> toolStateSet(s, c)
      [] tool = "memory_graduate" -> toolGraduate(s, c)
      [] tool = "memory_sessions" -> toolSessions(s)
      [] OTHER -> Fails(s)

-----------------------------------------------------------------------------
(* The loop *)

\* Run and handleToolsCall: the replies.  A method that is not known is told so only if there
\* is someone to tell.
Replies(n, r) ==
    CASE r.method = "garbage" -> <<Reply(n, NoId, "error", {})>>
      [] r.method = "initialize" -> <<Reply(n, r.id, "ok", {})>>
      [] r.method = "tools/call" ->
           LET called == Called(store, r.tool, r.content)
           IN  <<Reply(n, r.id, called.kind, called.found)>>
      [] OTHER -> IF r.id = NoId THEN <<>> ELSE <<Reply(n, r.id, "error", {})>>

Handle ==
    /\ handling # NoRequest /\ ~handling.done
    /\ LET r == sent[handling.id] IN
         /\ handling' = [handling EXCEPT !.done = TRUE, !.reply = Replies(handling.id, r)]
         /\ store' = IF r.method = "tools/call" THEN Called(store, r.tool, r.content).store ELSE store
    /\ UNCHANGED <<sent, stdin, stdout, kills>>

WriteJSON ==
    /\ handling.done
    /\ stdout' = stdout \o handling.reply /\ handling' = NoRequest
    /\ UNCHANGED <<sent, stdin, store, kills>>

\* External: the client starts the server anew, and sends again what it has no reply to.
Unanswered == {n \in DOMAIN sent : sent[n].id # NoId /\ \A m \in DOMAIN stdout : stdout[m].id # n}

InOrder(places) ==
    [i \in 1 .. Cardinality(places) |->
       CHOOSE n \in places : Cardinality({m \in places : m < n}) = i - 1]

Restart ==
    /\ handling # NoRequest \/ stdin # <<>>
    /\ kills < MaxKills /\ kills' = kills + 1
    /\ handling' = NoRequest /\ stdin' = InOrder(Unanswered)
    /\ UNCHANGED <<sent, stdout, store>>

McpNext == Send \/ ReadLine \/ Handle \/ WriteJSON \/ Restart

McpSpec == McpInit /\ [][McpNext]_mcpVars

-----------------------------------------------------------------------------
(* Properties *)

\* The calls of tools with an argument among the first n requests.
By(requests, n, tools, c) ==
    {k \in 1 .. n : requests[k].tool \in tools /\ requests[k].content = c}

\* The memories whose last write came after their last delete, and the projects whose state
\* was set.
WrittenBy(requests, n) ==
    {c \in Content :
       LET about == By(requests, n, {"memory_write", "memory_delete"}, c)
       IN  \E k \in about : requests[k].tool = "memory_write" /\ \A j \in about : j <= k}
SetBy(requests, n) == {c \in Content : By(requests, n, {"memory_state_set"}, c) # {}}

\* What a tool tells is what the requests before it made.
AnswerIsRight(requests, answer) ==
    LET r == requests[answer.of]
        written == WrittenBy(requests, answer.of - 1)
        set == SetBy(requests, answer.of - 1)
    IN  /\ answer.id = r.id /\ (r.id = NoId => r.method = "garbage")
        /\ r.tool \in {"memory_list", "memory_timeline"} => answer.found = written
        /\ r.tool \in {"memory_read", "memory_search"} => answer.found = written \cap {r.content}
        /\ r.tool = "memory_state_get" =>
             answer.found = IF r.content = NoContent THEN set ELSE set \cap {r.content}

Made(list, c) == Cardinality({n \in DOMAIN list : list[n] = c})
Asked(tool, c) == Cardinality(By(sent, Len(sent), {tool}, c))
Promised(tool, c) ==
    Cardinality({n \in DOMAIN stdout : sent[stdout[n].of].tool = tool
                                       /\ sent[stdout[n].of].content = c})

\* A request with an id is answered once and in its order, and nothing else is, but a line
\* that is no JSON.  What a tool tells is right, although the server was killed and requests
\* were repeated.  And what was promised is there, a reminder or a fact for each that was
\* answered, and another only for a repeated one.
AnsweredInOrder ==
    /\ \A m, n \in DOMAIN stdout : m < n => stdout[m].of < stdout[n].of
    /\ \A n \in DOMAIN stdout : AnswerIsRight(sent, stdout[n])
    /\ \A c \in Content :
         /\ Made(store.reminders, c) \in
              Promised("memory_remind", c) .. Asked("memory_remind", c) + kills
         /\ Made(store.queue, c) \in
              Promised("memory_graduate", c) .. Asked("memory_graduate", c) + kills
=============================================================================
