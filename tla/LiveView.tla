------------------------------- MODULE LiveView -------------------------------
(***************************************************************************)
(* The sessions page of an agent in one browser tab: for a session that is *)
(* still going it shows what a web socket pushes, for an ended one what a  *)
(* query fetched (web/src/features/agent/SessionsTab.tsx and               *)
(* web/src/lib/agent-api.ts), and the server's side of the socket, a loop  *)
(* that asks the agent's database every two seconds and pushes the whole   *)
(* list when it has changed (src/server/routes/agent-data.ts).             *)
(*                                                                         *)
(* Messages are only ever added to a session; a list of them is its        *)
(* length and the session it is from.                                      *)
(***************************************************************************)
EXTENDS Naturals, Sequences

CONSTANTS
  Chats,      \* the agent's sessions
  NoChat,     \* in place of a session where there is none
  MaxMessages,\* bound: messages of one session
  MaxFails,   \* bound: queries that fail and sockets that break
  MaxClicks   \* bound: selections

ASSUME ViewAssumption ==
  NoChat \notin Chats /\ {MaxMessages, MaxFails, MaxClicks} \subseteq Nat

VARIABLES
  db,         \* state.db: session -> its messages, and whether it has ended
  known,      \* the sessions the page's list shows as ended
  selected,   \* selectedId
  live,       \* the state of useLiveAgentMessages: the list it holds
  snap,       \* session -> what the messages query has fetched
  ws,         \* the current socket and the server's loop behind it
  inbox,      \* lists pushed and not yet received
  left        \* fails and clicks left

viewVars == <<db, known, selected, live, snap, ws, inbox, left>>

\* The first `count` messages of `chat`.
List == [chat : Chats \cup {NoChat}, count : 0..MaxMessages]

Nothing == [chat |-> NoChat, count |-> 0]

\* key stands for lastCount and lastTs: -1 before the first push is `sent`
\* being FALSE.
NoSocket == [pc |-> "none", chat |-> NoChat, sent |-> FALSE, key |-> 0]

ViewTypeOK ==
  /\ db \in [Chats -> [count : 0..MaxMessages, ended : BOOLEAN]]
  /\ known \subseteq Chats
  /\ selected \in Chats \cup {NoChat}
  /\ live \in List
  /\ snap \in [Chats -> 0..MaxMessages]
  /\ ws \in [pc : {"none", "check", "loop", "backoff"}, chat : Chats \cup {NoChat},
             sent : BOOLEAN, key : 0..MaxMessages]
  /\ inbox \in Seq(List)
  /\ left \in [fails : 0..MaxFails, clicks : 0..MaxClicks]

ViewInit ==
  /\ db = [c \in Chats |-> [count |-> 0, ended |-> FALSE]]
  /\ known = {}
  /\ selected = NoChat
  /\ live = Nothing
  /\ snap = [c \in Chats |-> 0]
  /\ ws = NoSocket
  /\ inbox = <<>>
  /\ left = [fails |-> MaxFails, clicks |-> MaxClicks]

-----------------------------------------------------------------------------
(* The agent *)

AddMessage(c) ==
  /\ ~db[c].ended
  /\ db[c].count < MaxMessages
  /\ db' = [db EXCEPT ![c].count = @ + 1]
  /\ UNCHANGED <<known, selected, live, snap, ws, inbox, left>>

EndChat(c) ==
  /\ ~db[c].ended
  /\ db' = [db EXCEPT ![c].ended = TRUE]
  /\ UNCHANGED <<known, selected, live, snap, ws, inbox, left>>

-----------------------------------------------------------------------------
(* useLiveAgentMessages *)

\* The effect's dependencies: the session, and whether it is active.
Active(sel, ended) == sel # NoChat /\ sel \notin ended

\* Cleanup and effect after a render whose dependencies differ: the old socket
\* is closed and heard no more; a list stays unless there is nothing to show.
Rerun(sel, ended) ==
  IF sel = selected /\ Active(sel, ended) = Active(selected, known)
  THEN UNCHANGED <<ws, live, inbox>>
  ELSE /\ inbox' = <<>>
       /\ IF Active(sel, ended)
            THEN /\ ws' = [NoSocket EXCEPT !.pc = "check", !.chat = sel]
                 /\ UNCHANGED live
            ELSE /\ ws' = NoSocket
                 /\ live' = Nothing

\* The user selects a session in the list.
Select(c) ==
  /\ left.clicks > 0
  /\ selected' = c
  /\ Rerun(c, known)
  /\ left' = [left EXCEPT !.clicks = @ - 1]
  /\ UNCHANGED <<db, known, snap>>

\* The list of sessions is fetched again, every 15 s.
RefetchSessions ==
  /\ known' = {c \in Chats : db[c].ended}
  /\ Rerun(selected, known')
  /\ UNCHANGED <<db, selected, snap, left>>

\* onmessage
Receive ==
  /\ inbox # <<>>
  /\ live' = Head(inbox)
  /\ inbox' = Tail(inbox)
  /\ UNCHANGED <<db, known, selected, snap, ws, left>>

\* Mutant: the loop behind the new socket goes on from what was pushed last.
ReconnectRemembering ==
  /\ ws.pc = "backoff"
  /\ ws' = [ws EXCEPT !.pc = "check"]
  /\ UNCHANGED <<db, known, selected, live, snap, inbox, left>>

\* onclose: a new socket after the backoff, with a loop that knows nothing.
Reconnect ==
  /\ ws.pc = "backoff"
  /\ ws' = [NoSocket EXCEPT !.pc = "check", !.chat = ws.chat]
  /\ UNCHANGED <<db, known, selected, live, snap, inbox, left>>

\* useAgentMessages: the query of an ended session, every 15 s.
RefetchMessages ==
  /\ selected # NoChat /\ ~Active(selected, known)
  /\ \/ /\ snap' = [snap EXCEPT ![selected] = db[selected].count]
        /\ UNCHANGED left
     \/ /\ left.fails > 0
        /\ snap' = [snap EXCEPT ![selected] = 0]
        /\ left' = [left EXCEPT !.fails = @ - 1]
  /\ snap' # snap
  /\ UNCHANGED <<db, known, selected, live, ws, inbox>>

-----------------------------------------------------------------------------
(* The socket's route *)

\* agentExists has answered; the loop starts.
BeginLoop ==
  /\ ws.pc = "check"
  /\ ws' = [ws EXCEPT !.pc = "loop"]
  /\ UNCHANGED <<db, known, selected, live, snap, inbox, left>>

\* Whether a result of n messages differs from the last one pushed.
Pushed(n) == ~ws.sent \/ n # ws.key

\* pollOnce: a query that fails has an empty result like any other.
Poll ==
  /\ ws.pc = "loop"
  /\ \E failed \in BOOLEAN :
       LET n == IF failed THEN 0 ELSE db[ws.chat].count IN
         /\ failed => left.fails > 0
         /\ left' = IF failed THEN [left EXCEPT !.fails = @ - 1] ELSE left
         /\ IF Pushed(n)
              THEN /\ ws' = [ws EXCEPT !.sent = TRUE, !.key = n]
                   /\ inbox' = Append(inbox, [chat |-> ws.chat, count |-> n])
              ELSE UNCHANGED <<ws, inbox>>
  /\ UNCHANGED <<db, known, selected, live, snap>>

\* The connection breaks; what was on its way is lost.
Drop ==
  /\ ws.pc \in {"check", "loop"}
  /\ left.fails > 0
  /\ left' = [left EXCEPT !.fails = @ - 1]
  /\ ws' = [ws EXCEPT !.pc = "backoff"]
  /\ inbox' = <<>>
  /\ UNCHANGED <<db, known, selected, live, snap>>

-----------------------------------------------------------------------------

PageStep == RefetchSessions \/ RefetchMessages \/ Receive \/ Reconnect
LoopStep == BeginLoop \/ Poll

ViewNext ==
  \/ \E c \in Chats : AddMessage(c) \/ EndChat(c) \/ Select(c)
  \/ PageStep
  \/ LoopStep
  \/ Drop

\* The timers of the page and of the loop fire, and sockets deliver.
ViewFairness ==
  /\ WF_viewVars(RefetchSessions)
  /\ WF_viewVars(RefetchMessages)
  /\ WF_viewVars(Receive)
  /\ WF_viewVars(Reconnect)
  /\ WF_viewVars(BeginLoop)
  /\ WF_viewVars(Poll)

-----------------------------------------------------------------------------
(* Properties *)

Shown ==
  IF Active(selected, known) THEN live ELSE [chat |-> selected, count |-> snap[selected]]

\* When the clicks and the failures have come to an end, the page ends up with
\* the messages of the session that is selected, all of them: no pushed list,
\* failed query, reconnect or change from live to ended leaves it behind.
PageCatchesUp ==
  <>[](selected # NoChat =>
         Shown = [chat |-> selected, count |-> db[selected].count])

\* What agent-api.ts says of the list: it "Falls back to empty array until the
\* first message arrives".  It is more than the code does: from one live session
\* to another the old list stays until the first push.
LiveIsOfSelected ==
  Active(selected, known) => live.chat \in {selected, NoChat}

=============================================================================
