------------------------------ MODULE AgentLink ------------------------------
(***************************************************************************)
(* The ssh sessions the dashboard shares between its requests to one agent *)
(* (src/server/agent-data-source.ts).  A helper call takes the session in  *)
(* the cache, or opens one and puts it there; it runs a command and gets   *)
(* the answer.  Two calls that miss at the same time both open a session,  *)
(* and a call that finds the cached one expired closes it even if another  *)
(* call is in the middle of a command.                                     *)
(*                                                                         *)
(* Agents do not share cache entries: one agent is enough.                 *)
(***************************************************************************)
EXTENDS Naturals, FiniteSets

CONSTANTS
  Reqs,      \* requests of the browsers
  Sessions,  \* ssh sessions; beyond them the box refuses connections
  NoSes,     \* in place of a session where there is none
  MaxBreaks  \* bound: connections that break

ASSUME LinkAssumption == NoSes \notin Sessions /\ MaxBreaks \in Nat

VARIABLES
  cache,     \* sessionCache: the session and whether it is within its 30 s
  open,      \* the sessions that are connected
  call,      \* the helper calls of the requests
  breaks,    \* how many connections broke
  raced,     \* history: two calls have been connecting at the same time
  cut        \* history: a session was gone in the middle of a write

linkVars == <<cache, open, call, breaks, raced, cut>>

\* A request has at most two helper calls under way.
Calls == Reqs \X {1, 2}

\* Each helper with the commands it runs one after the other, each on a
\* session of its own asking.
Commands == [read |-> 1, list |-> 1, cmd |-> 1, model |-> 1, details |-> 1,
             sqlite |-> 2, listRead |-> 2, write |-> 1]

Helpers == DOMAIN Commands

\* Not always made: the configured model is cached for five minutes, and
\* details are asked for only if there is something to detail.
Optional == {"model", "details"}

Empty == [ses |-> NoSes, fresh |-> FALSE]

NoCall == [pc |-> "none", helper |-> "read", left |-> 0, ses |-> NoSes, ok |-> FALSE]

LinkTypeOK ==
  /\ cache \in [ses : Sessions \cup {NoSes}, fresh : BOOLEAN]
  /\ open \subseteq Sessions
  /\ call \in [Calls -> [pc : {"none", "start", "connect", "exec", "put", "mv",
                              "answer", "done"},
                         helper : Helpers, left : 0..1,
                         ses : Sessions \cup {NoSes}, ok : BOOLEAN]]
  /\ breaks \in 0..MaxBreaks
  /\ {raced, cut} \subseteq BOOLEAN

LinkInit ==
  /\ cache = Empty
  /\ open = {}
  /\ call = [c \in Calls |-> NoCall]
  /\ breaks = 0
  /\ raced = FALSE
  /\ cut = FALSE

-----------------------------------------------------------------------------

Begun(h) == [pc |-> "start", helper |-> h, left |-> Commands[h] - 1,
             ses |-> NoSes, ok |-> FALSE]

Skipped(h) == [Begun(h) EXCEPT !.pc = "done", !.ok = TRUE]

\* The call after a command: on to its next command, or done.
After(c, ok) ==
  IF call[c].left > 0 /\ (ok \/ call[c].helper = "listRead")
  THEN [call[c] EXCEPT !.pc = "start", !.left = @ - 1, !.ses = NoSes]
  ELSE [call[c] EXCEPT !.pc = "done", !.ses = NoSes, !.ok = ok]

Busy(s) == \E c \in Calls : call[c].ses = s

\* Mutant: an expired session is forgotten, not closed.
AcquireNoDispose(c) ==
  /\ call[c].pc = "start"
  /\ IF cache.fresh
       THEN /\ call' = [call EXCEPT ![c].pc = "exec", ![c].ses = cache.ses]
            /\ UNCHANGED <<cache, open>>
       ELSE /\ call' = [call EXCEPT ![c].pc = "connect"]
            /\ cache' = Empty
            /\ UNCHANGED open
  /\ raced' = (raced \/ (~cache.fresh /\ \E d \in Calls : call[d].pc = "connect"))
  /\ UNCHANGED <<breaks, cut>>

\* getOrCreateCacheEntry up to its first await.
Acquire(c) ==
  /\ call[c].pc = "start"
  /\ IF cache.fresh
       THEN /\ call' = [call EXCEPT ![c].pc = "exec", ![c].ses = cache.ses]
            /\ UNCHANGED <<cache, open>>
       ELSE /\ call' = [call EXCEPT ![c].pc = "connect"]
            /\ cache' = Empty
            /\ open' = open \ {cache.ses}
  /\ raced' = (raced \/ (~cache.fresh /\ \E d \in Calls : call[d].pc = "connect"))
  /\ UNCHANGED <<breaks, cut>>

\* Sessions nothing refers to; one is as good as another.
Unused == {s \in Sessions \ open : s # cache.ses /\ ~Busy(s)}

\* The new session takes the place of whatever another miss has put there.
Connect(c) ==
  /\ call[c].pc = "connect"
  /\ Unused # {}
  /\ LET s == CHOOSE s \in Unused : TRUE IN
       /\ open' = open \cup {s}
       /\ cache' = [ses |-> s, fresh |-> TRUE]
       /\ call' = [call EXCEPT ![c].pc = "exec", ![c].ses = s]
  /\ UNCHANGED <<breaks, raced, cut>>

\* The record or its key is gone, or the box cannot be reached.
ConnectFails(c) ==
  /\ call[c].pc = "connect"
  /\ call' = [call EXCEPT ![c] = After(c, FALSE)]
  /\ UNCHANGED <<cache, open, breaks, raced, cut>>

\* The command runs on the box; its effect is conjoined where it has one.
Run(c) ==
  /\ call[c].pc = "exec"
  /\ call[c].helper # "write"
  /\ call[c].ses \in open
  /\ call' = [call EXCEPT ![c].pc = "answer"]
  /\ UNCHANGED <<cache, open, breaks, raced, cut>>

\* The path of python3 is known from an earlier query on the session.
SkipPython(c) ==
  /\ call[c].pc = "exec"
  /\ call[c].helper = "sqlite" /\ call[c].left = 1
  /\ call' = [call EXCEPT ![c] = After(c, TRUE)]
  /\ UNCHANGED <<cache, open, breaks, raced, cut>>

\* The command cannot be sent, or the upload breaks off.
Refused(c) ==
  /\ call[c].pc \in {"exec", "put", "mv"}
  /\ call[c].ses \notin open
  /\ call' = [call EXCEPT ![c] = After(c, FALSE)]
  /\ cut' = (cut \/ call[c].helper = "write")
  /\ UNCHANGED <<cache, open, breaks, raced>>

\* The channel closes; on a session closed meanwhile the output is cut off
\* and there is no exit code.
Answer(c) ==
  /\ call[c].pc = "answer"
  /\ call' = [call EXCEPT ![c] = After(c, call[c].ses \in open)]
  /\ UNCHANGED <<cache, open, breaks, raced, cut>>

\* 30 s after the entry was made.
Expire ==
  /\ cache.fresh
  /\ cache' = [cache EXCEPT !.fresh = FALSE]
  /\ UNCHANGED <<open, call, breaks, raced, cut>>

\* A dead session stays in the cache.
Break ==
  /\ breaks < MaxBreaks
  /\ \E s \in open : open' = open \ {s}
  /\ breaks' = breaks + 1
  /\ UNCHANGED <<cache, call, raced, cut>>

-----------------------------------------------------------------------------

\* As long as no two calls were connecting at the same time, the only open
\* session is the one in the cache: expired ones have been closed.  With two
\* misses at once, as every page that asks for two things over a cold cache
\* makes them, the first session is dropped from the cache unclosed.
OnlyCachedOpen == ~raced => open \subseteq {cache.ses}

=============================================================================
