---------------------------- MODULE EventStream ----------------------------
(***************************************************************************)
(* How a page follows the queue: changes are published as contentless      *)
(* tokens to a bounded queue per subscriber, the stream handler turns      *)
(* tokens into snapshots read from the database, and the page shows what   *)
(* arrives, polls while it is disconnected, and reconnects.                *)
(*                                                                         *)
(* The state of the queue is only told apart by its version; connections   *)
(* are numbered in the order in which the page opens them.                 *)
(***************************************************************************)
EXTENDS Naturals, Sequences, FiniteSets

CONSTANTS
  Conns,       \* connections, 1..N: one more than the link may break
  Polls,       \* polling chains of the page
  NULL,
  Capacity,    \* maxsize of a subscriber's queue
  MaxVersion   \* bound on the changes of the queue

ASSUME StreamAssumption ==
  /\ Conns = 1..Cardinality(Conns) /\ 1 \in Conns
  /\ Capacity \in Nat \ {0} /\ MaxVersion \in Nat \ {0}
  /\ NULL \notin Polls

VARIABLES
  \* the queue in the database, and the requests that have committed a change
  \* but not yet notified
  version, owed,
  announced,          \* history: version at the last notification
  \* per connection: where its handler is, its subscription, its queue, what
  \* is on its way to the page, whether it is broken
  place, subscribed, tokens, wire, broken,
  \* the page: state shown (0: none), connection and its readyState, polling
  \* chains with their answers, and the chain whose timer pollTimer names
  shown, conn, link, chain, answer, pollTimer,
  \* a get that the handler of the page's connection has given up still waits
  \* for a token
  orphan,
  \* history: the last thing shown is an answer to a poll, older than what the
  \* open stream had brought before; such a get has taken a token of the page's
  \* connection since its last snapshot
  late, swallowed

serverVars == <<version, owed, announced>>
connVars   == <<place, subscribed, tokens, wire, broken>>
pollVars   == <<chain, answer, pollTimer>>
getVars  == <<orphan, swallowed>>
vars == <<serverVars, connVars, shown, late, conn, link, pollVars, getVars>>

Versions == 1..MaxVersion
Chains   == {"off", "timer", "asked", "answered"}

Init ==
  /\ version = 1 /\ owed = 0 /\ announced = 0
  /\ place = [c \in Conns |-> IF c = 1 THEN "start" ELSE "none"]
  /\ subscribed = {} /\ tokens = [c \in Conns |-> 0]
  /\ wire = [c \in Conns |-> <<>>] /\ broken = {}
  /\ shown = 0 /\ late = FALSE /\ conn = 1 /\ link = "connecting"
  /\ orphan = FALSE /\ swallowed = FALSE
  /\ chain = [p \in Polls |-> "off"] /\ answer = [p \in Polls |-> 0] /\ pollTimer = NULL

-----------------------------------------------------------------------------
(***************************************************************************)
(* Changes of the queue.                                                   *)
(***************************************************************************)
\* A request commits under _queue_lock and notifies after it has released it;
\* so does the tick in which a run has ended.
Change ==
  /\ version < MaxVersion
  /\ version' = version + 1 /\ owed' = owed + 1
  /\ UNCHANGED <<announced, connVars, shown, late, conn, link, pollVars, getVars>>

\* The scheduler starts an item, finds nothing to start and goes idle, enters
\* the error state or leaves it: nobody is notified.
SilentChange ==
  /\ version < MaxVersion
  /\ version' = version + 1
  /\ UNCHANGED <<owed, announced, connVars, shown, late, conn, link, pollVars, getVars>>

\* Mutant: put() without a bound.
Publish_Unbounded == [c \in Conns |-> IF c \in subscribed THEN tokens[c] + 1 ELSE tokens[c]]

\* _publish: a token for each subscriber whose queue is not full.
Publish == [c \in Conns |-> IF c \in subscribed /\ tokens[c] < Capacity
                            THEN tokens[c] + 1 ELSE tokens[c]]

Notify ==
  /\ owed > 0 /\ owed' = owed - 1
  /\ tokens' = Publish /\ announced' = version
  /\ UNCHANGED <<version, place, subscribed, wire, broken, shown, late, conn, link, pollVars, getVars>>

-----------------------------------------------------------------------------
(***************************************************************************)
(* _event_stream, one handler per connection.                              *)
(***************************************************************************)
Move(c, from, to) == place[c] = from /\ place' = [place EXCEPT ![c] = to]

\* Mutant: no snapshot before the first token.
Subscribe_NoSnapshot(c) ==
  /\ Move(c, "start", "wait") /\ subscribed' = subscribed \cup {c}
  /\ UNCHANGED <<serverVars, tokens, wire, broken, shown, late, conn, link, pollVars, getVars>>

Subscribe(c) ==
  /\ Move(c, "start", "read") /\ subscribed' = subscribed \cup {c}
  /\ UNCHANGED <<serverVars, tokens, wire, broken, shown, late, conn, link, pollVars, getVars>>

\* Reads the queue and yields it; what the page has closed reaches nobody.
Snapshot(c) ==
  /\ Move(c, "read", "wait")
  /\ wire' = IF c = conn /\ link # "closed" THEN [wire EXCEPT ![c] = Append(@, version)] ELSE wire
  /\ swallowed' = (swallowed /\ c # conn)
  /\ UNCHANGED <<serverVars, subscribed, tokens, broken, shown, late, conn, link, pollVars, orphan>>

Take(c) ==
  /\ tokens[c] > 0 /\ Move(c, "wait", "read")
  /\ tokens' = [tokens EXCEPT ![c] = @ - 1]
  /\ UNCHANGED <<serverVars, subscribed, wire, broken, shown, late, conn, link, pollVars, getVars>>

\* wait_for gives up after ten seconds, but the get goes on in its thread: one
\* that started late (all threads of the executor were taken) or waits longer.
GiveUp ==
  /\ place[conn] = "wait" /\ ~orphan
  /\ orphan' = TRUE
  /\ UNCHANGED <<serverVars, connVars, shown, late, conn, link, pollVars, swallowed>>

\* Its token reaches nobody.
Swallow ==
  /\ orphan /\ tokens[conn] > 0
  /\ orphan' = FALSE /\ swallowed' = TRUE
  /\ tokens' = [tokens EXCEPT ![conn] = @ - 1]
  /\ UNCHANGED <<serverVars, place, subscribed, wire, broken, shown, late, conn, link, pollVars>>

Expire ==
  /\ orphan /\ orphan' = FALSE
  /\ UNCHANGED <<serverVars, connVars, shown, late, conn, link, pollVars, swallowed>>

\* Mutant: no finally clause.
Leave_KeepsQueue(c) ==
  /\ c \in broken /\ Move(c, "wait", "closed")
  /\ UNCHANGED <<serverVars, subscribed, tokens, wire, broken, shown, late, conn, link, pollVars, getVars>>

\* The disconnection is seen at the next token or keepalive.  A keepalive is a
\* comment: it carries no state and changes none here.
Leave(c) ==
  /\ c \in broken /\ Move(c, "wait", "closed")
  /\ subscribed' = subscribed \ {c}
  /\ UNCHANGED <<serverVars, tokens, wire, broken, shown, late, conn, link, pollVars, getVars>>

Handler(c) == Subscribe(c) \/ Snapshot(c) \/ Take(c)

-----------------------------------------------------------------------------
(***************************************************************************)
(* The network and the page (useQueueStream).                              *)
(***************************************************************************)
Break ==
  /\ conn + 1 \in Conns /\ conn \notin broken /\ link # "closed"
  /\ broken' = broken \cup {conn}
  /\ UNCHANGED <<serverVars, place, subscribed, tokens, wire, shown, late, conn, link, pollVars, getVars>>

\* stopSlowPoll clears the timer; a poll that has been sent goes on.
OnOpen ==
  /\ link = "connecting" /\ conn \notin broken
  /\ link' = "open" /\ pollTimer' = NULL
  /\ chain' = [p \in Polls |-> IF p = pollTimer /\ chain[p] = "timer" THEN "off" ELSE chain[p]]
  /\ UNCHANGED <<serverVars, connVars, shown, late, conn, answer, getVars>>

OnQueue ==
  /\ link = "open" /\ wire[conn] # <<>>
  /\ shown' = Head(wire[conn]) /\ late' = FALSE
  /\ wire' = [wire EXCEPT ![conn] = Tail(@)]
  /\ UNCHANGED <<serverVars, place, subscribed, tokens, broken, conn, link, pollVars, getVars>>

\* startSlowPoll does nothing while a timer is known.  (A page has as many
\* chains as it needs, the model those in Polls.)
StartSlowPoll ==
  IF pollTimer # NULL \/ \A p \in Polls : chain[p] # "off" THEN UNCHANGED pollVars
  ELSE \E p \in Polls : /\ chain[p] = "off"
                        /\ chain' = [chain EXCEPT ![p] = "timer"]
                        /\ pollTimer' = p /\ UNCHANGED answer

OnError ==
  /\ link \in {"connecting", "open"} /\ conn \in broken
  /\ link' = "closed" /\ StartSlowPoll
  /\ wire' = [wire EXCEPT ![conn] = <<>>]
  /\ UNCHANGED <<serverVars, place, subscribed, tokens, broken, shown, late, conn, getVars>>

\* The reconnect timer.
Reconnect ==
  /\ link = "closed" /\ conn + 1 \in Conns
  /\ conn' = conn + 1 /\ link' = "connecting"
  /\ place' = [place EXCEPT ![conn + 1] = "start"]
  /\ orphan' = FALSE /\ swallowed' = FALSE
  /\ UNCHANGED <<serverVars, subscribed, tokens, wire, broken, shown, late, pollVars>>

Fire(p) ==
  /\ chain[p] = "timer"
  /\ chain' = [chain EXCEPT ![p] = "asked"]
  /\ UNCHANGED <<serverVars, connVars, shown, late, conn, link, answer, pollTimer, getVars>>

\* The server reads the queue for a poll.
Answer(p) ==
  /\ chain[p] = "asked"
  /\ chain' = [chain EXCEPT ![p] = "answered"]
  /\ answer' = [answer EXCEPT ![p] = version]
  /\ UNCHANGED <<serverVars, connVars, shown, late, conn, link, pollTimer, getVars>>

\* After an answer or an error: the next timer, unless the stream is open.
NextPoll(p) ==
  /\ chain' = [chain EXCEPT ![p] = IF link = "open" THEN "off" ELSE "timer"]
  /\ pollTimer' = IF link = "open" THEN pollTimer ELSE p
  /\ answer' = [answer EXCEPT ![p] = 0]
  /\ UNCHANGED <<serverVars, connVars, conn, link, getVars>>

Arrive(p) ==
  /\ chain[p] = "answered" /\ NextPoll(p)
  /\ shown' = answer[p] /\ late' = (late \/ (link = "open" /\ answer[p] < shown))

PollFails(p) == chain[p] \in {"asked", "answered"} /\ NextPoll(p) /\ UNCHANGED <<shown, late>>

-----------------------------------------------------------------------------
Page == OnOpen \/ OnQueue \/ OnError \/ Reconnect

Next ==
  \/ Change \/ SilentChange \/ Notify \/ Break \/ Page
  \/ \E c \in Conns : Handler(c) \/ Leave(c)
  \/ GiveUp \/ Swallow \/ Expire
  \/ \E p \in Polls : Fire(p) \/ Answer(p) \/ Arrive(p) \/ PollFails(p)

Spec == Init /\ [][Next]_vars

\* Notifications follow their commits, handlers and the page's events and
\* timers run, a keepalive comes every few seconds.  The network owes nothing
\* to a poll, and the link breaks finitely often.
Fairness ==
  /\ WF_vars(Notify) /\ WF_vars(Page)
  /\ \A c \in Conns : WF_vars(Handler(c)) /\ WF_vars(Leave(c))

FairSpec == Spec /\ Fairness

-----------------------------------------------------------------------------
TypeOK ==
  /\ version \in Versions /\ owed \in 0..MaxVersion /\ announced \in 0..MaxVersion
  /\ place \in [Conns -> {"none", "start", "read", "wait", "closed"}]
  /\ subscribed \subseteq Conns /\ tokens \in [Conns -> 0..Capacity]
  /\ wire \in [Conns -> Seq(Versions)] /\ broken \subseteq Conns
  /\ shown \in 0..MaxVersion /\ conn \in Conns
  /\ late \in BOOLEAN /\ swallowed \in BOOLEAN /\ orphan \in BOOLEAN
  /\ link \in {"connecting", "open", "closed"}
  /\ chain \in [Polls -> Chains] /\ answer \in [Polls -> 0..MaxVersion] /\ pollTimer \in Polls \cup {NULL}

\* A change that was announced is shown sooner or later, it or a later one,
\* and stays: although tokens are dropped when a queue is full, snapshots and
\* answers overtake each other and the link breaks.  Only two things prevent
\* it, until the next token: the answer to a poll that was sent before the
\* stream opened hides it again, or a get given up has taken the token.
EventuallyShown ==
  \A v \in Versions : (announced >= v) ~> (shown >= v \/ late \/ swallowed)

\* A broken connection does not keep its queue: the handler leaves and
\* unsubscribes.
Unsubscribed == \A c \in Conns : (c \in broken /\ c \in subscribed) ~> (c \notin subscribed)
=============================================================================
