-------------------------- MODULE EventStreamProofs --------------------------
(***************************************************************************)
(* Proofs about the event stream, for every number of connections, polling *)
(* chains and changes, and every capacity of a subscriber's queue.  That a *)
(* change is shown in the end is liveness; its safety core is proved here: *)
(* when nothing is left to be done for an open page, the page is current.  *)
(***************************************************************************)
EXTENDS EventStream, Integers, SequenceTheorems, TLAPS

\* The page is open, its handler waits without a token, nothing is on its way,
\* and neither of the two exceptions of EventuallyShown holds.
Quiet == /\ link = "open" /\ place[conn] = "wait" /\ tokens[conn] = 0 /\ wire[conn] = <<>>
         /\ ~late /\ ~swallowed

\* A quiet page shows the queue as it was at the last notification or later.
QuietIsCurrent == Quiet => shown >= announced

\* Each change is owed at most one notification, and only changes are announced.
Bounded == owed < version /\ announced <= version

\* A handler that reads or waits is subscribed.
Subscribed == \A c \in Conns : place[c] \in {"read", "wait"} => c \in subscribed

\* What the handler of the page's connection has sent last, or the page shows
\* of it, is no older than the last notification, unless a token is there to
\* make it read again.
Latest(s) == s[Len(s)]
Sent ==
  link # "closed" /\ place[conn] = "wait" =>
    /\ wire[conn] = <<>> => link = "open"
    /\ tokens[conn] = 0 /\ ~swallowed =>
         /\ wire[conn] # <<>> => Latest(wire[conn]) >= announced
         /\ wire[conn] = <<>> => late \/ shown >= announced

IInv == TypeOK /\ Bounded /\ Subscribed /\ Sent

-----------------------------------------------------------------------------
(***************************************************************************)
(* Sequences.                                                              *)
(***************************************************************************)
\* The latest element of a sequence is the one appended.
LEMMA LatestOfAppend ==
  ASSUME NEW S, NEW s \in Seq(S), NEW x \in S
  PROVE  Append(s, x) \in Seq(S) /\ Append(s, x) # <<>> /\ Latest(Append(s, x)) = x
  BY DEF Latest

\* Without its head a sequence has the same latest element, or is empty.
LEMMA LatestOfTail ==
  ASSUME NEW S, NEW s \in Seq(S), s # <<>>
  PROVE  /\ Head(s) \in S /\ Tail(s) \in Seq(S)
         /\ Tail(s) = <<>> => Latest(s) = Head(s)
         /\ Tail(s) # <<>> => Latest(Tail(s)) = Latest(s)
<1> DEFINE t == Tail(s)
<1>1. /\ Head(s) \in S /\ t \in Seq(S) /\ Len(t) = Len(s) - 1
      /\ \A k \in 1..Len(t) : t[k] = s[k + 1]
  BY HeadTailProperties
<1>2. Head(s) = s[1] /\ Len(s) \in Nat \ {0}
  BY EmptySeq
<1> HIDE DEF t
<1>3. t = <<>> => Latest(s) = Head(s)
  <2>1. t = <<>> => Len(t) = 0
    BY EmptySeq
  <2> QED BY <1>1, <1>2, <2>1 DEF Latest
<1>4. t # <<>> => Latest(t) = Latest(s)
  <2>1. t # <<>> => Len(t) \in Nat \ {0}
    BY <1>1, EmptySeq
  <2>2. t # <<>> => t[Len(t)] = s[Len(t) + 1] /\ Len(t) + 1 = Len(s)
    BY <1>1, <1>2, <2>1
  <2> QED BY <2>2 DEF Latest
<1> QED BY <1>1, <1>3, <1>4 DEF t

-----------------------------------------------------------------------------
(***************************************************************************)
(* Every step preserves the invariant.                                     *)
(***************************************************************************)
\* What these proofs use of the constants.
LEMMA Constants == Capacity \in Nat \ {0} /\ MaxVersion \in Nat \ {0} /\ NULL \notin Polls
  BY StreamAssumption DEF StreamAssumption

USE Constants

\* A notification leaves a token with every subscriber, new or old.
LEMMA PublishToken ==
  ASSUME TypeOK
  PROVE  /\ Publish \in [Conns -> 0..Capacity]
         /\ \A c \in subscribed : Publish[c] > 0
  BY DEF TypeOK, Publish

\* Every step keeps the types and the counts of changes.
LEMMA TypeStep == IInv /\ Next => TypeOK' /\ Bounded'
<1> SUFFICES ASSUME TypeOK, Bounded, Next PROVE TypeOK' /\ Bounded'
  BY DEF IInv
<1> USE DEF TypeOK, Bounded, Versions, serverVars, connVars, pollVars, getVars
<1>1. CASE Change \/ SilentChange
  BY <1>1 DEF Change, SilentChange
<1>2. CASE Notify
  BY <1>2, PublishToken DEF Notify
<1>3. ASSUME NEW c \in Conns, Subscribe(c) \/ Leave(c) PROVE TypeOK' /\ Bounded'
  BY <1>3 DEF Subscribe, Leave, Move
<1>4. ASSUME NEW c \in Conns, Snapshot(c) PROVE TypeOK' /\ Bounded'
  <2>1. Append(wire[c], version) \in Seq(Versions)
    BY LatestOfAppend
  <2>2. wire' \in [Conns -> Seq(Versions)]
    BY <1>4, <2>1 DEF Snapshot
  <2> QED BY <1>4, <2>2 DEF Snapshot, Move
<1>5. ASSUME NEW c \in Conns, Take(c) PROVE TypeOK' /\ Bounded'
  BY <1>5 DEF Take, Move
<1>6. CASE GiveUp \/ Swallow \/ Expire
  <2>1. tokens' \in [Conns -> 0..Capacity]
    BY <1>6 DEF GiveUp, Swallow, Expire
  <2>2. orphan' \in BOOLEAN /\ swallowed' \in BOOLEAN
    BY <1>6 DEF GiveUp, Swallow, Expire
  <2>3. UNCHANGED <<version, owed, announced, place, subscribed, wire, broken, shown, late, conn, link, pollVars>>
    BY <1>6 DEF GiveUp, Swallow, Expire
  <2> QED BY <2>1, <2>2, <2>3
<1>7. CASE Break
  BY <1>7 DEF Break
<1>8. CASE OnOpen
  BY <1>8 DEF OnOpen, Chains
<1>9. CASE OnQueue
  <2>1. Head(wire[conn]) \in Versions /\ Tail(wire[conn]) \in Seq(Versions)
    BY <1>9, LatestOfTail DEF OnQueue
  <2>2. wire' \in [Conns -> Seq(Versions)]
    BY <1>9, <2>1 DEF OnQueue
  <2>3. shown' \in 0..MaxVersion
    BY <1>9, <2>1 DEF OnQueue
  <2>4. late' \in BOOLEAN
    BY <1>9 DEF OnQueue
  <2> QED BY <1>9, <2>2, <2>3, <2>4 DEF OnQueue
<1>10. CASE OnError
  <2>1. chain' \in [Polls -> Chains] /\ pollTimer' \in Polls \cup {NULL} /\ answer' = answer
    BY <1>10 DEF OnError, StartSlowPoll, Chains
  <2>2. wire' \in [Conns -> Seq(Versions)]
    BY <1>10 DEF OnError
  <2> QED BY <1>10, <2>1, <2>2 DEF OnError
<1>11. CASE Reconnect
  BY <1>11 DEF Reconnect
<1>12. ASSUME NEW p \in Polls, Fire(p) \/ Answer(p) \/ Arrive(p) \/ PollFails(p) PROVE TypeOK' /\ Bounded'
  <2>1. /\ chain' \in [Polls -> Chains] /\ pollTimer' \in Polls \cup {NULL}
        /\ answer' \in [Polls -> 0..MaxVersion]
    <3>1. CASE Fire(p) \/ Answer(p)
      <4>1. chain' \in [Polls -> Chains] /\ pollTimer' = pollTimer
        BY <3>1 DEF Fire, Answer, Chains
      <4>2. answer' = answer \/ answer' = [answer EXCEPT ![p] = version]
        BY <3>1 DEF Fire, Answer
      <4>3. version \in 0..MaxVersion
        OBVIOUS
      <4>4. answer' \in [Polls -> 0..MaxVersion]
        BY <4>2, <4>3
      <4> QED BY <4>1, <4>4
    <3>2. CASE NextPoll(p)
      BY <3>2 DEF NextPoll, Chains
    <3> QED BY <1>12, <3>1, <3>2 DEF Arrive, PollFails
  <2>2. shown' \in 0..MaxVersion
    BY <1>12 DEF Fire, Answer, Arrive, PollFails, NextPoll
  <2>3. late' \in BOOLEAN
    BY <1>12 DEF Fire, Answer, Arrive, PollFails, NextPoll
  <2>4. UNCHANGED <<serverVars, connVars, conn, link, getVars>>
    BY <1>12 DEF Fire, Answer, Arrive, PollFails, NextPoll
  <2> QED BY <2>1, <2>2, <2>3, <2>4
<1> QED BY <1>1, <1>2, <1>3, <1>4, <1>5, <1>6, <1>7, <1>8, <1>9, <1>10, <1>11, <1>12 DEF Next, Page, Handler

\* A handler subscribes before it reads, and unsubscribes as it leaves.
LEMMA SubscribedStep == IInv /\ Next => Subscribed'
<1> SUFFICES ASSUME TypeOK, Subscribed, Next PROVE Subscribed'
  BY DEF IInv
<1> USE DEF TypeOK, Subscribed, connVars
<1>1. ASSUME NEW c \in Conns, Handler(c) \/ Leave(c) PROVE Subscribed'
  BY <1>1 DEF Handler, Subscribe, Snapshot, Take, Leave, Move
<1>2. CASE Page
  BY <1>2 DEF Page, OnOpen, OnQueue, OnError, Reconnect
<1>3. ASSUME NEW p \in Polls, Fire(p) \/ Answer(p) \/ Arrive(p) \/ PollFails(p) PROVE Subscribed'
  BY <1>3 DEF Fire, Answer, Arrive, PollFails, NextPoll
<1> QED BY <1>1, <1>2, <1>3 DEF Next, Change, SilentChange, Notify, Break, GiveUp, Swallow, Expire

\* A change is either sent, or there is a token that makes the handler read it.
LEMMA SentStep == IInv /\ Next => Sent'
<1> SUFFICES ASSUME TypeOK, Bounded, Subscribed, Sent, Next PROVE Sent'
  BY DEF IInv
<1> USE DEF TypeOK, Sent, serverVars, connVars, pollVars, getVars
<1>1. CASE UNCHANGED <<announced, place, tokens, wire, shown, late, conn, link, swallowed>>
  BY <1>1
<1>2. CASE Notify
  BY <1>2, PublishToken DEF Notify, Subscribed
<1>3. ASSUME NEW c \in Conns, Subscribe(c) \/ Leave(c) PROVE Sent'
  BY <1>3 DEF Subscribe, Leave, Move
<1>4. ASSUME NEW c \in Conns, Snapshot(c) PROVE Sent'
  <2>1. CASE c = conn /\ link # "closed"
    <3>1. wire'[conn] # <<>> /\ Latest(wire'[conn]) = version
      BY <1>4, <2>1, LatestOfAppend DEF Snapshot
    <3> QED BY <1>4, <2>1, <3>1 DEF Snapshot, Bounded
  <2>2. CASE c # conn \/ link = "closed"
    BY <1>4, <2>2 DEF Snapshot, Move
  <2> QED BY <2>1, <2>2
<1>5. ASSUME NEW c \in Conns, Take(c) PROVE Sent'
  BY <1>5 DEF Take, Move
<1>6. CASE Swallow
  BY <1>6 DEF Swallow
<1>7. CASE OnOpen
  BY <1>7 DEF OnOpen
<1>8. CASE OnQueue
  <2>1. /\ Tail(wire[conn]) = <<>> => Latest(wire[conn]) = Head(wire[conn])
        /\ Tail(wire[conn]) # <<>> => Latest(Tail(wire[conn])) = Latest(wire[conn])
    BY <1>8, LatestOfTail DEF OnQueue
  <2> QED BY <1>8, <2>1 DEF OnQueue
<1>9. CASE OnError
  BY <1>9 DEF OnError
<1>10. CASE Reconnect
  BY <1>10 DEF Reconnect
<1>11. ASSUME NEW p \in Polls, Arrive(p) PROVE Sent'
  <2>1. /\ UNCHANGED <<announced, place, tokens, wire, conn, link, swallowed>>
        /\ shown' = answer[p] /\ late' = (late \/ (link = "open" /\ answer[p] < shown))
    BY <1>11 DEF Arrive, NextPoll
  <2>2. link = "open" /\ (late \/ shown >= announced) => late' \/ shown' >= announced
    <3>1. CASE answer[p] >= shown
      BY <2>1, <3>1
    <3>2. CASE answer[p] < shown
      BY <2>1, <3>2
    <3> QED BY <3>1, <3>2
  <2> QED BY <2>1, <2>2
<1>12. ASSUME NEW p \in Polls, Fire(p) \/ Answer(p) \/ PollFails(p) PROVE Sent'
  BY <1>1, <1>12 DEF Fire, Answer, PollFails, NextPoll
<1>13. CASE Change \/ SilentChange \/ Break \/ GiveUp \/ Expire
  BY <1>1, <1>13 DEF Change, SilentChange, Break, GiveUp, Expire
<1> QED
  BY <1>2, <1>3, <1>4, <1>5, <1>6, <1>7, <1>8, <1>9, <1>10, <1>11, <1>12, <1>13 DEF Next, Page, Handler

-----------------------------------------------------------------------------
\* The invariant, inductive.
LEMMA StreamInvariant == Spec => []IInv
<1>1. Init => IInv
  <2> SUFFICES ASSUME Init PROVE IInv
    OBVIOUS
  <2>1. conn \in Conns
    BY StreamAssumption DEF Init, StreamAssumption
  <2>2. wire \in [Conns -> Seq(Versions)]
    BY DEF Init
  <2>3. TypeOK
    <3>1. version \in Versions /\ owed \in 0..MaxVersion /\ announced \in 0..MaxVersion /\ shown \in 0..MaxVersion
      BY DEF Init, Versions
    <3>2. /\ place \in [Conns -> {"none", "start", "read", "wait", "closed"}] /\ subscribed \subseteq Conns
          /\ tokens \in [Conns -> 0..Capacity] /\ broken \subseteq Conns
      BY DEF Init
    <3>3. /\ chain \in [Polls -> Chains] /\ answer \in [Polls -> 0..MaxVersion]
          /\ pollTimer \in Polls \cup {NULL} /\ link \in {"connecting", "open", "closed"}
      BY DEF Init, Chains
    <3>4. late \in BOOLEAN /\ swallowed \in BOOLEAN /\ orphan \in BOOLEAN
      BY DEF Init
    <3> QED BY <2>1, <2>2, <3>1, <3>2, <3>3, <3>4 DEF TypeOK
  <2>4. Bounded /\ Subscribed
    BY DEF Init, Bounded, Subscribed
  <2>5. Sent
    BY <2>1 DEF Init, Sent
  <2> QED BY <2>3, <2>4, <2>5 DEF IInv
<1>2. IInv /\ [Next]_vars => IInv'
  <2> SUFFICES ASSUME IInv, [Next]_vars PROVE IInv'
    OBVIOUS
  <2>1. CASE UNCHANGED vars
    <3> USE <2>1 DEF vars, serverVars, connVars, pollVars, getVars
    <3>1. TypeOK'
      BY DEF IInv, TypeOK
    <3>2. Bounded' /\ Subscribed'
      BY DEF IInv, Bounded, Subscribed
    <3>3. Sent'
      BY DEF IInv, Sent, Latest
    <3> QED BY <3>1, <3>2, <3>3 DEF IInv
  <2> QED BY <2>1, TypeStep, SubscribedStep, SentStep DEF IInv
<1> QED BY <1>1, <1>2, PTL DEF Spec

\* Every variable keeps its type: no queue outgrows its maxsize and a page
\* never opens more connections than the link breaks.
THEOREM StreamTypeCorrect == Spec => []TypeOK
<1>1. IInv => TypeOK
  BY DEF IInv
<1> QED BY <1>1, StreamInvariant, PTL

\* Dropping a token of a full queue loses nothing: an open page for which no
\* token, snapshot or event is left shows what the last notification announced,
\* unless an old answer to a poll or a lost token stand in the way.
THEOREM QuietPageIsCurrent == Spec => []QuietIsCurrent
<1>1. IInv => QuietIsCurrent
  BY DEF IInv, Sent, QuietIsCurrent, Quiet
<1> QED BY <1>1, StreamInvariant, PTL
=============================================================================
