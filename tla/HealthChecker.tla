---------------------------- MODULE HealthChecker ----------------------------
(***************************************************************************)
(* waitForAll and the select that waits for it                             *)
(* (uberbase/pkg/health/checker.go; deployer.go, traffic.go).              *)
(*                                                                         *)
(* One goroutine runs rounds: it starts a goroutine per check, reads their *)
(* results from the round's own channel, and begins the next round after   *)
(* the first false one, without waiting for the checks still running.      *)
(* Stragglers write to a channel nobody reads.                             *)
(***************************************************************************)
CONSTANT Checks   \* what is checked: a container, or a server's health URL

VARIABLES
  up,         \* checks that would answer true now
  asked,      \* checks of this round that have not looked yet
  answered,   \* <<check, answer>> of this round, looked but not sent
  sent,       \* <<check, answer>> in the round's channel
  stragglers, \* checks with a goroutine left over from an earlier round
  upInRound,  \* checks that were up at some moment of this round
  waiter,     \* the goroutine of waitForAll
  consumer    \* the select with the timer

round == <<asked, answered, sent, stragglers>>
vars == <<up, round, upInRound, waiter, consumer>>

TypeOK ==
  /\ up \subseteq Checks /\ upInRound \subseteq Checks
  /\ asked \subseteq Checks /\ stragglers \subseteq Checks
  /\ answered \subseteq Checks \X BOOLEAN
  /\ sent \subseteq Checks \X BOOLEAN
  /\ waiter \in {"collect", "sleep", "send", "done"}
  /\ consumer \in {"waiting", "healthy", "timedOut"}

Init ==
  /\ up \in SUBSET Checks /\ upInRound = up
  /\ asked = Checks /\ answered = {} /\ sent = {} /\ stragglers = {}
  /\ waiter = "collect"
  /\ consumer = "waiting"

-----------------------------------------------------------------------------
\* A check asks for its container's or its URL's state ...
Look(c) ==
  /\ c \in asked
  /\ asked' = asked \ {c}
  /\ answered' = answered \cup {<<c, c \in up>>}
  /\ UNCHANGED <<up, sent, stragglers, upInRound, waiter, consumer>>

\* ... and sends what it saw some time later (the channel has room for all).
Answer ==
  /\ \E a \in answered : answered' = answered \ {a} /\ sent' = sent \cup {a}
  /\ UNCHANGED <<up, asked, stragglers, upInRound, waiter, consumer>>

StragglerEnds(c) ==
  /\ c \in stragglers
  /\ stragglers' = stragglers \ {c}
  /\ UNCHANGED <<up, asked, answered, sent, upInRound, waiter, consumer>>

\* Mutation of Read: a false answer does not end the round.
ReadOn ==
  /\ waiter = "collect"
  /\ \E a \in sent : sent' = sent \ {a}
  /\ UNCHANGED <<up, asked, answered, stragglers, upInRound, waiter, consumer>>

\* The range over the channel: true goes on, false breaks.
Read ==
  /\ waiter = "collect"
  /\ \E a \in sent :
       /\ sent' = sent \ {a}
       /\ waiter' = IF a[2] THEN "collect" ELSE "sleep"
  /\ UNCHANGED <<up, asked, answered, stragglers, upInRound, consumer>>

\* wg.Wait returned and the channel is closed and drained.
AllHealthy ==
  /\ waiter = "collect"
  /\ asked = {} /\ answered = {} /\ sent = {}
  /\ waiter' = "send"
  /\ UNCHANGED <<up, round, upInRound, consumer>>

\* Mutation of NextRound: the first false answer is the last word.
NoNextRound == FALSE

\* The sleep is over: a round of its own channel and goroutines.
NextRound ==
  /\ waiter = "sleep"
  /\ waiter' = "collect"
  /\ stragglers' = stragglers \cup asked \cup {a[1] : a \in answered}
  /\ asked' = Checks /\ answered' = {} /\ sent' = {}
  /\ upInRound' = up
  /\ UNCHANGED <<up, consumer>>

\* healthy is unbuffered: the two meet, or the waiter stays there for ever.
Deliver ==
  /\ waiter = "send" /\ consumer = "waiting"
  /\ waiter' = "done" /\ consumer' = "healthy"
  /\ UNCHANGED <<up, round, upInRound>>

\* Mutation of Timeout: an outcome the select's caller does not know.
Cancelled ==
  /\ consumer = "waiting"
  /\ consumer' = "cancelled"
  /\ UNCHANGED <<up, round, upInRound, waiter>>

\* The select's timer.
Timeout ==
  /\ consumer = "waiting"
  /\ consumer' = "timedOut"
  /\ UNCHANGED <<up, round, upInRound, waiter>>

\* Containers start and exit, servers come and go.
World ==
  /\ up' \in SUBSET Checks /\ up' # up
  /\ upInRound' = upInRound \cup up'
  /\ UNCHANGED <<round, waiter, consumer>>

Check == Answer \/ \E c \in Checks : Look(c) \/ StragglerEnds(c)
Waiter == Read \/ AllHealthy \/ NextRound \/ Deliver
Next == Check \/ Waiter \/ Timeout \/ World

Spec == Init /\ [][Next]_vars
\* Inspect and the HTTP client return (ExecReturns in RemoteExecutor, the
\* client's Timeout); sleeps and timers end.
FairSpec ==
  Spec /\ WF_vars(Waiter) /\ WF_vars(Timeout) /\ WF_vars(Answer)
       /\ \A c \in Checks : WF_vars(Look(c))

-----------------------------------------------------------------------------
\* A healthy verdict rests on one round: every target was up at some moment
\* since that round began, whatever earlier rounds saw and however late
\* their checks answer.
VerdictOfOneRound == waiter = "send" => upInRound = Checks

\* The rounds go on until they find targets that stay up.
FoundOnceUp == <>[](up = Checks) => <>(waiter \in {"send", "done"})
=============================================================================
