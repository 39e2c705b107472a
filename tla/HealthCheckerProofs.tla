------------------------- MODULE HealthCheckerProofs -------------------------
(* Theorems about HealthChecker for every set of checks, finite or not,      *)
(* except where a theorem says finite.                                       *)
EXTENDS HealthChecker, FiniteSets, FiniteSetTheorems, TLAPS

\* The answers of this round that were not read yet.
Unread == answered \cup sent

\* While a round is being read, a check still has to look, or has an answer
\* on its way, or was seen up in this round; a true answer is always backed.
RoundInv ==
  /\ up \subseteq upInRound
  /\ \A a \in Unread : a[2] = TRUE => a[1] \in upInRound
  /\ waiter = "collect" =>
       \A c \in Checks : \/ c \in asked \cup upInRound
                         \/ \E a \in Unread : a[1] = c
  /\ VerdictOfOneRound

HInv == TypeOK /\ RoundInv

LEMMA InitHInv == Init => HInv
BY DEF Init, HInv, TypeOK, RoundInv, Unread, VerdictOfOneRound

LEMMA ChecksKeepHInv ==
  ASSUME HInv, Check
  PROVE  HInv'
<1> USE DEF HInv, TypeOK, RoundInv, VerdictOfOneRound
<1>1. CASE Answer
  <2>1. PICK a \in answered : answered' = answered \ {a} /\ sent' = sent \cup {a}
    BY <1>1 DEF Answer
  <2>2. Unread' = Unread
    BY <2>1 DEF Unread
  <2>3. UNCHANGED <<up, asked, stragglers, upInRound, waiter, consumer>>
    BY <1>1 DEF Answer
  <2> QED BY <2>1, <2>2, <2>3
<1>2. ASSUME NEW c \in Checks, Look(c)
      PROVE  HInv'
  <2> DEFINE answer == <<c, c \in up>>
  <2>1. answer \in Checks \X BOOLEAN /\ answer[1] = c /\ (answer[2] = TRUE => c \in up)
    <3>1. (c \in up) \in BOOLEAN
      OBVIOUS
    <3>2. \A b \in BOOLEAN : <<c, b>> \in Checks \X BOOLEAN
      OBVIOUS
    <3>3. answer[1] = c /\ answer[2] = (c \in up)
      OBVIOUS
    <3>4. answer[2] = TRUE => c \in up
      BY <3>3, Zenon
    <3> QED BY <3>1, <3>2, <3>3, <3>4
  <2>2. /\ asked' = asked \ {c} /\ Unread' = Unread \cup {answer}
        /\ answered' = answered \cup {answer}
        /\ UNCHANGED <<up, sent, stragglers, upInRound, waiter, consumer>>
    BY <1>2 DEF Look, Unread
  <2> HIDE DEF answer
  <2>3. TypeOK'
    BY <2>1, <2>2
  <2>4. \A a \in Unread' : a[2] = TRUE => a[1] \in upInRound
    BY <2>1, <2>2
  <2>5. waiter = "collect" =>
          \A d \in Checks : \/ d \in asked' \cup upInRound
                            \/ \E a \in Unread' : a[1] = d
    BY <2>1, <2>2
  <2> QED BY <2>2, <2>3, <2>4, <2>5
<1>3. ASSUME NEW c \in Checks, StragglerEnds(c)
      PROVE  HInv'
  BY <1>3 DEF StragglerEnds, Unread
<1> QED BY <1>1, <1>2, <1>3 DEF Check

LEMMA WaiterKeepsHInv ==
  ASSUME HInv, Waiter
  PROVE  HInv'
<1> USE DEF HInv, TypeOK, RoundInv, VerdictOfOneRound
<1>1. CASE Read
  <2>1. PICK a \in sent : /\ sent' = sent \ {a}
                          /\ waiter' = IF a[2] THEN "collect" ELSE "sleep"
    BY <1>1 DEF Read
  <2>2. waiter = "collect"
        /\ UNCHANGED <<up, asked, answered, stragglers, upInRound, consumer>>
    BY <1>1 DEF Read
  <2>3. a[2] \in BOOLEAN /\ a \in Unread /\ Unread \ {a} \subseteq Unread'
        /\ Unread' \subseteq Unread
    BY <2>1, <2>2 DEF Unread
  <2>4. TypeOK'
    BY <2>1, <2>2
  <2>5. CASE a[2] = TRUE
    <3>1. a[1] \in upInRound /\ waiter' = "collect"
      BY <2>1, <2>3, <2>5
    <3> QED BY <2>2, <2>3, <2>4, <3>1
  <2>6. CASE a[2] = FALSE
    BY <2>1, <2>2, <2>3, <2>4, <2>6
  <2> QED BY <2>3, <2>5, <2>6
<1>2. CASE AllHealthy
  BY <1>2 DEF AllHealthy, Unread, round
<1>3. CASE NextRound
  <2>1. {a[1] : a \in answered} \subseteq Checks
    OBVIOUS
  <2> QED BY <1>3, <2>1 DEF NextRound, Unread
<1>4. CASE Deliver
  BY <1>4 DEF Deliver, Unread, round
<1> QED BY <1>1, <1>2, <1>3, <1>4 DEF Waiter

THEOREM HealthInvariant == Spec => []HInv
<1>1. HInv /\ Timeout => HInv'
  BY DEF HInv, TypeOK, RoundInv, VerdictOfOneRound, Timeout, Unread, round
<1>2. HInv /\ World => HInv'
  BY DEF HInv, TypeOK, RoundInv, VerdictOfOneRound, World, Unread, round
<1>3. HInv /\ UNCHANGED vars => HInv'
  BY DEF HInv, TypeOK, RoundInv, VerdictOfOneRound, vars, Unread, round
<1>4. HInv /\ [Next]_vars => HInv'
  BY <1>1, <1>2, <1>3, ChecksKeepHInv, WaiterKeepsHInv DEF Next
<1> QED BY InitHInv, <1>4, PTL DEF Spec

\* TypeOK: the types of a round, its waiter and its consumer.
THEOREM HealthType == Spec => []TypeOK
<1>1. HInv => TypeOK
  BY DEF HInv
<1> QED BY HealthInvariant, <1>1, PTL

\* VerdictOfOneRound: waitForAll calls its targets healthy only when each was
\* up since the round began (health/checker.go:113).
THEOREM VerdictsAreBacked == Spec => []VerdictOfOneRound
<1>1. HInv => VerdictOfOneRound
  BY DEF HInv, RoundInv
<1> QED BY HealthInvariant, <1>1, PTL

-----------------------------------------------------------------------------
(* The safety half of FoundOnceUp: from the moment the targets stay up, the  *)
(* round that runs may still end on an old answer, the next one cannot.      *)

\* No check of this round saw its target down.
Clean == \A a \in Unread : a[2] = TRUE

\* While the targets are up, a new round begins clean, a clean round stays so
\* and does not send the waiter to sleep, and a verdict is not taken back.
CleanRoundsSucceed ==
  [][up = Checks /\ up' = Checks =>
       /\ NextRound => waiter' = "collect" /\ Clean'
       /\ waiter = "collect" /\ Clean => waiter' \in {"collect", "send"} /\ Clean'
       /\ waiter \in {"send", "done"} => waiter' \in {"send", "done"}]_vars

\* What a round still has to do: 3 steps for a check that was asked, 2 for an
\* answer on its way, 1 for one in the channel.
RoundLeft == 3 * Cardinality(asked) + 2 * Cardinality(answered) + Cardinality(sent)

\* A round takes at most three steps per check; only NextRound begins another.
RoundsRunDown ==
  [][/\ Answer \/ Read \/ (\E c \in Checks : Look(c)) => RoundLeft' < RoundLeft
     /\ NextRound \/ RoundLeft' <= RoundLeft]_vars

\* CleanRoundsSucceed, for every set of checks (health/checker.go:113-160).
THEOREM UpIsFoundUp == Spec => CleanRoundsSucceed
<1>1. ASSUME HInv, up = Checks, up' = Checks, Next
      PROVE  /\ NextRound => waiter' = "collect" /\ Clean'
             /\ waiter = "collect" /\ Clean => waiter' \in {"collect", "send"} /\ Clean'
             /\ waiter \in {"send", "done"} => waiter' \in {"send", "done"}
  <2> USE <1>1 DEF HInv, TypeOK, round
  <2>1. CASE Answer
    <3>1. Unread' = Unread /\ waiter' = waiter
      BY <2>1 DEF Answer, Unread
    <3>2. ~NextRound
      BY <2>1 DEF Answer, NextRound
    <3> QED BY <3>1, <3>2 DEF Clean
  <2>2. ASSUME NEW c \in Checks, Look(c)
        PROVE  /\ ~NextRound /\ waiter' = waiter
               /\ Clean => Clean'
    <3>1. waiter' = waiter /\ Unread' = Unread \cup {<<c, c \in up>>}
      BY <2>2 DEF Look, Unread
    <3>2. <<c, c \in up>>[2] = TRUE
      BY Zenon
    <3>3. ~NextRound
      BY <3>1 DEF NextRound
    <3> QED BY <3>1, <3>2, <3>3 DEF Clean
  <2>3. ASSUME NEW c \in Checks, StragglerEnds(c)
        PROVE  ~NextRound /\ waiter' = waiter /\ Unread' = Unread
    BY <2>3 DEF StragglerEnds, NextRound, Unread
  <2>4. CASE Read
    <3>1. PICK a \in sent : /\ sent' = sent \ {a}
                            /\ waiter' = IF a[2] THEN "collect" ELSE "sleep"
      BY <2>4 DEF Read
    <3>2. waiter = "collect" /\ Unread' \subseteq Unread /\ a \in Unread
      BY <2>4, <3>1 DEF Read, Unread
    <3>3. ~NextRound
      BY <3>2 DEF NextRound
    <3> QED BY <3>1, <3>2, <3>3 DEF Clean
  <2>5. CASE AllHealthy
    BY <2>5 DEF AllHealthy, NextRound, Unread, Clean
  <2>6. CASE NextRound
    BY <2>6 DEF NextRound, Unread, Clean
  <2>7. CASE Deliver
    BY <2>7 DEF Deliver, NextRound, Unread, Clean
  <2>8. CASE Timeout \/ World
    <3>1. Unread' = Unread /\ waiter' = waiter
      BY <2>8 DEF Timeout, World, Unread
    <3>2. ~NextRound
      BY <3>1 DEF NextRound
    <3> QED BY <3>1, <3>2 DEF Clean
  <2>9. CASE \E c \in Checks : Look(c) \/ StragglerEnds(c)
    <3>1. ~NextRound /\ waiter' = waiter /\ (Clean => Clean')
      BY <2>2, <2>3, <2>9 DEF Clean
    <3> QED BY <3>1
  <2> QED BY <2>1, <2>4, <2>5, <2>6, <2>7, <2>8, <2>9 DEF Next, Check, Waiter
<1>2. HInv /\ [Next]_vars =>
        [up = Checks /\ up' = Checks =>
           /\ NextRound => waiter' = "collect" /\ Clean'
           /\ waiter = "collect" /\ Clean => waiter' \in {"collect", "send"} /\ Clean'
           /\ waiter \in {"send", "done"} => waiter' \in {"send", "done"}]_vars
  BY <1>1
<1> QED BY <1>2, HealthInvariant, PTL DEF Spec, CleanRoundsSucceed

\* RoundsRunDown, for every finite set of checks.
THEOREM RoundsEnd ==
  ASSUME IsFiniteSet(Checks)
  PROVE  Spec => RoundsRunDown
<1>1. ASSUME HInv
      PROVE  /\ IsFiniteSet(asked) /\ IsFiniteSet(answered) /\ IsFiniteSet(sent)
             /\ Cardinality(asked) \in Nat /\ Cardinality(answered) \in Nat
             /\ Cardinality(sent) \in Nat
  <2>1. IsFiniteSet(Checks \X BOOLEAN)
    <3>1. BOOLEAN = {TRUE, FALSE}
      OBVIOUS
    <3>2. IsFiniteSet({}) /\ {TRUE, FALSE} = ({} \cup {TRUE}) \cup {FALSE}
      BY FS_EmptySet
    <3>3. IsFiniteSet({} \cup {TRUE})
      BY <3>2, FS_AddElement
    <3>4. IsFiniteSet(({} \cup {TRUE}) \cup {FALSE})
      BY <3>3, FS_AddElement
    <3>5. IsFiniteSet(BOOLEAN)
      BY <3>1, <3>2, <3>4
    <3> QED BY <3>5, FS_Product
  <2>2. IsFiniteSet(asked) /\ IsFiniteSet(answered) /\ IsFiniteSet(sent)
    BY <1>1, <2>1, FS_Subset DEF HInv, TypeOK
  <2> QED BY <2>2, FS_CardinalityType
<1>2. ASSUME HInv, Next
      PROVE  /\ Answer \/ Read \/ (\E c \in Checks : Look(c)) => RoundLeft' < RoundLeft
             /\ NextRound \/ RoundLeft' <= RoundLeft
  <2> USE <1>2 DEF round
  <2>1. ASSUME Answer PROVE RoundLeft' < RoundLeft /\ RoundLeft' <= RoundLeft
    <3>1. PICK a \in answered : answered' = answered \ {a} /\ sent' = sent \cup {a}
      BY <2>1 DEF Answer
    <3>2. /\ Cardinality(answered') = Cardinality(answered) - 1
          /\ Cardinality(sent') \in {Cardinality(sent), Cardinality(sent) + 1}
      BY <1>1, <3>1, FS_RemoveElement, FS_AddElement
    <3>3. asked' = asked
      BY <2>1 DEF Answer
    <3> QED BY <1>1, <3>2, <3>3 DEF RoundLeft
  <2>2. ASSUME Read PROVE RoundLeft' < RoundLeft /\ RoundLeft' <= RoundLeft
    <3>1. PICK a \in sent : sent' = sent \ {a}
      BY <2>2 DEF Read
    <3>2. Cardinality(sent') = Cardinality(sent) - 1
      BY <1>1, <3>1, FS_RemoveElement
    <3>3. asked' = asked /\ answered' = answered
      BY <2>2 DEF Read
    <3> QED BY <1>1, <3>2, <3>3 DEF RoundLeft
  <2>3. ASSUME NEW c \in Checks, Look(c) PROVE RoundLeft' < RoundLeft /\ RoundLeft' <= RoundLeft
    <3>1. /\ c \in asked /\ asked' = asked \ {c} /\ sent' = sent
          /\ answered' = answered \cup {<<c, c \in up>>}
      BY <2>3 DEF Look
    <3>2. Cardinality(asked') = Cardinality(asked) - 1
      BY <1>1, <3>1, FS_RemoveElement
    <3>3. Cardinality(answered') \in {Cardinality(answered), Cardinality(answered) + 1}
      BY <1>1, <3>1, FS_AddElement
    <3> QED BY <1>1, <3>1, <3>2, <3>3 DEF RoundLeft
  <2>4. ASSUME \/ AllHealthy \/ Deliver \/ Timeout \/ World
               \/ \E c \in Checks : StragglerEnds(c)
        PROVE  RoundLeft' <= RoundLeft
    <3>1. asked' = asked /\ answered' = answered /\ sent' = sent
      BY <2>4 DEF AllHealthy, Deliver, Timeout, World, StragglerEnds
    <3>2. RoundLeft' = RoundLeft
      BY <3>1 DEF RoundLeft
    <3>3. RoundLeft \in Nat
      BY <1>1 DEF RoundLeft
    <3> QED BY <3>2, <3>3
  <2>5. NextRound \/ RoundLeft' <= RoundLeft
    BY <2>1, <2>2, <2>3, <2>4 DEF Next, Check, Waiter
  <2> QED BY <2>1, <2>2, <2>3, <2>5
<1>3. HInv /\ [Next]_vars =>
        [/\ Answer \/ Read \/ (\E c \in Checks : Look(c)) => RoundLeft' < RoundLeft
         /\ NextRound \/ RoundLeft' <= RoundLeft]_vars
  BY <1>2
<1> QED BY <1>3, HealthInvariant, PTL DEF Spec, RoundsRunDown
=============================================================================
