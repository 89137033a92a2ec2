------------------------- MODULE ProxyRequestProofs -------------------------
(***************************************************************************)
(* Proofs about the way of a request: ProxyRequest, for every list of      *)
(* lines, every retry limit and every interleaving with the health         *)
(* registry; and RoutingConfig, where its lines come from, for every set   *)
(* of requests, files and presets and any number of writes, up to what an  *)
(* imported file serves.                                                   *)
(***************************************************************************)
EXTENDS ProxyRequest, RoutingConfig, FiniteSetTheorems, SequenceTheorems,
        WellFoundedInduction, TLAPS

Statuses == Outcomes \cup {"none", "unavailable"}

Places == {"start", "collect", "walk", "instead", "probe", "pick", "attempt",
           "judge", "settle", "done"}

TypeOK ==
    /\ strategy \in {"ordered", "weighted"}
    /\ enabled \in SUBSET Accounts /\ avail \in SUBSET Accounts
    /\ expired \in BOOLEAN
    /\ pc \in Places
    /\ after \in {"none", "walk", "first", "instead", "probe", "pick", "again"}
    /\ cursor \in 2..(Len(Lines) + 1)
    /\ cands \in Seq(1..Len(Lines))
    /\ attempts \in Seq([line : 1..Len(Lines), outcome : Outcomes])
    /\ reason \in {"none", "account"} \cup Outcomes
    /\ response \in [status : Statuses, of : Nat]
    /\ passed \in SUBSET (1..Len(Lines))

\* A request that has not looked at its primary yet.
StartInv ==
    pc = "start" => /\ cursor = 2 /\ Len(cands) = 0 /\ Len(attempts) = 0
                    /\ reason = "none" /\ response = NoResponse

\* The ordered policy: candidates and attempts ascend, and what is left to
\* try lies behind what was tried.
OrderInv ==
    strategy = "ordered" =>
        /\ pc \in {"start", "collect", "walk", "attempt", "judge", "settle", "done"}
        /\ pc = "collect" => /\ after = "walk" /\ Len(attempts) = 0
                             /\ \A i \in 1..Len(cands) : cands[i] < cursor
        /\ \A i, j \in 1..Len(cands) : i < j => cands[i] < cands[j]
        /\ \A i, j \in 1..Len(attempts) : i < j => attempts[i].line < attempts[j].line
        /\ pc \in {"walk", "attempt"} =>
              \A i \in 1..Len(attempts), j \in 1..Len(cands) : attempts[i].line < cands[j]
        /\ pc = "judge" =>
              \A i \in 1..Len(attempts), j \in 2..Len(cands) : attempts[i].line < cands[j]
        /\ Len(attempts) <= AttemptLimit
        /\ pc = "attempt" => Len(attempts) < AttemptLimit

\* Where an attempt is made there is a candidate for it, and where it is judged
\* it is the last one recorded.
AttemptInv ==
    /\ pc \in {"attempt", "judge"} => Len(cands) > 0
    /\ pc = "judge" => Len(attempts) > 0

\* A line the ordered policy has come past is passed, tried or still a candidate.
Seen(n) ==
    \/ n \in passed
    \/ \E k \in 1..Len(attempts) : attempts[k].line = n
    \/ \E k \in 1..Len(cands) : cands[k] = n

CoverInv ==
    strategy = "ordered" =>
        /\ pc = "collect" => \A n \in 1..(cursor - 1) : Seen(n)
        /\ pc = "judge" => attempts[Len(attempts)].line = cands[1]
        /\ pc \in {"walk", "attempt", "judge", "settle", "done"} =>
              \A n \in 1..Len(Lines) : Seen(n)
        /\ pc \in {"settle", "done"} /\ response.status \in Retryable \cup {"transport", "connect"} =>
              Len(cands) = 0 \/ Len(attempts) = AttemptLimit

\* The weighted policy: which selection led here fixes the attempts made so far.
WeightedInv ==
    strategy = "weighted" =>
        /\ pc # "walk"
        /\ after = "none" <=> pc = "start"
        /\ after # "walk"
        /\ pc \in {"instead", "probe", "pick"} => after = pc
        /\ pc = "collect" => after \in {"instead", "probe", "pick"}
        /\ after = "probe" => pc \in {"collect", "probe"}
        /\ after = "first" =>
              /\ pc = "attempt" => Len(attempts) = 0 /\ cands[1] = 1
              /\ pc # "attempt" => Len(attempts) = 1 /\ attempts[1].line = 1
              /\ reason \in {"none"} \cup Outcomes
              /\ pc \in {"attempt", "judge"} => reason = "none"
        /\ after = "instead" =>
              /\ reason = "account"
              /\ Len(attempts) <= 1
              /\ pc \in {"collect", "instead", "attempt"} =>
                    Len(attempts) = 0 /\ response = NoResponse
        /\ after \in {"probe", "pick", "again"} =>
              /\ Len(attempts) \in 1..2
              /\ attempts[1].line = 1
              /\ Failed(attempts[1].outcome) /\ reason = attempts[1].outcome
              /\ pc \in {"collect", "probe", "pick", "attempt"} => Len(attempts) = 1
              /\ pc \in {"collect", "probe", "pick", "attempt", "judge"} =>
                    response.status = attempts[1].outcome
              /\ Len(attempts) = 2 /\ attempts[2].line = 1 =>
                    attempts[1].outcome = "short"
        /\ after = "again" => attempts[1].outcome = "short"
        /\ after \in {"instead", "probe", "pick"} => \A k \in 1..Len(cands) : cands[k] # 1

\* Every attempt that another one followed failed.
FailedInv ==
    /\ \A k \in 1..(Len(attempts) - 1) : Failed(attempts[k].outcome)
    /\ pc \in {"collect", "walk", "probe", "pick", "attempt"} =>
          \A k \in 1..Len(attempts) : Failed(attempts[k].outcome)

\* The reason so far is true of the attempts so far.
ReasonInv ==
    /\ reason = "account" => /\ \A k \in 1..Len(attempts) : attempts[k].line # 1
                             /\ \A k \in 1..Len(cands) : cands[k] # 1
    /\ reason \notin {"none", "account"} =>
          Len(attempts) > 0 /\ attempts[1].outcome = reason
    /\ reason = "none" /\ strategy = "ordered" =>
          /\ pc \in {"collect", "walk", "attempt"} => Len(attempts) = 0
          /\ pc = "judge" => Len(attempts) = 1

\* The response held agrees with the last attempt.
VerdictInv ==
    /\ pc \in {"walk", "pick"} /\ Len(attempts) > 0 =>
          response.status = attempts[Len(attempts)].outcome
    /\ pc \in {"settle", "done"} /\ Len(attempts) > 0 =>
          /\ response.status # "none"
          /\ response.status = "success" <=> attempts[Len(attempts)].outcome = "success"
          /\ ~Failed(attempts[Len(attempts)].outcome) =>
                response.status = attempts[Len(attempts)].outcome

\* The row is written once, from the request as it ended.
RowInv ==
    /\ pc # "done" => row = NoRow
    /\ pc = "done" =>
          /\ row.upstream = Upstream /\ row.attempts = attempts
          /\ row.status = response.status /\ (row.success <=> response.status = "success")
          /\ row.reason = RecordedReason

Rest ==
    /\ StartInv /\ OrderInv /\ AttemptInv /\ CoverInv /\ WeightedInv
    /\ FailedInv /\ ReasonInv /\ VerdictInv /\ RowInv

IInv == TypeOK /\ Rest

-----------------------------------------------------------------------------
(* Sequences. *)

LEMMA AppendFacts ==
    ASSUME NEW S, NEW s \in Seq(S), NEW x \in S
    PROVE  /\ Append(s, x) \in Seq(S)
           /\ Len(s) \in Nat /\ Len(Append(s, x)) = Len(s) + 1
           /\ \A k \in 1..Len(s) : Append(s, x)[k] = s[k]
           /\ Append(s, x)[Len(s) + 1] = x
  OBVIOUS

LEMMA TailFacts ==
    ASSUME NEW S, NEW s \in Seq(S), Len(s) > 0
    PROVE  /\ Head(s) = s[1] /\ s[1] \in S
           /\ Tail(s) \in Seq(S)
           /\ Len(s) \in Nat /\ Len(Tail(s)) = Len(s) - 1
           /\ \A k \in 1..(Len(s) - 1) : Tail(s)[k] = s[k + 1]
  OBVIOUS

LEMMA EmptyOrNot ==
    ASSUME NEW S, NEW s \in Seq(S)
    PROVE  Len(s) \in Nat /\ (s = <<>> <=> Len(s) = 0)
  OBVIOUS

LEMMA OneElement ==
    ASSUME NEW S, NEW x \in S
    PROVE  <<x>> \in Seq(S) /\ Len(<<x>>) = 1 /\ <<x>>[1] = x
  OBVIOUS

LEMMA ElementFacts ==
    ASSUME NEW S, NEW s \in Seq(S)
    PROVE  /\ \A k \in 1..Len(s) : s[k] \in S
           /\ Len(s) > 0 => s[Len(s)] \in S
  OBVIOUS

LEMMA LinesFacts ==
    /\ Len(Lines) \in Nat \ {0} /\ DOMAIN Lines = 1..Len(Lines)
    /\ AttemptLimit \in Nat
  BY LinesAssumption DEF AttemptLimit

LEMMA ShortLists ==
    ASSUME NEW n \in 1..Len(Lines)
    PROVE  <<>> \in Seq(1..Len(Lines)) /\ <<n>> \in Seq(1..Len(Lines))
  BY LinesFacts

\* The last attempt, where there is one.
LEMMA LastFacts ==
    ASSUME TypeOK, Len(attempts) > 0
    PROVE  /\ LastAttempt \in [line : 1..Len(Lines), outcome : Outcomes]
           /\ LastAttempt.line \in 1..Len(Lines) /\ LastAttempt.outcome \in Outcomes
           /\ Answer \in [status : Statuses, of : Nat]
           /\ Answer.status = LastAttempt.outcome
<1>1. LastAttempt \in [line : 1..Len(Lines), outcome : Outcomes]
  BY ElementFacts, Zenon DEF TypeOK, LastAttempt
<1>2. Len(attempts) \in Nat
  BY DEF TypeOK
<1>3. LastAttempt.line \in 1..Len(Lines) /\ LastAttempt.outcome \in Outcomes
  BY <1>1
<1> QED
  BY <1>1, <1>2, <1>3 DEF Answer, Statuses

-----------------------------------------------------------------------------
(* The facts an action starts from: what the sequences it rebuilds become. *)

LEMMA TypeStep == IInv /\ [Next]_vars => TypeOK'
<1> SUFFICES ASSUME IInv, [Next]_vars PROVE TypeOK'
  OBVIOUS
<1> USE LinesFacts
<1>0. TypeOK /\ AttemptInv /\ StartInv
  BY DEF IInv, Rest
<1>1. CASE Environment
  BY <1>0, <1>1 DEF Environment, TypeOK
<1>2. CASE Expire
  BY <1>0, <1>2 DEF Expire, TypeOK
<1>3. CASE Start
  <2>1. cands' \in Seq(1..Len(Lines)) /\ passed' \in SUBSET (1..Len(Lines))
    <3>1. 1 \in 1..Len(Lines)
      OBVIOUS
    <3> QED
      BY <1>3, <3>1, ShortLists, Zenon DEF Start
  <2> QED
    BY <1>0, <1>3, <2>1 DEF Start, TypeOK, Places
<1>4. CASE CollectOne
  <2>1. cursor \in 1..Len(Lines)
    BY <1>0, <1>4 DEF CollectOne, TypeOK
  <2>2. cands' \in Seq(1..Len(Lines)) /\ passed' \in SUBSET (1..Len(Lines))
    <3>1. Append(cands, cursor) \in Seq(1..Len(Lines))
      BY <1>0, <2>1, AppendFacts DEF TypeOK
    <3> QED
      BY <1>0, <1>4, <2>1, <3>1, Zenon DEF CollectOne, TypeOK
  <2> QED
    BY <1>0, <1>4, <2>1, <2>2 DEF CollectOne, TypeOK
<1>5. CASE Collected
  <2>1. cands' \in Seq(1..Len(Lines))
    <3>1. \A k \in DOMAIN cands : <<cands[k]>> \in Seq(1..Len(Lines))
      BY <1>0 DEF TypeOK
    <3>2. Preferred \subseteq DOMAIN cands
      BY DEF Preferred
    <3>3. <<>> \in Seq(1..Len(Lines))
      OBVIOUS
    <3> QED
      BY <1>0, <1>5, <3>1, <3>2, <3>3, Zenon DEF Collected, TypeOK
  <2>2. pc' \in Places
    BY <1>5 DEF IInv, Rest, Collected, TypeOK, OrderInv, WeightedInv, Places
  <2> QED
    BY <1>0, <1>5, <2>1, <2>2 DEF Collected, TypeOK
<1>6. ASSUME NEW outcome \in Outcomes, Execute(outcome) PROVE TypeOK'
  <2>1. Head(cands) \in 1..Len(Lines)
    BY <1>0, <1>6, TailFacts DEF Execute, TypeOK, AttemptInv
  <2>2. attempts' \in Seq([line : 1..Len(Lines), outcome : Outcomes])
    BY <1>0, <1>6, <2>1 DEF Execute, TypeOK
  <2>3. avail' \in SUBSET Accounts
    BY <1>0, <1>6, <2>1 DEF Execute, TypeOK, HealthAfter, Account, Accounts
  <2>4. expired' \in BOOLEAN
    BY <1>0, <1>6 DEF Execute, TypeOK
  <2> QED
    BY <1>0, <1>6, <2>2, <2>3, <2>4 DEF Execute, TypeOK, Places
<1>7. CASE Walk
  <2>1. /\ cands' \in Seq(1..Len(Lines)) /\ passed' \in SUBSET (1..Len(Lines))
        /\ response' \in [status : Statuses, of : Nat]
        /\ pc' \in Places
    <3>1. CASE cands = <<>> \/ Len(attempts) >= AttemptLimit
      BY <1>0, <1>7, <3>1 DEF Walk, TypeOK, Places
    <3>2. CASE ~(cands = <<>> \/ Len(attempts) >= AttemptLimit)
      <4>1. Len(cands) > 0
        BY <1>0, <3>2 DEF TypeOK
      <4>2. Head(cands) \in 1..Len(Lines) /\ Tail(cands) \in Seq(1..Len(Lines))
        BY <1>0, <4>1, TailFacts DEF TypeOK
      <4>3. Gateway("total") \in [status : Statuses, of : Nat]
        BY DEF Gateway, Statuses, Outcomes
      <4> QED
        BY <1>0, <1>7, <3>2, <4>2, <4>3 DEF Walk, TypeOK, Places
    <3> QED
      BY <3>1, <3>2
  <2> QED
    BY <1>0, <1>7, <2>1 DEF Walk, TypeOK
<1>8. CASE JudgeOrdered
  <2>1. /\ LastAttempt \in [line : 1..Len(Lines), outcome : Outcomes]
        /\ Answer \in [status : Statuses, of : Nat]
    BY <1>0, <1>8, LastFacts DEF JudgeOrdered, AttemptInv
  <2>2. Tail(cands) \in Seq(1..Len(Lines))
    BY <1>0, <1>8, TailFacts DEF JudgeOrdered, TypeOK, AttemptInv
  <2> QED
    BY <1>0, <1>8, <2>1, <2>2 DEF JudgeOrdered, TypeOK, ReasonAfter, Places
<1>9. CASE Instead
  <2>1. Gateway("unavailable") \in [status : Statuses, of : Nat]
    BY DEF Gateway, Statuses
  <2> QED
    BY <1>0, <1>9, <2>1 DEF Instead, TypeOK, Places
<1>10. CASE JudgeFirst
  <2>1. /\ LastAttempt \in [line : 1..Len(Lines), outcome : Outcomes]
        /\ Answer \in [status : Statuses, of : Nat]
    BY <1>0, <1>10, LastFacts DEF JudgeFirst, AttemptInv
  <2>2. <<>> \in Seq(1..Len(Lines))
    OBVIOUS
  <2> QED
    BY <1>0, <1>10, <2>1, <2>2 DEF JudgeFirst, TypeOK, ReasonAfter, Places
<1>11. CASE JudgeLast
  <2>1. Answer \in [status : Statuses, of : Nat]
    BY <1>0, <1>11, LastFacts DEF JudgeLast, AttemptInv
  <2>2. Gateway("unavailable") \in [status : Statuses, of : Nat]
    BY DEF Gateway, Statuses
  <2>3. response' \in [status : Statuses, of : Nat]
    BY <1>0, <1>11, <2>1, <2>2 DEF JudgeLast, TypeOK
  <2> QED
    BY <1>0, <1>11, <2>3 DEF JudgeLast, TypeOK, Places
<1>12. CASE Probe
  <2>1. cands' \in Seq(1..Len(Lines))
    <3>1. 1 \in 1..Len(Lines)
      OBVIOUS
    <3> QED
      BY <1>12, <3>1, ShortLists, Zenon DEF Probe
  <2> QED
    BY <1>0, <1>12, <2>1 DEF Probe, TypeOK, Places
<1>13. CASE Pick
  BY <1>0, <1>13 DEF Pick, TypeOK, Places
<1>14. CASE Settle
  <2>1. Gateway("unavailable") \in [status : Statuses, of : Nat]
    BY DEF Gateway, Statuses
  <2> QED
    BY <1>0, <1>14, <2>1 DEF Settle, TypeOK, Places
<1>15. CASE UNCHANGED vars
  BY <1>0, <1>15 DEF vars, TypeOK
<1> QED
  BY <1>1, <1>2, <1>3, <1>4, <1>5, <1>6, <1>7, <1>8, <1>9, <1>10, <1>11, <1>12,
     <1>13, <1>14, <1>15 DEF Next

-----------------------------------------------------------------------------
(* The rest of the invariant, action by action.                            *)

\* Steps of the world around the request, and steps of nobody.
LEMMA QuietStep ==
    ASSUME IInv,
           UNCHANGED <<strategy, pc, after, cursor, cands, attempts, reason,
                       response, row, passed>>
    PROVE  Rest'
<1>1. StartInv' /\ OrderInv' /\ AttemptInv' /\ CoverInv'
  BY DEF IInv, Rest, StartInv, OrderInv, AttemptInv, CoverInv, Seen
<1>2. WeightedInv' /\ FailedInv' /\ ReasonInv' /\ VerdictInv'
  BY DEF IInv, Rest, WeightedInv, FailedInv, ReasonInv, VerdictInv
<1>3. RowInv'
  BY DEF IInv, Rest, RowInv, Upstream, LastAttempt, RecordedReason
<1> QED
  BY <1>1, <1>2, <1>3 DEF Rest

LEMMA StartStep ==
    ASSUME IInv, Start
    PROVE  Rest'
<1>0. /\ TypeOK /\ StartInv /\ RowInv
      /\ pc = "start" /\ Len(attempts) = 0 /\ cursor = 2 /\ Len(Lines) >= 1
      /\ attempts' = attempts /\ cursor' = cursor /\ response' = response
      /\ strategy' = strategy
  BY LinesFacts DEF IInv, Rest, Start, StartInv
<1>1. /\ Usable(1) => cands' = <<1>> /\ Len(cands') = 1 /\ cands'[1] = 1
      /\ ~Usable(1) => Len(cands') = 0 /\ passed' = {1}
  BY DEF Start
<1>2. /\ pc' \in {"attempt", "collect"}
      /\ reason' = IF Usable(1) THEN "none" ELSE "account"
      /\ after' = IF strategy = "ordered" THEN "walk"
                  ELSE IF Usable(1) THEN "first" ELSE "instead"
      /\ pc' = "attempt" <=> strategy = "weighted" /\ Usable(1)
      /\ row' = NoRow
  BY <1>0 DEF Start, RowInv
<1>3. AttemptLimit \in Nat
  BY LinesFacts
<1>4. StartInv' /\ AttemptInv' /\ FailedInv' /\ VerdictInv' /\ RowInv'
  BY <1>0, <1>1, <1>2 DEF StartInv, AttemptInv, FailedInv, VerdictInv, RowInv
<1>5. OrderInv'
  BY <1>0, <1>1, <1>2, <1>3 DEF OrderInv, AttemptLimit
<1>6. CoverInv'
  BY <1>0, <1>1, <1>2 DEF CoverInv, Seen
<1>7. WeightedInv'
  BY <1>0, <1>1, <1>2 DEF WeightedInv, StartInv, TypeOK
<1>8. ReasonInv'
  BY <1>0, <1>1, <1>2 DEF ReasonInv
<1> QED
  BY <1>4, <1>5, <1>6, <1>7, <1>8 DEF Rest

LEMMA CollectOneStep ==
    ASSUME IInv, CollectOne
    PROVE  Rest'
<1>0. /\ TypeOK /\ OrderInv /\ CoverInv /\ WeightedInv /\ FailedInv /\ ReasonInv
      /\ RowInv /\ pc = "collect" /\ pc' = pc /\ cursor \in 2..Len(Lines)
      /\ cursor' = cursor + 1 /\ attempts' = attempts /\ response' = response
      /\ strategy' = strategy /\ after' = after /\ reason' = reason /\ row' = row
  BY LinesFacts DEF IInv, Rest, CollectOne, TypeOK
<1>1. Len(cands) \in Nat /\ \A k \in 1..Len(cands) : cands[k] \in Nat
  BY <1>0, LinesFacts DEF TypeOK
<1>2. \/ /\ Len(cands') = Len(cands) + 1 /\ cands'[Len(cands) + 1] = cursor
         /\ \A k \in 1..Len(cands) : cands'[k] = cands[k]
         /\ passed' = passed
      \/ cands' = cands /\ passed' = passed \cup {cursor}
  <2>1. CASE Eligible(cursor) /\ Usable(cursor)
    BY <1>0, <2>1, AppendFacts DEF CollectOne, TypeOK
  <2>2. CASE ~(Eligible(cursor) /\ Usable(cursor))
    BY <1>0, <2>2, Zenon DEF CollectOne
  <2> QED
    BY <2>1, <2>2
<1>3. StartInv' /\ AttemptInv' /\ FailedInv' /\ VerdictInv' /\ RowInv'
  BY <1>0 DEF StartInv, AttemptInv, FailedInv, VerdictInv, RowInv
<1>4. OrderInv'
  BY <1>0, <1>1, <1>2 DEF OrderInv
<1>5. CoverInv'
  <2> SUFFICES ASSUME strategy = "ordered", NEW n \in 1..cursor
               PROVE  Seen(n)'
    BY <1>0 DEF CoverInv
  <2>1. CASE n = cursor
    BY <1>0, <1>1, <1>2, <2>1 DEF Seen
  <2>2. CASE n \in 1..(cursor - 1)
    <3>1. Seen(n)
      BY <1>0, <2>2 DEF CoverInv
    <3>2. CASE \E k \in 1..Len(cands) : cands[k] = n
      <4>1. PICK k \in 1..Len(cands) : cands[k] = n
        BY <3>2
      <4>2. k \in 1..Len(cands') /\ cands'[k] = n
        BY <1>1, <1>2, <4>1
      <4> QED BY <4>2 DEF Seen
    <3> QED BY <1>0, <1>2, <3>1, <3>2 DEF Seen
  <2> QED
    BY <1>0, <2>1, <2>2
<1>6. WeightedInv'
  BY <1>0, <1>1, <1>2 DEF WeightedInv
<1>7. ReasonInv'
  BY <1>0, <1>1, <1>2 DEF ReasonInv
<1> QED
  BY <1>3, <1>4, <1>5, <1>6, <1>7 DEF Rest

LEMMA CollectedStep ==
    ASSUME IInv, Collected
    PROVE  Rest'
<1>0. /\ TypeOK /\ OrderInv /\ CoverInv /\ WeightedInv /\ FailedInv /\ ReasonInv
      /\ RowInv /\ pc = "collect" /\ pc' = after /\ cursor = Len(Lines) + 1
      /\ attempts' = attempts /\ response' = response /\ passed' = passed
      /\ strategy' = strategy /\ after' = after /\ reason' = reason /\ row' = row
  BY LinesFacts DEF IInv, Rest, Collected, TypeOK
<1>1. Len(cands) \in Nat /\ Len(attempts) \in Nat
  BY <1>0 DEF TypeOK
<1>2. /\ strategy = "ordered" => cands' = cands
      /\ \A k \in 1..Len(cands') : \E j \in 1..Len(cands) : cands'[k] = cands[j]
  <2>1. CASE strategy = "ordered" \/ cands = <<>>
    BY <1>0, <2>1, Zenon DEF Collected
  <2>2. CASE ~(strategy = "ordered" \/ cands = <<>>)
    <3>1. PICK k \in 1..Len(cands) : cands' = <<cands[k]>>
      BY <1>0, <2>2 DEF Collected, Preferred, TypeOK
    <3> QED
      BY <2>2, <3>1
  <2> QED
    BY <2>1, <2>2
<1>3. /\ strategy = "ordered" => pc' = "walk" /\ Len(attempts) = 0
      /\ strategy = "weighted" => pc' \in {"instead", "probe", "pick"}
      /\ strategy \in {"ordered", "weighted"}
  BY <1>0 DEF OrderInv, WeightedInv, TypeOK
<1>4. StartInv' /\ AttemptInv' /\ RowInv'
  BY <1>0, <1>3 DEF StartInv, AttemptInv, RowInv
<1>5. FailedInv'
  BY <1>0, <1>3 DEF FailedInv
<1>6. VerdictInv'
  BY <1>0, <1>1, <1>3 DEF VerdictInv, WeightedInv
<1>7. OrderInv'
  BY <1>0, <1>1, <1>2, <1>3 DEF OrderInv
<1>8. CoverInv'
  <2> SUFFICES ASSUME strategy = "ordered", NEW n \in 1..Len(Lines)
               PROVE  Seen(n)'
    BY <1>0, <1>3 DEF CoverInv
  <2>1. n \in 1..(cursor - 1)
    BY <1>0, LinesFacts
  <2> QED
    BY <1>0, <1>2, <2>1 DEF CoverInv, Seen
<1>9. WeightedInv'
  BY <1>0, <1>2, <1>3 DEF WeightedInv
<1>10. ReasonInv'
  BY <1>0, <1>2, <1>3 DEF ReasonInv
<1> QED
  BY <1>4, <1>5, <1>6, <1>7, <1>8, <1>9, <1>10 DEF Rest

LEMMA ExecuteStep ==
    ASSUME IInv, NEW outcome \in Outcomes, Execute(outcome)
    PROVE  Rest'
<1>0. /\ TypeOK /\ OrderInv /\ CoverInv /\ WeightedInv /\ FailedInv /\ ReasonInv
      /\ RowInv /\ pc = "attempt" /\ pc' = "judge" /\ Len(cands) > 0
      /\ cands' = cands /\ response' = response /\ passed' = passed
      /\ strategy' = strategy /\ after' = after /\ reason' = reason /\ row' = row
  BY DEF IInv, Rest, Execute, AttemptInv
<1>1. /\ Len(cands) \in Nat /\ Len(attempts) \in Nat /\ AttemptLimit \in Nat
      /\ Head(cands) = cands[1] /\ cands[1] \in 1..Len(Lines)
  BY <1>0, LinesFacts, TailFacts DEF TypeOK
<1>2. /\ Len(attempts') = Len(attempts) + 1
      /\ \A k \in 1..Len(attempts) : attempts'[k] = attempts[k]
      /\ attempts'[Len(attempts) + 1].line = cands[1]
      /\ attempts'[Len(attempts) + 1].outcome = outcome
  <2> DEFINE x == [line |-> cands[1], outcome |-> outcome]
  <2>1. x \in [line : 1..Len(Lines), outcome : Outcomes]
    BY <1>1
  <2>2. attempts' = Append(attempts, x)
    BY <1>1 DEF Execute
  <2>3. x.line = cands[1] /\ x.outcome = outcome
    OBVIOUS
  <2> HIDE DEF x
  <2> QED
    BY <1>0, <2>1, <2>2, <2>3, AppendFacts DEF TypeOK
<1>3. \A k \in 1..Len(attempts) : attempts[k].line \in 1..Len(Lines)
  <2>1. \A k \in 1..Len(attempts) :
          attempts[k] \in [line : 1..Len(Lines), outcome : Outcomes]
    BY <1>0, ElementFacts, Zenon DEF TypeOK
  <2> QED
    BY <2>1
<1>4. StartInv' /\ AttemptInv' /\ RowInv' /\ VerdictInv'
  BY <1>0, <1>1, <1>2 DEF StartInv, AttemptInv, RowInv, VerdictInv
<1>5. OrderInv'
  <2> SUFFICES ASSUME strategy = "ordered" PROVE OrderInv'
    BY <1>0 DEF OrderInv
  <2>1. \A i \in 1..Len(attempts) : attempts[i].line < cands[1]
    BY <1>0, <1>1 DEF OrderInv
  <2>2. \A i, j \in 1..Len(attempts') : i < j => attempts'[i].line < attempts'[j].line
    <3> TAKE i, j \in 1..Len(attempts')
    <3>1. CASE j = Len(attempts) + 1
      BY <1>1, <1>2, <2>1, <3>1
    <3>2. CASE j # Len(attempts) + 1 /\ i < j
      <4>1. i \in 1..Len(attempts) /\ j \in 1..Len(attempts)
        BY <1>1, <1>2, <3>2
      <4> QED
        BY <1>0, <1>2, <3>2, <4>1 DEF OrderInv
    <3> QED
      BY <3>1, <3>2
  <2>3. \A i \in 1..Len(attempts'), j \in 2..Len(cands) : attempts'[i].line < cands[j]
    <3> TAKE i \in 1..Len(attempts'), j \in 2..Len(cands)
    <3>1. CASE i = Len(attempts) + 1
      BY <1>0, <1>1, <1>2, <3>1 DEF OrderInv
    <3>2. CASE i \in 1..Len(attempts)
      BY <1>0, <1>1, <1>2, <3>2 DEF OrderInv
    <3> QED
      BY <1>1, <1>2, <3>1, <3>2
  <2>4. Len(attempts') <= AttemptLimit
    BY <1>0, <1>1, <1>2 DEF OrderInv
  <2>5. \A i, j \in 1..Len(cands) : i < j => cands[i] < cands[j]
    BY <1>0 DEF OrderInv
  <2> QED
    BY <1>0, <2>2, <2>3, <2>4, <2>5 DEF OrderInv
<1>6. CoverInv'
  <2>1. \A n \in 1..Len(Lines) : Seen(n) => Seen(n)'
    BY <1>0, <1>1, <1>2 DEF Seen
  <2> QED
    BY <1>0, <1>1, <1>2, <2>1 DEF CoverInv
<1>7. WeightedInv'
  BY <1>0, <1>1, <1>2 DEF WeightedInv
<1>8. FailedInv'
  BY <1>0, <1>1, <1>2 DEF FailedInv
<1>9. ReasonInv'
  BY <1>0, <1>1, <1>2 DEF ReasonInv
<1> QED
  BY <1>4, <1>5, <1>6, <1>7, <1>8, <1>9 DEF Rest

LEMMA WalkStep ==
    ASSUME IInv, Walk
    PROVE  Rest'
<1>0. /\ TypeOK /\ OrderInv /\ CoverInv /\ FailedInv /\ ReasonInv /\ VerdictInv
      /\ RowInv /\ pc = "walk" /\ strategy = "ordered"
      /\ attempts' = attempts /\ cursor' = cursor
      /\ strategy' = strategy /\ after' = after /\ reason' = reason /\ row' = row
  BY DEF IInv, Rest, Walk, TypeOK, WeightedInv
<1>1. /\ Len(cands) \in Nat /\ Len(attempts) \in Nat /\ AttemptLimit \in Nat
      /\ cands = <<>> <=> Len(cands) = 0
  BY <1>0, LinesFacts DEF TypeOK
<1>2. CASE cands = <<>> \/ Len(attempts) >= AttemptLimit
  <2>0. pc' = "settle" /\ cands' = cands /\ response' = response /\ passed' = passed
    BY <1>2 DEF Walk
  <2>1. Len(attempts) > 0 => /\ response.status = attempts[Len(attempts)].outcome
                             /\ Failed(attempts[Len(attempts)].outcome)
    BY <1>0, <1>1 DEF VerdictInv, FailedInv
  <2>2. StartInv' /\ AttemptInv' /\ RowInv' /\ OrderInv' /\ FailedInv' /\ ReasonInv'
    BY <1>0, <1>1, <2>0 DEF StartInv, AttemptInv, RowInv, OrderInv, FailedInv, ReasonInv
  <2>3. CoverInv'
    BY <1>0, <1>1, <1>2, <2>0 DEF CoverInv, Seen, OrderInv
  <2>4. VerdictInv'
    BY <1>0, <1>1, <2>0, <2>1 DEF VerdictInv, Failed, Retryable, TransportErrors
  <2>5. WeightedInv'
    BY <1>0 DEF WeightedInv
  <2> QED
    BY <2>2, <2>3, <2>4, <2>5 DEF Rest
<1>3. CASE ~(cands = <<>> \/ Len(attempts) >= AttemptLimit) /\ Account(Head(cands)) \notin avail
  <2>0. /\ pc' = "walk" /\ cands' = Tail(cands) /\ response' = response
        /\ passed' = passed \cup {cands[1]} /\ Len(cands) > 0
    BY <1>0, <1>1, <1>3, TailFacts DEF Walk, TypeOK
  <2>1. Len(cands') = Len(cands) - 1 /\ \A k \in 1..Len(cands') : cands'[k] = cands[k + 1]
    BY <1>0, <2>0, TailFacts DEF TypeOK
  <2>2. StartInv' /\ AttemptInv' /\ RowInv' /\ FailedInv' /\ VerdictInv'
    BY <1>0, <1>1, <2>0 DEF StartInv, AttemptInv, RowInv, FailedInv, VerdictInv
  <2>3. OrderInv'
    BY <1>0, <1>1, <2>0, <2>1 DEF OrderInv
  <2>4. CoverInv'
    <3> SUFFICES ASSUME NEW n \in 1..Len(Lines) PROVE Seen(n)'
      BY <2>0 DEF CoverInv
    <3>1. CASE \E k \in 1..Len(cands) : cands[k] = n
      <4>1. PICK k \in 1..Len(cands) : cands[k] = n
        BY <3>1
      <4>2. CASE k = 1
        BY <2>0, <4>1, <4>2 DEF Seen
      <4>3. CASE k # 1
        <5>1. k - 1 \in 1..Len(cands') /\ (k - 1) + 1 = k
          BY <1>1, <2>1, <4>3
        <5> QED
          BY <2>1, <4>1, <5>1 DEF Seen
      <4> QED
        BY <4>2, <4>3
    <3>2. CASE ~\E k \in 1..Len(cands) : cands[k] = n
      BY <1>0, <2>0, <3>2 DEF CoverInv, Seen
    <3> QED
      BY <3>1, <3>2
  <2>5. WeightedInv'
    BY <1>0 DEF WeightedInv
  <2>6. ReasonInv'
    BY <1>0, <1>1, <2>0, <2>1 DEF ReasonInv
  <2> QED
    BY <2>2, <2>3, <2>4, <2>5, <2>6 DEF Rest
<1>4. CASE /\ ~(cands = <<>> \/ Len(attempts) >= AttemptLimit)
           /\ Account(Head(cands)) \in avail
  <2>0. /\ cands' = cands /\ passed' = passed /\ Len(cands) > 0
        /\ Len(attempts) < AttemptLimit
        /\ \/ pc' = "settle" /\ response' = Gateway("total")
           \/ pc' = "attempt" /\ response' = response
    BY <1>1, <1>4 DEF Walk
  <2>1. Gateway("total").status = "total"
    BY DEF Gateway
  <2>2. StartInv' /\ AttemptInv' /\ RowInv' /\ OrderInv' /\ FailedInv' /\ ReasonInv'
    BY <1>0, <1>1, <2>0 DEF StartInv, AttemptInv, RowInv, OrderInv, FailedInv, ReasonInv
  <2>3. CoverInv'
    BY <1>0, <2>0, <2>1 DEF CoverInv, Seen, Retryable
  <2>4. VerdictInv'
    BY <1>0, <1>1, <2>0, <2>1 DEF VerdictInv, FailedInv, Failed, Retryable, TransportErrors
  <2>5. WeightedInv'
    BY <1>0 DEF WeightedInv
  <2> QED
    BY <2>2, <2>3, <2>4, <2>5 DEF Rest
<1> QED
  BY <1>2, <1>3, <1>4

LEMMA JudgeOrderedStep ==
    ASSUME IInv, JudgeOrdered
    PROVE  Rest'
<1>0. /\ TypeOK /\ OrderInv /\ CoverInv /\ FailedInv /\ ReasonInv /\ RowInv
      /\ pc = "judge" /\ strategy = "ordered" /\ Len(attempts) > 0 /\ Len(cands) > 0
      /\ attempts' = attempts /\ passed' = passed
      /\ strategy' = strategy /\ after' = after /\ row' = row
  BY DEF IInv, Rest, JudgeOrdered, AttemptInv
<1>1. /\ Len(cands) \in Nat /\ Len(attempts) \in Nat /\ AttemptLimit \in Nat
      /\ Len(cands') = Len(cands) - 1
      /\ \A k \in 1..Len(cands') : cands'[k] = cands[k + 1]
  BY <1>0, LinesFacts, TailFacts DEF TypeOK, JudgeOrdered
<1>2. /\ LastAttempt.outcome \in Outcomes /\ Answer.status = LastAttempt.outcome
      /\ LastAttempt = attempts[Len(attempts)]
  BY <1>0, LastFacts DEF LastAttempt
<1>3. /\ response'.status = LastAttempt.outcome
      /\ \/ pc' = "walk" /\ Failed(LastAttempt.outcome)
         \/ pc' = "settle" /\ LastAttempt.outcome \notin Retryable \cup {"transport", "connect"}
      /\ reason' = IF reason = "none" /\ Failed(LastAttempt.outcome) THEN LastAttempt.outcome ELSE reason
  BY <1>2 DEF JudgeOrdered, Failed, TransportErrors, ReasonAfter
<1>4. StartInv' /\ AttemptInv' /\ RowInv' /\ WeightedInv'
  BY <1>0, <1>3 DEF StartInv, AttemptInv, RowInv, WeightedInv
<1>5. OrderInv'
  <2>1. \A j \in 1..Len(cands') : j + 1 \in 2..Len(cands) /\ j + 1 \in 1..Len(cands)
    BY <1>1
  <2>2. \A i \in 1..Len(attempts), j \in 1..Len(cands') : attempts[i].line < cands'[j]
    BY <1>0, <1>1, <2>1 DEF OrderInv
  <2>3. \A i, j \in 1..Len(cands') : i < j => cands'[i] < cands'[j]
    <3> TAKE i, j \in 1..Len(cands')
    <3>1. i + 1 \in 1..Len(cands) /\ j + 1 \in 1..Len(cands) /\ (i < j => i + 1 < j + 1)
      BY <2>1
    <3> QED
      BY <1>0, <1>1, <3>1 DEF OrderInv
  <2> QED
    BY <1>0, <1>3, <2>2, <2>3 DEF OrderInv
<1>6. CoverInv'
  <2> SUFFICES ASSUME NEW n \in 1..Len(Lines) PROVE Seen(n)'
    BY <1>3 DEF CoverInv
  <2>1. CASE \E k \in 1..Len(cands) : cands[k] = n
    <3>1. PICK k \in 1..Len(cands) : cands[k] = n
      BY <2>1
    <3>2. CASE k = 1
      BY <1>0, <1>1, <3>1, <3>2 DEF CoverInv, Seen
    <3>3. CASE k # 1
      <4>1. k - 1 \in 1..Len(cands') /\ (k - 1) + 1 = k
        BY <1>1, <3>3
      <4> QED
        BY <1>1, <3>1, <4>1 DEF Seen
    <3> QED
      BY <3>2, <3>3
  <2>2. CASE ~\E k \in 1..Len(cands) : cands[k] = n
    BY <1>0, <2>2 DEF CoverInv, Seen
  <2> QED
    BY <2>1, <2>2
<1>7. FailedInv'
  BY <1>0, <1>1, <1>2, <1>3 DEF FailedInv
<1>8. ReasonInv'
  <2>1. LastAttempt.outcome \notin {"none", "account"}
    BY <1>2 DEF Outcomes
  <2> QED
    BY <1>0, <1>1, <1>2, <1>3, <2>1 DEF ReasonInv
<1>9. VerdictInv'
  <2>1. LastAttempt.outcome # "none"
    BY <1>2 DEF Outcomes
  <2> QED
    BY <1>0, <1>2, <1>3, <2>1 DEF VerdictInv
<1> QED
  BY <1>4, <1>5, <1>6, <1>7, <1>8, <1>9 DEF Rest

LEMMA JudgeFirstStep ==
    ASSUME IInv, JudgeFirst
    PROVE  Rest'
<1>0. /\ TypeOK /\ WeightedInv /\ FailedInv /\ RowInv
      /\ pc = "judge" /\ strategy = "weighted" /\ after = "first"
      /\ Len(attempts) = 1 /\ attempts[1].line = 1 /\ reason = "none"
      /\ attempts' = attempts /\ strategy' = strategy /\ row' = row
      /\ Len(cands') = 0
  BY DEF IInv, Rest, JudgeFirst, WeightedInv
<1>2. /\ LastAttempt.outcome \in Outcomes /\ Answer.status = LastAttempt.outcome
      /\ LastAttempt = attempts[1]
  BY <1>0, LastFacts DEF LastAttempt
<1>3. /\ response'.status = LastAttempt.outcome
      /\ \/ pc' = "collect" /\ after' \in {"probe", "pick"} /\ Failed(LastAttempt.outcome)
            /\ reason' = LastAttempt.outcome
         \/ pc' = "settle" /\ after' = "first" /\ ~Failed(LastAttempt.outcome) /\ reason' = "none"
  BY <1>0, <1>2 DEF JudgeFirst, Failed, TransportErrors, ReasonAfter
<1>4. LastAttempt.outcome \notin {"none", "account"}
  BY <1>2 DEF Outcomes
<1>5. StartInv' /\ AttemptInv' /\ RowInv' /\ OrderInv' /\ CoverInv'
  BY <1>0, <1>3 DEF StartInv, AttemptInv, RowInv, OrderInv, CoverInv
<1>6. WeightedInv'
  BY <1>0, <1>2, <1>3 DEF WeightedInv
<1>7. FailedInv' /\ ReasonInv' /\ VerdictInv'
  <2>0. Len(attempts') = 1 /\ \A k \in 1..Len(attempts') : attempts'[k] = LastAttempt
    <3>1. \A k \in 1..Len(attempts) : attempts[k] = LastAttempt
      BY <1>0, <1>2
    <3> QED
      BY <1>0, <3>1
  <2>1. FailedInv'
    BY <2>0, <1>3 DEF FailedInv
  <2>2. ReasonInv'
    <3>1. reason' # "account" /\ strategy' # "ordered"
      BY <1>0, <1>3, <1>4
    <3>2. reason' \notin {"none", "account"} =>
            Len(attempts') > 0 /\ attempts'[1].outcome = reason'
      BY <1>3, <2>0
    <3> QED
      BY <3>1, <3>2 DEF ReasonInv
  <2>3. VerdictInv'
    BY <1>0, <1>2, <1>3, <1>4 DEF VerdictInv
  <2> QED
    BY <2>1, <2>2, <2>3
<1> QED
  BY <1>5, <1>6, <1>7 DEF Rest

LEMMA JudgeLastStep ==
    ASSUME IInv, JudgeLast
    PROVE  Rest'
<1>0. /\ TypeOK /\ WeightedInv /\ FailedInv /\ ReasonInv /\ RowInv
      /\ pc = "judge" /\ strategy = "weighted" /\ after # "first" /\ pc' = "settle"
      /\ Len(attempts) > 0 /\ cands' = cands
      /\ attempts' = attempts /\ strategy' = strategy /\ row' = row /\ after' = after
      /\ reason' = reason
  BY DEF IInv, Rest, JudgeLast, AttemptInv
<1>2. /\ LastAttempt.outcome \in Outcomes /\ Answer.status = LastAttempt.outcome
      /\ LastAttempt = attempts[Len(attempts)] /\ Gateway("unavailable").status = "unavailable"
  BY <1>0, LastFacts DEF LastAttempt, Gateway
<1>3. \/ response'.status = LastAttempt.outcome
      \/ /\ LastAttempt.outcome \in TransportErrors
         /\ response'.status = "unavailable" \/ response'.status \in Retryable
  BY <1>2 DEF JudgeLast
<1>4. StartInv' /\ AttemptInv' /\ RowInv' /\ OrderInv' /\ CoverInv'
  BY <1>0 DEF StartInv, AttemptInv, RowInv, OrderInv, CoverInv
<1>5. WeightedInv' /\ FailedInv' /\ ReasonInv'
  BY <1>0 DEF WeightedInv, FailedInv, ReasonInv
<1>6. VerdictInv'
  <2>1. LastAttempt.outcome # "none"
    BY <1>2 DEF Outcomes
  <2> QED
    BY <1>0, <1>2, <1>3, <2>1 DEF VerdictInv, Failed, Retryable, TransportErrors
<1> QED
  BY <1>4, <1>5, <1>6 DEF Rest

\* The steps of the weighted policy between two selections or attempts.
LEMMA InsteadStep ==
    ASSUME IInv, Instead
    PROVE  Rest'
<1>0. /\ TypeOK /\ WeightedInv /\ FailedInv /\ ReasonInv /\ RowInv
      /\ pc = "instead" /\ strategy = "weighted" /\ after = "instead"
      /\ Len(attempts) = 0 /\ response = NoResponse /\ cands' = cands
      /\ attempts' = attempts /\ strategy' = strategy /\ row' = row /\ after' = after
      /\ reason' = reason
  BY DEF IInv, Rest, Instead, TypeOK, WeightedInv, OrderInv
<1>1. \/ pc' = "settle"
      \/ pc' = "attempt" /\ Len(cands) > 0 /\ response' = response
  BY <1>0 DEF Instead, TypeOK
<1>2. StartInv' /\ AttemptInv' /\ RowInv' /\ OrderInv' /\ CoverInv'
  BY <1>0, <1>1 DEF StartInv, AttemptInv, RowInv, OrderInv, CoverInv
<1>3. WeightedInv'
  BY <1>0, <1>1 DEF WeightedInv
<1>4. FailedInv' /\ ReasonInv' /\ VerdictInv'
  BY <1>0, <1>1 DEF FailedInv, ReasonInv, VerdictInv
<1> QED
  BY <1>2, <1>3, <1>4 DEF Rest

LEMMA ProbeStep ==
    ASSUME IInv, Probe
    PROVE  Rest'
<1>0. /\ TypeOK /\ WeightedInv /\ FailedInv /\ ReasonInv /\ RowInv
      /\ pc = "probe" /\ strategy = "weighted" /\ after = "probe"
      /\ Len(attempts) = 1 /\ response.status = attempts[1].outcome
      /\ attempts' = attempts /\ strategy' = strategy /\ row' = row
      /\ response' = response /\ reason' = reason
  BY DEF IInv, Rest, Probe, TypeOK, WeightedInv, OrderInv
<1>1. \/ /\ pc' = "attempt" /\ after' = "again" /\ response.status = "short"
         /\ Len(cands') = 1
      \/ pc' = "collect" /\ after' = "pick" /\ Len(cands') = 0
  BY <1>0 DEF Probe
<1>2. reason = attempts[1].outcome /\ reason # "account"
  <2>1. reason = attempts[1].outcome /\ Failed(attempts[1].outcome)
    BY <1>0 DEF WeightedInv
  <2> QED
    BY <2>1 DEF Failed, Retryable, TransportErrors
<1>3. StartInv' /\ AttemptInv' /\ RowInv' /\ OrderInv' /\ CoverInv'
  BY <1>0, <1>1 DEF StartInv, AttemptInv, RowInv, OrderInv, CoverInv
<1>4. WeightedInv'
  BY <1>0, <1>1 DEF WeightedInv
<1>5. FailedInv' /\ ReasonInv' /\ VerdictInv'
  BY <1>0, <1>1, <1>2 DEF FailedInv, ReasonInv, VerdictInv
<1> QED
  BY <1>3, <1>4, <1>5 DEF Rest

LEMMA PickStep ==
    ASSUME IInv, Pick
    PROVE  Rest'
<1>0. /\ TypeOK /\ WeightedInv /\ FailedInv /\ ReasonInv /\ RowInv
      /\ pc = "pick" /\ strategy = "weighted" /\ after = "pick"
      /\ Len(attempts) = 1 /\ response.status = attempts[1].outcome
      /\ Failed(attempts[1].outcome)
      /\ cands' = cands /\ after' = after
      /\ attempts' = attempts /\ strategy' = strategy /\ row' = row
      /\ response' = response /\ reason' = reason
  BY DEF IInv, Rest, Pick, TypeOK, WeightedInv, OrderInv
<1>1. pc' = "settle" \/ (pc' = "attempt" /\ Len(cands) > 0)
  BY <1>0 DEF Pick, TypeOK
<1>2. StartInv' /\ AttemptInv' /\ RowInv' /\ OrderInv' /\ CoverInv'
  BY <1>0, <1>1 DEF StartInv, AttemptInv, RowInv, OrderInv, CoverInv
<1>3. WeightedInv'
  BY <1>0, <1>1 DEF WeightedInv
<1>4. FailedInv' /\ ReasonInv' /\ VerdictInv'
  BY <1>0, <1>1 DEF FailedInv, ReasonInv, VerdictInv, Failed, Retryable, TransportErrors
<1> QED
  BY <1>2, <1>3, <1>4 DEF Rest

LEMMA SettleStep ==
    ASSUME IInv, Settle
    PROVE  Rest'
<1>0. /\ TypeOK /\ OrderInv /\ CoverInv /\ WeightedInv /\ FailedInv /\ ReasonInv
      /\ VerdictInv /\ pc = "settle" /\ pc' = "done" /\ cands' = cands
      /\ attempts' = attempts /\ strategy' = strategy /\ after' = after
      /\ reason' = reason /\ passed' = passed
  BY DEF IInv, Rest, Settle
<1>1. /\ response # NoResponse => response' = response
      /\ response = NoResponse => response'.status = "unavailable" /\ response.status = "none"
  BY DEF Settle, Gateway, NoResponse
<1>2. row' = [upstream |-> Upstream, status |-> response'.status,
              success |-> response'.status = "success", attempts |-> attempts,
              reason |-> RecordedReason,
              timeout |-> strategy = "ordered" /\ response'.status = "total"]
  BY DEF Settle
<1>3. RowInv'
  <2>1. Upstream' = Upstream /\ RecordedReason' = RecordedReason
    BY <1>0 DEF Upstream, LastAttempt, RecordedReason
  <2> QED
    BY <1>0, <1>2, <2>1 DEF RowInv
<1>4. StartInv' /\ AttemptInv' /\ OrderInv' /\ FailedInv' /\ ReasonInv'
  BY <1>0 DEF StartInv, AttemptInv, OrderInv, FailedInv, ReasonInv
<1>5. CoverInv'
  BY <1>0, <1>1 DEF CoverInv, Seen, Retryable
<1>6. WeightedInv'
  BY <1>0 DEF WeightedInv
<1>7. VerdictInv'
  BY <1>0, <1>1 DEF VerdictInv
<1> QED
  BY <1>3, <1>4, <1>5, <1>6, <1>7 DEF Rest

-----------------------------------------------------------------------------
(* Results. *)

LEMMA InvInit == Init => IInv
<1> SUFFICES ASSUME Init PROVE IInv
  OBVIOUS
<1>1. TypeOK
  <2>1. NoResponse \in [status : Statuses, of : Nat]
    BY DEF NoResponse, Statuses
  <2>2. /\ <<>> \in Seq(1..Len(Lines))
        /\ <<>> \in Seq([line : 1..Len(Lines), outcome : Outcomes])
    OBVIOUS
  <2>3. 2 \in 2..(Len(Lines) + 1)
    BY LinesFacts
  <2> QED
    BY <2>1, <2>2, <2>3 DEF Init, TypeOK, Places
<1>2. StartInv /\ AttemptInv /\ FailedInv /\ ReasonInv /\ VerdictInv /\ RowInv
  BY DEF Init, StartInv, AttemptInv, FailedInv, ReasonInv, VerdictInv, RowInv
<1>3. OrderInv /\ CoverInv /\ WeightedInv
  BY LinesFacts DEF Init, OrderInv, CoverInv, WeightedInv
<1> QED
  BY <1>1, <1>2, <1>3 DEF IInv, Rest

LEMMA InvStep == IInv /\ [Next]_vars => IInv'
<1> SUFFICES ASSUME IInv, [Next]_vars PROVE Rest'
  BY TypeStep DEF IInv
<1>1. CASE Environment \/ Expire \/ UNCHANGED vars
  BY <1>1, QuietStep DEF Environment, Expire, vars
<1>2. CASE Start
  BY <1>2, StartStep
<1>3. CASE CollectOne
  BY <1>3, CollectOneStep
<1>4. CASE Collected
  BY <1>4, CollectedStep
<1>5. ASSUME NEW outcome \in Outcomes, Execute(outcome) PROVE Rest'
  BY <1>5, ExecuteStep
<1>6. CASE Walk
  BY <1>6, WalkStep
<1>7. CASE JudgeOrdered
  BY <1>7, JudgeOrderedStep
<1>8. CASE Instead
  BY <1>8, InsteadStep
<1>9. CASE JudgeFirst
  BY <1>9, JudgeFirstStep
<1>10. CASE JudgeLast
  BY <1>10, JudgeLastStep
<1>11. CASE Probe
  BY <1>11, ProbeStep
<1>12. CASE Pick
  BY <1>12, PickStep
<1>13. CASE Settle
  BY <1>13, SettleStep
<1> QED
  BY <1>1, <1>2, <1>3, <1>4, <1>5, <1>6, <1>7, <1>8, <1>9, <1>10, <1>11, <1>12,
     <1>13 DEF Next

LEMMA Invariance == Spec => []IInv
  BY InvInit, InvStep, PTL DEF Spec

\* The variables keep their types (proxy/ordered.rs, proxy/weighted.rs): in
\* particular every candidate and attempt is a line of the route.
THEOREM TypeCorrect == Spec => []TypeOK
<1>1. IInv => TypeOK
  BY DEF IInv
<1> QED
  BY Invariance, <1>1, PTL

\* For every route, limit and course of the accounts' health: the ordered
\* policy tries each line at most once, in order and within its limit, the
\* weighted one at most twice, and nothing is sent after a final answer.
THEOREM AttemptsDisciplined == Spec => []AttemptDiscipline
<1>1. IInv => AttemptDiscipline
  <2> SUFFICES ASSUME IInv PROVE AttemptDiscipline
    OBVIOUS
  <2>0. TypeOK /\ OrderInv /\ WeightedInv /\ FailedInv /\ StartInv
    BY DEF IInv, Rest
  <2>1. strategy = "ordered" =>
          /\ Len(attempts) <= AttemptLimit
          /\ \A j, k \in 1..Len(attempts) : j < k => attempts[j].line < attempts[k].line
    BY <2>0 DEF OrderInv
  <2>2. strategy = "weighted" => Len(attempts) <= 2
    <3>1. /\ Len(attempts) \in Nat
          /\ after \in {"none", "walk", "first", "instead", "probe", "pick", "again"}
      BY <2>0 DEF TypeOK
    <3>2. ASSUME strategy = "weighted", after = "first" PROVE Len(attempts) <= 2
      <4>1. Len(attempts) \in {0, 1}
        BY <2>0, <3>2 DEF WeightedInv
      <4> QED
        BY <4>1
    <3>3. ASSUME strategy = "weighted", after = "none" PROVE Len(attempts) <= 2
      BY <2>0, <3>1, <3>3 DEF WeightedInv, StartInv
    <3>4. ASSUME strategy = "weighted", after = "instead" PROVE Len(attempts) <= 2
      <4>1. Len(attempts) <= 1
        BY <2>0, <3>4 DEF WeightedInv
      <4> QED
        BY <3>1, <4>1
    <3>5. ASSUME strategy = "weighted", after \in {"probe", "pick", "again"}
          PROVE  Len(attempts) <= 2
      BY <2>0, <3>5 DEF WeightedInv
    <3>6. strategy = "weighted" => after # "walk"
      BY <2>0 DEF WeightedInv
    <3> QED
      BY <3>1, <3>2, <3>3, <3>4, <3>5, <3>6
  <2>3. ASSUME strategy = "weighted", Len(attempts) = 2,
               attempts[1].line = attempts[2].line
        PROVE  attempts[1].outcome = "short"
    BY <2>0, <2>3 DEF WeightedInv, StartInv, TypeOK
  <2>4. \A k \in 1..(Len(attempts) - 1) :
          attempts[k].outcome \in Retryable \cup TransportErrors
    BY <2>0 DEF FailedInv, Failed
  <2> QED
    BY <2>1, <2>2, <2>3, <2>4 DEF AttemptDiscipline
<1> QED
  BY Invariance, <1>1, PTL

\* The usage row is attributed to the attempt that decided the request, with
\* its verdict, and the fallback reason it records is true
\* (RequestCompletion::finish, FinalUpstream).
THEOREM AttributionHolds == Spec => []AttributionTruthful
<1>1. IInv => AttributionTruthful
  <2> SUFFICES ASSUME IInv, row # NoRow
               PROVE  AttributionTruthful
    BY DEF AttributionTruthful
  <2>0. TypeOK /\ ReasonInv /\ VerdictInv /\ pc = "done"
    BY DEF IInv, Rest, RowInv
  <2>1. /\ row.upstream = Upstream /\ row.attempts = attempts
        /\ row.status = response.status /\ (row.success <=> response.status = "success")
        /\ row.reason = RecordedReason
    BY <2>0 DEF IInv, Rest, RowInv
  <2>2. Len(attempts) \in Nat /\ (attempts = <<>> <=> Len(attempts) = 0)
        /\ DOMAIN attempts = 1..Len(attempts)
    BY <2>0 DEF TypeOK
  <2>3. ASSUME attempts # <<>>
        PROVE  /\ row.upstream = LastAttempt.line
               /\ row.success <=> LastAttempt.outcome = "success"
               /\ LastAttempt.outcome \notin Retryable \cup TransportErrors =>
                     row.status = LastAttempt.outcome
    <3>1. Len(attempts) > 0
      BY <2>2, <2>3
    <3>2. row.upstream = LastAttempt.line
      BY <2>1, <2>3 DEF Upstream
    <3>3. row.success <=> LastAttempt.outcome = "success"
      BY <2>0, <2>1, <3>1 DEF VerdictInv, LastAttempt
    <3>4. LastAttempt.outcome \notin Retryable \cup TransportErrors => row.status = LastAttempt.outcome
      BY <2>0, <2>1, <3>1 DEF VerdictInv, LastAttempt, Failed
    <3> QED
      BY <3>2, <3>3, <3>4
  <2>4. ASSUME row.reason # "none"
        PROVE  \/ row.reason = "account" /\ \A k \in DOMAIN attempts : attempts[k].line # 1
               \/ Len(attempts) > 1 /\ attempts[1].outcome = row.reason
    BY <2>0, <2>1, <2>2, <2>4 DEF RecordedReason, ReasonInv
  <2> QED
    BY <2>1, <2>3, <2>4 DEF AttributionTruthful
<1> QED
  BY Invariance, <1>1, PTL

\* The ordered policy never gives up while an untried line it has not found
\* unavailable is left within its limit and its time.
THEOREM GiveUpJustified == Spec => []NoEarlyGiveUp
<1>1. IInv => NoEarlyGiveUp
  <2> SUFFICES ASSUME IInv, row # NoRow, strategy = "ordered",
                      row.status \in Retryable \cup {"transport", "connect"},
                      Len(attempts) # AttemptLimit,
                      NEW n \in DOMAIN Lines
               PROVE  n \in passed \/ \E k \in DOMAIN attempts : attempts[k].line = n
    BY DEF NoEarlyGiveUp
  <2>1. /\ TypeOK /\ CoverInv /\ pc = "done" /\ row.status = response.status
    BY DEF IInv, Rest, RowInv
  <2>2. Len(cands) = 0 /\ Seen(n)
    BY <2>1, LinesFacts DEF CoverInv
  <2> QED
    BY <2>1, <2>2 DEF Seen, TypeOK
<1> QED
  BY Invariance, <1>1, PTL

-----------------------------------------------------------------------------
(* RoutingConfig.  First, numbers and orders. *)

LEMMA LeastNumber ==
    ASSUME NEW S \in SUBSET Nat, S # {}
    PROVE  \E n \in S : \A m \in S : n <= m
<1> DEFINE R == OpToRel(<, Nat)
<1>1. IsWellFoundedOn(R, Nat)
  BY NatLessThanWellFounded
<1>2. \A m, n \in S : <<m, n>> \in R <=> m < n
  BY DEF OpToRel
<1> HIDE DEF R
<1>3. PICK n \in S : \A m \in S : <<m, n>> \notin R
  BY <1>1, WFMin
<1>4. \A m \in S : ~(m < n)
  BY <1>2, <1>3
<1> QED
  BY <1>4

\* Induction, over the set of numbers that satisfy a property.
LEMMA CountingUp ==
    ASSUME NEW S, 0 \in S, \A n \in Nat : n \in S => n + 1 \in S
    PROVE  Nat \subseteq S
<1> SUFFICES ASSUME ~(Nat \subseteq S) PROVE FALSE
  OBVIOUS
<1> DEFINE T == Nat \ S
<1>1. PICK n \in T : \A m \in T : n <= m
  BY LeastNumber
<1>2. n - 1 \in Nat /\ n - 1 \notin T
  BY <1>1
<1> QED
  BY <1>1, <1>2

-----------------------------------------------------------------------------
\* A strict total order on a set, as a set of pairs.
Orders(R, S) ==
    /\ \A x \in S : <<x, x>> \notin R
    /\ \A x, y, z \in S : <<x, y>> \in R /\ <<y, z>> \in R => <<x, z>> \in R
    /\ \A x, y \in S : x = y \/ <<x, y>> \in R \/ <<y, x>> \in R

Before(R, S, b) == {x \in S : <<x, b>> \in R}

\* The elements of a finite ordered set are numbered by how many come before.
LEMMA Ranked ==
    ASSUME NEW S, IsFiniteSet(S), NEW R, Orders(R, S)
    PROVE  /\ \A b \in S : Cardinality(Before(R, S, b)) \in 0..(Cardinality(S) - 1)
           /\ \A b, c \in S : Cardinality(Before(R, S, b)) = Cardinality(Before(R, S, c)) => b = c
           /\ \A i \in 0..(Cardinality(S) - 1) : \E b \in S : Cardinality(Before(R, S, b)) = i
<1>1. Cardinality(S) \in Nat
  BY FS_CardinalityType
<1>2. \A b \in S : /\ IsFiniteSet(Before(R, S, b))
                   /\ Cardinality(Before(R, S, b)) \in Nat
                   /\ Cardinality(Before(R, S, b)) < Cardinality(S)
  <2> SUFFICES ASSUME NEW b \in S
               PROVE  /\ IsFiniteSet(Before(R, S, b))
                      /\ Cardinality(Before(R, S, b)) \in Nat
                      /\ Cardinality(Before(R, S, b)) < Cardinality(S)
    OBVIOUS
  <2>1. Before(R, S, b) \in SUBSET S /\ b \notin Before(R, S, b)
    BY DEF Before, Orders
  <2>2. /\ IsFiniteSet(Before(R, S, b))
        /\ Cardinality(Before(R, S, b)) <= Cardinality(S)
        /\ Cardinality(Before(R, S, b)) # Cardinality(S)
    BY <2>1, FS_Subset
  <2>3. Cardinality(Before(R, S, b)) \in Nat
    BY <2>2, FS_CardinalityType
  <2> QED
    BY <1>1, <2>2, <2>3
<1>3. \A b, c \in S : <<b, c>> \in R => Cardinality(Before(R, S, b)) < Cardinality(Before(R, S, c))
  <2> SUFFICES ASSUME NEW b \in S, NEW c \in S, <<b, c>> \in R
               PROVE  Cardinality(Before(R, S, b)) < Cardinality(Before(R, S, c))
    OBVIOUS
  <2>1. /\ Before(R, S, b) \in SUBSET Before(R, S, c)
        /\ b \in Before(R, S, c) /\ b \notin Before(R, S, b)
    BY DEF Before, Orders
  <2>2. /\ Cardinality(Before(R, S, b)) <= Cardinality(Before(R, S, c))
        /\ Cardinality(Before(R, S, b)) # Cardinality(Before(R, S, c))
    BY <1>2, <2>1, FS_Subset
  <2> QED
    BY <1>2, <2>2
<1>4. \A b, c \in S : Cardinality(Before(R, S, b)) = Cardinality(Before(R, S, c)) => b = c
  <2> SUFFICES ASSUME NEW b \in S, NEW c \in S, b # c
               PROVE  Cardinality(Before(R, S, b)) # Cardinality(Before(R, S, c))
    OBVIOUS
  <2>1. <<b, c>> \in R \/ <<c, b>> \in R
    BY DEF Orders
  <2> QED
    BY <1>2, <1>3, <2>1
<1>5. \A i \in 0..(Cardinality(S) - 1) : \E b \in S : Cardinality(Before(R, S, b)) = i
  <2> DEFINE N == 0..(Cardinality(S) - 1)
             f == [b \in S |-> Cardinality(Before(R, S, b))]
  <2>1. IsFiniteSet(N) /\ Cardinality(N) = Cardinality(S)
    BY <1>1, FS_Interval
  <2>2. f \in [S -> N]
    BY <1>1, <1>2
  <2>3. f \in Injection(S, N)
    BY <1>4, <2>2 DEF Injection, IsInjective
  <2> HIDE DEF f, N
  <2>4. f \in Surjection(S, N)
    BY <2>1, <2>3, FS_Injection
  <2>5. \A i \in N : \E b \in S : f[b] = i
    BY <2>4 DEF Surjection
  <2> QED
    BY <2>5 DEF f, N
<1> QED
  BY <1>1, <1>2, <1>4, <1>5

\* A finite ordered set that is not empty has a first element.
LEMMA FirstExists ==
    ASSUME NEW S, IsFiniteSet(S), S # {}, NEW R, Orders(R, S)
    PROVE  \E b \in S : \A c \in S \ {b} : <<b, c>> \in R
<1>1. Cardinality(S) \in Nat /\ Cardinality(S) # 0
  BY FS_CardinalityType, FS_EmptySet
<1>2. PICK b \in S : Cardinality(Before(R, S, b)) = 0
  BY <1>1, Ranked
<1>3. Before(R, S, b) \in SUBSET S
  BY DEF Before
<1>4. Before(R, S, b) = {}
  BY <1>2, <1>3, FS_Subset, FS_EmptySet
<1> QED
  BY <1>4 DEF Before, Orders

-----------------------------------------------------------------------------
\* The order of tuples of one length.
LEMMA LexOrders ==
    ASSUME NEW n \in Nat, NEW S, NEW K \in [S -> [1..n -> Int]],
           \A a, b \in S : K[a] = K[b] => a = b
    PROVE  Orders({e \in S \X S : LexLess(K[e[1]], K[e[2]])}, S)
<1> DEFINE R == {e \in S \X S : LexLess(K[e[1]], K[e[2]])}
<1>0. \A a, b \in S : <<a, b>> \in R <=> LexLess(K[a], K[b])
  OBVIOUS
<1>1. \A a \in S : <<a, a>> \notin R
  BY <1>0 DEF LexLess
<1>2. \A a, b, c \in S : <<a, b>> \in R /\ <<b, c>> \in R => <<a, c>> \in R
  <2> SUFFICES ASSUME NEW a \in S, NEW b \in S, NEW c \in S,
                      LexLess(K[a], K[b]), LexLess(K[b], K[c])
               PROVE  LexLess(K[a], K[c])
    BY <1>0
  <2>1. PICK x \in [1..n -> Int], y \in [1..n -> Int], z \in [1..n -> Int] :
           x = K[a] /\ y = K[b] /\ z = K[c]
    OBVIOUS
  <2>2. PICK i \in 1..n : x[i] < y[i] /\ \A j \in 1..(i - 1) : x[j] = y[j]
    BY <2>1 DEF LexLess
  <2>3. PICK k \in 1..n : y[k] < z[k] /\ \A j \in 1..(k - 1) : y[j] = z[j]
    BY <2>1 DEF LexLess
  <2>4. CASE i <= k
    <3>1. x[i] < z[i]
      <4>1. x[i] \in Int /\ y[i] \in Int /\ z[i] \in Int /\ i \in 1..k
        BY <2>4
      <4>2. i = k \/ i \in 1..(k - 1)
        BY <4>1
      <4>3. y[i] <= z[i]
        BY <2>3, <4>1, <4>2
      <4> QED BY <2>2, <4>1, <4>3
    <3>2. \A j \in 1..(i - 1) : x[j] = z[j]
      BY <2>2, <2>3, <2>4
    <3> QED BY <2>1, <3>1, <3>2 DEF LexLess
  <2>5. CASE k < i
    <3>1. x[k] < z[k]
      <4>1. x[k] \in Int /\ y[k] \in Int /\ z[k] \in Int /\ k \in 1..(i - 1)
        BY <2>5
      <4> QED BY <2>2, <2>3, <4>1
    <3>2. \A j \in 1..(k - 1) : x[j] = z[j]
      BY <2>2, <2>3, <2>5
    <3> QED BY <2>1, <3>1, <3>2 DEF LexLess
  <2> QED BY <2>4, <2>5
<1>3. \A a, b \in S : a = b \/ <<a, b>> \in R \/ <<b, a>> \in R
  <2> SUFFICES ASSUME NEW a \in S, NEW b \in S, a # b
               PROVE  LexLess(K[a], K[b]) \/ LexLess(K[b], K[a])
    BY <1>0
  <2>0. K[a] # K[b] /\ K[a] \in [1..n -> Int] /\ K[b] \in [1..n -> Int]
    OBVIOUS
  <2> DEFINE T == {j \in 1..n : K[a][j] # K[b][j]}
  <2>1. \E j \in 1..n : K[a][j] # K[b][j]
    <3> SUFFICES ASSUME \A j \in 1..n : K[a][j] = K[b][j] PROVE FALSE
      OBVIOUS
    <3>1. K[a] = [j \in 1..n |-> K[a][j]] /\ K[b] = [j \in 1..n |-> K[b][j]]
      BY <2>0
    <3> QED BY <2>0, <3>1
  <2>2. T # {} /\ T \in SUBSET Nat
    <3>1. \A j \in T : j \in Nat
      OBVIOUS
    <3>2. T # {}
      BY <2>1
    <3> HIDE DEF T
    <3> QED BY <3>1, <3>2
  <2>3. PICK j \in T : \A k \in T : j <= k
    BY <2>2, LeastNumber
  <2>4. \A k \in 1..(j - 1) : K[a][k] = K[b][k]
    BY <2>3
  <2>5. K[a][j] < K[b][j] \/ K[b][j] < K[a][j]
    BY <2>0, <2>3
  <2>6. DOMAIN K[a] = 1..n /\ DOMAIN K[b] = 1..n
    BY <2>0
  <2> QED
    BY <2>3, <2>4, <2>5, <2>6 DEF LexLess
<1> HIDE DEF R
<1> QED
  BY <1>1, <1>2, <1>3 DEF Orders, R

\* What Ordered and FirstOf return, for keys of one length that tell the
\* elements apart.
Keyed(K, n) == /\ n \in Nat
               /\ IsFiniteSet(DOMAIN K)
               /\ K \in [DOMAIN K -> [1..n -> Int]]
               /\ \A a, b \in DOMAIN K : K[a] = K[b] => a = b

LEMMA OrderedIs ==
    ASSUME NEW K, NEW n, Keyed(K, n)
    PROVE  /\ Cardinality(DOMAIN K) \in Nat
           /\ Ordered(K) \in Seq(DOMAIN K)
           /\ DOMAIN Ordered(K) = 1..Cardinality(DOMAIN K)
           /\ \A i \in DOMAIN Ordered(K) : Ordered(K)[i] \in DOMAIN K
           /\ \A i, j \in DOMAIN Ordered(K) : Ordered(K)[i] = Ordered(K)[j] => i = j
           /\ \A b \in DOMAIN K : \E i \in DOMAIN Ordered(K) : Ordered(K)[i] = b
           /\ \A b \in DOMAIN K, i \in DOMAIN Ordered(K) :
                Ordered(K)[i] = b <=> Cardinality({c \in DOMAIN K : LexLess(K[c], K[b])}) = i - 1
<1> DEFINE S == DOMAIN K
           R == {e \in S \X S : LexLess(K[e[1]], K[e[2]])}
           N == Cardinality(S)
           C(b) == Cardinality({c \in S : LexLess(K[c], K[b])})
           o == Ordered(K)
<1>1. Orders(R, S) /\ IsFiniteSet(S)
  BY LexOrders DEF Keyed
<1>2. N \in Nat
  BY <1>1, FS_CardinalityType
<1>3. \A b \in S : {c \in S : LexLess(K[c], K[b])} = Before(R, S, b)
  BY DEF Before
<1>4. /\ \A b \in S : C(b) \in 0..(N - 1)
      /\ \A b, c \in S : C(b) = C(c) => b = c
      /\ \A i \in 0..(N - 1) : \E b \in S : C(b) = i
  <2>1. \A b \in S : C(b) = Cardinality(Before(R, S, b))
    BY <1>3
  <2> HIDE DEF R, S, C, N
  <2>2. N = Cardinality(S)
    BY DEF N
  <2> QED BY <1>1, <2>1, <2>2, Ranked
<1>5. /\ DOMAIN o = 1..N /\ \A i \in 1..N : o[i] = CHOOSE b \in S : C(b) = i - 1
      /\ o = [i \in 1..N |-> o[i]]
  <2> DEFINE At(i) == CHOOSE b \in S : C(b) = i - 1
  <2>1. o = [i \in 1..N |-> At(i)]
    BY Zenon DEF Ordered
  <2> HIDE DEF At, o, N
  <2>2. DOMAIN o = 1..N /\ (\A i \in 1..N : o[i] = At(i)) /\ o = [i \in 1..N |-> o[i]]
    BY <2>1
  <2> QED BY <2>2 DEF At
<1> HIDE DEF o, S, N, C
<1>6. \A i \in 1..N : o[i] \in S /\ C(o[i]) = i - 1
  <2> SUFFICES ASSUME NEW i \in 1..N PROVE o[i] \in S /\ C(o[i]) = i - 1
    OBVIOUS
  <2>1. \E b \in S : C(b) = i - 1
    BY <1>2, <1>4
  <2> QED BY <1>5, <2>1
<1>7. \A b \in S : \E i \in 1..N : o[i] = b
  <2> SUFFICES ASSUME NEW b \in S PROVE \E i \in 1..N : o[i] = b
    OBVIOUS
  <2>1. C(b) + 1 \in 1..N
    BY <1>2, <1>4
  <2>2. C(o[C(b) + 1]) = C(b)
    BY <1>2, <1>4, <1>6, <2>1
  <2> QED BY <1>4, <1>6, <2>1, <2>2
<1>8. \A i, j \in 1..N : o[i] = o[j] => i = j
  BY <1>2, <1>6
<1>9. o \in Seq(S)
  BY <1>2, <1>5, <1>6
<1>10. \A b \in S, i \in 1..N : o[i] = b <=> C(b) = i - 1
  BY <1>4, <1>6
<1>11. \A b \in S : C(b) = Cardinality({c \in S : LexLess(K[c], K[b])})
  BY DEF C
<1>12. \A b \in S, i \in 1..N : o[i] = b <=> Cardinality({c \in S : LexLess(K[c], K[b])}) = i - 1
  BY <1>10, <1>11
<1> QED
  BY <1>2, <1>5, <1>6, <1>7, <1>8, <1>9, <1>12 DEF o, S, N

\* Numbers in the same order as the keys have the same ranks.
LEMMA RanksAgree ==
    ASSUME NEW K, NEW n, Keyed(K, n), NEW T \in SUBSET Nat, NEW f \in Bijection(DOMAIN K, T),
           \A b, c \in DOMAIN K : LexLess(K[c], K[b]) <=> f[c] < f[b]
    PROVE  /\ Cardinality(T) = Cardinality(DOMAIN K)
           /\ \A i \in DOMAIN Ordered(K) :
                f[Ordered(K)[i]] = CHOOSE t \in T : Cardinality({u \in T : u < t}) = i - 1
<1> DEFINE S == DOMAIN K
           Under(b) == {c \in S : LexLess(K[c], K[b])}
           Below(t) == {u \in T : u < t}
<1>1. /\ f \in [S -> T] /\ (\A b, c \in S : f[b] = f[c] => b = c) /\ (\A t \in T : \E b \in S : f[b] = t)
      /\ IsFiniteSet(S)
  BY DEF Bijection, Injection, Surjection, IsInjective, Keyed
<1>2. ASSUME NEW b \in S PROVE Cardinality(Below(f[b])) = Cardinality(Under(b))
  <2> DEFINE g == [c \in Under(b) |-> f[c]]
  <2>1. g \in [Under(b) -> Below(f[b])]
    BY <1>1
  <2>2. \A c, e \in Under(b) : g[c] = g[e] => c = e
    BY <1>1
  <2>3. ASSUME NEW u \in Below(f[b]) PROVE \E c \in Under(b) : g[c] = u
    <3>1. PICK c \in S : f[c] = u
      BY <1>1
    <3>2. c \in Under(b)
      BY <3>1
    <3> QED BY <3>1, <3>2
  <2>4. IsFiniteSet(Under(b))
    BY <1>1, FS_Subset
  <2> HIDE DEF g, Under, Below
  <2>5. g \in Bijection(Under(b), Below(f[b]))
    BY <2>1, <2>2, <2>3 DEF Bijection, Injection, Surjection, IsInjective
  <2> QED BY <2>4, <2>5, FS_Bijection DEF ExistsBijection
<1>3. Cardinality(T) = Cardinality(S)
  BY <1>1, FS_Bijection DEF ExistsBijection
<1>4. PICK o : o = Ordered(K)
  OBVIOUS
<1>5. /\ \A i \in DOMAIN o : o[i] \in S
      /\ \A b \in S, i \in DOMAIN o : o[i] = b <=> Cardinality(Under(b)) = i - 1
  BY <1>4, OrderedIs
<1> HIDE DEF Under, Below, S
<1>6. \A b \in S, i \in DOMAIN o : o[i] = b <=> Cardinality(Below(f[b])) = i - 1
  BY <1>2, <1>5
<1>7. ASSUME NEW i \in DOMAIN o
      PROVE  f[o[i]] = CHOOSE t \in T : Cardinality(Below(t)) = i - 1
  <2>1. f[o[i]] \in T /\ Cardinality(Below(f[o[i]])) = i - 1
    BY <1>1, <1>5, <1>6
  <2>2. \A t \in T : Cardinality(Below(t)) = i - 1 => t = f[o[i]]
    BY <1>1, <1>6
  <2> QED BY <2>1, <2>2
<1> QED
  BY <1>3, <1>4, <1>7 DEF S, Below

LEMMA FirstOfIs ==
    ASSUME NEW K, NEW n, Keyed(K, n), DOMAIN K # {}
    PROVE  FirstOf(K) \in DOMAIN K
<1> DEFINE S == DOMAIN K
           R == {e \in S \X S : LexLess(K[e[1]], K[e[2]])}
<1>1. Orders(R, S) /\ IsFiniteSet(S)
  BY LexOrders DEF Keyed
<1>2. \E b \in S : \A c \in S \ {b} : <<b, c>> \in R
  <2> HIDE DEF R, S
  <2>1. S # {} BY DEF S
  <2> QED BY <1>1, <2>1, FirstExists
<1>3. \E b \in S : \A c \in S \ {b} : LexLess(K[b], K[c])
  BY <1>2
<1> QED
  BY <1>3 DEF FirstOf

-----------------------------------------------------------------------------
(* The sequences the importer walks. *)

LEMMA SetToSeqIs ==
    ASSUME NEW S, IsFiniteSet(S), NEW s, s = SetToSeq(S)
    PROVE  /\ s \in Seq(S)
           /\ \A x \in S : \E i \in DOMAIN s : s[i] = x
           /\ \A i, j \in DOMAIN s : s[i] = s[j] => i = j
<1>1. Cardinality(S) \in Nat /\ ExistsBijection(1..Cardinality(S), S)
  BY FS_CardinalityType
<1>2. \E f \in [1..Cardinality(S) -> S] : IsInjective(f)
  BY <1>1 DEF ExistsBijection, Bijection, Injection
<1>3. s \in [1..Cardinality(S) -> S] /\ IsInjective(s)
  BY <1>2 DEF SetToSeq
<1>4. s \in Injection(1..Cardinality(S), S)
  BY <1>3 DEF Injection
<1>5. Cardinality(1..Cardinality(S)) = Cardinality(S)
  BY <1>1, FS_Interval
<1>6. s \in Surjection(1..Cardinality(S), S)
  BY <1>4, <1>5, FS_Injection
<1> QED
  BY <1>1, <1>3, <1>6 DEF Surjection, IsInjective

LEMMA FlattenSeqIs ==
    ASSUME NEW S, NEW n \in Nat, NEW seqs, DOMAIN seqs = 1..n, seqs = [i \in 1..n |-> seqs[i]],
           \A i \in 1..n : seqs[i] \in Seq(S)
    PROVE  /\ FlattenSeq(seqs) \in Seq(S)
           /\ \A x : x \in Range(FlattenSeq(seqs)) <=> \E i \in 1..n : x \in Range(seqs[i])
<1>0. seqs \in Seq(Seq(S)) /\ Len(seqs) = n
  OBVIOUS
<1>1. CASE n = 0
  <2>1. Len(seqs) = 0 /\ seqs \in Seq(S)
    BY <1>0, <1>1
  <2>2. FlattenSeq(seqs) = seqs
    BY <2>1 DEF FlattenSeq
  <2>3. Range(seqs) = {} /\ 1..n = {}
    BY <1>1 DEF Range
  <2>4. \A x : x \in Range(seqs) <=> \E i \in 1..n : x \in Range(seqs[i])
    BY <2>3, Zenon
  <2> QED BY <2>1, <2>2, <2>4
<1>2. CASE n # 0
  <2> DEFINE Upto(f, k) == f = [i \in 1..k |-> IF i = 1 THEN seqs[i] ELSE f[i - 1] \o seqs[i]]
             G == {k \in Nat : \E f : Upto(f, k)}
  <2>1. 0 \in G
    <3> DEFINE f0 == [i \in 1..0 |-> <<>>]
    <3>1. Upto(f0, 0)
      OBVIOUS
    <3> QED BY <3>1
  <2>2. ASSUME NEW k \in Nat, k \in G PROVE k + 1 \in G
    <3>0. PICK f : Upto(f, k)
      BY <2>2
    <3> DEFINE h == [i \in 1..(k + 1) |-> IF i = k + 1
                       THEN IF i = 1 THEN seqs[i] ELSE f[k] \o seqs[i] ELSE f[i]]
    <3>1. \A i \in 1..k : f[i] = IF i = 1 THEN seqs[i] ELSE f[i - 1] \o seqs[i]
      BY <3>0
    <3>2. \A i \in 1..(k + 1) : h[i] = IF i = 1 THEN seqs[i] ELSE h[i - 1] \o seqs[i]
      <4> SUFFICES ASSUME NEW i \in 1..(k + 1)
                   PROVE  h[i] = IF i = 1 THEN seqs[i] ELSE h[i - 1] \o seqs[i]
        OBVIOUS
      <4>1. CASE i = k + 1
        <5>1. h[i] = IF i = 1 THEN seqs[i] ELSE f[k] \o seqs[i]
          BY <4>1
        <5>2. i # 1 => h[i - 1] = f[k]
          BY <4>1
        <5> QED BY <5>1, <5>2
      <4>2. CASE i # k + 1
        <5>1. i \in 1..k /\ h[i] = f[i]
          BY <4>2
        <5>2. i # 1 => h[i - 1] = f[i - 1]
          BY <5>1
        <5> QED BY <3>1, <5>1, <5>2
      <4> QED BY <4>1, <4>2
    <3>3. h = [i \in 1..(k + 1) |-> h[i]]
      OBVIOUS
    <3> HIDE DEF h
    <3>4. Upto(h, k + 1)
      BY <3>2, <3>3
    <3> HIDE DEF Upto
    <3> QED BY <3>4
  <2>3. \E f : Upto(f, n)
    <3>1. n \in G
      <4> HIDE DEF G
      <4> QED BY <2>1, <2>2, CountingUp
    <3> QED BY <3>1
  <2> DEFINE g == CHOOSE f : Upto(f, n)
  <2>4. Upto(g, n)
    <3> HIDE DEF Upto
    <3> QED BY <2>3
  <2>5. FlattenSeq(seqs) = g[n]
    BY <1>0, <1>2 DEF FlattenSeq
  <2> HIDE DEF g
  <2>6. \A i \in 1..n : g[i] = IF i = 1 THEN seqs[i] ELSE g[i - 1] \o seqs[i]
    BY <2>4
  <2> DEFINE Has(k) == \A x : x \in Range(g[k]) <=> \E i \in 1..k : x \in Range(seqs[i])
             T == {k \in Nat : k \in 1..n => g[k] \in Seq(S) /\ Has(k)}
  <2>7. 0 \in T
    OBVIOUS
  <2>8. \A k \in Nat : k \in T => k + 1 \in T
    <3> SUFFICES ASSUME NEW k \in Nat, k \in T, k + 1 \in 1..n
                   PROVE  g[k + 1] \in Seq(S) /\ Has(k + 1)
      <4> HIDE DEF Has
      <4> QED OBVIOUS
    <3>1. CASE k = 0
      <4>1. g[k + 1] = seqs[1] /\ k + 1 = 1
        BY <2>6, <3>1
      <4> QED BY <3>1, <4>1
    <3>2. CASE k # 0
      <4>1. g[k] \in Seq(S) /\ seqs[k + 1] \in Seq(S) /\ Has(k)
        BY <3>2
      <4>2. g[k + 1] = g[k] \o seqs[k + 1]
        <5>1. k + 1 # 1 /\ (k + 1) - 1 = k
          BY <3>2
        <5> QED BY <2>6, <5>1
      <4>3. Range(g[k + 1]) = Range(g[k]) \cup Range(seqs[k + 1])
        BY <4>1, <4>2, RangeConcatenation
      <4>4. \A i : i \in 1..(k + 1) <=> i \in 1..k \/ i = k + 1
        OBVIOUS
      <4>5. Has(k + 1)
        BY <4>1, <4>3, <4>4
      <4> QED BY <4>1, <4>2, <4>5
    <3> QED BY <3>1, <3>2
  <2>9. n \in T
    <3> HIDE DEF T
    <3> QED BY <2>7, <2>8, CountingUp
  <2>10. g[n] \in Seq(S) /\ Has(n)
    <3> HIDE DEF Has
    <3> QED BY <1>2, <2>9
  <2> QED BY <2>5, <2>10
<1> QED BY <1>1, <1>2

-----------------------------------------------------------------------------
(* What every row of the tables can rely on. *)

TableFields == {"sources", "accounts", "listed", "caps", "models", "bindings", "routes", "nextId"}
AccountFields == {"source", "enabled", "weight"}
BindingFields == {"model", "source", "account", "upstream", "protocol", "status", "enabled",
                  "priority"}

\* The rows a binding stands on.
Refers(d, b) ==
    /\ b.model \in DOMAIN d.models
    /\ b.account \in DOMAIN d.accounts
    /\ d.accounts[b.account].source = b.source
    /\ ListedKey(b) \in DOMAIN d.listed
    /\ CapKey(b) \in DOMAIN d.caps

AccountRows(d) ==
    \A a \in DOMAIN d.accounts : /\ DOMAIN d.accounts[a] = AccountFields
                                 /\ d.accounts[a].source \in DOMAIN d.sources

RouteRows(d) == IsFiniteSet(DOMAIN d.routes) /\ DOMAIN d.routes \subseteq Int \X Int

BindingRows(d) ==
    \A i \in DOMAIN d.bindings : /\ DOMAIN d.bindings[i] = BindingFields
                                 /\ d.bindings[i].priority \in Int
                                 /\ d.bindings[i].protocol \in Protocols
                                 /\ Refers(d, d.bindings[i])

BindingIds(d) ==
    /\ d.nextId \in Nat
    /\ IsFiniteSet(DOMAIN d.bindings)
    /\ \A i \in DOMAIN d.bindings : i \in Nat /\ i < d.nextId

UniqueRows(d) ==
    \A i, j \in DOMAIN d.bindings : Identity(d.bindings[i]) = Identity(d.bindings[j]) => i = j

TablesInv(d) ==
    /\ DOMAIN d = TableFields
    /\ AccountRows(d) /\ RouteRows(d)
    /\ BindingRows(d) /\ BindingIds(d) /\ UniqueRows(d)

\* The bindings of e are some of those of d, each with the rows it needs.
Thins(d, e) ==
    /\ DOMAIN e = TableFields
    /\ AccountRows(e) /\ RouteRows(e)
    /\ e.nextId = d.nextId
    /\ DOMAIN e.bindings \subseteq DOMAIN d.bindings
    /\ \A i \in DOMAIN e.bindings : e.bindings[i] = d.bindings[i] /\ Refers(e, d.bindings[i])

LEMMA ThinTables ==
    ASSUME NEW d, NEW e, TablesInv(d), Thins(d, e)
    PROVE  TablesInv(e)
<1>1. IsFiniteSet(DOMAIN e.bindings)
  BY FS_Subset DEF TablesInv, BindingIds, Thins
<1>2. BindingIds(e)
  BY <1>1 DEF TablesInv, BindingIds, Thins
<1>3. BindingRows(e)
  BY DEF TablesInv, BindingRows, Thins
<1>4. UniqueRows(e)
  BY DEF TablesInv, UniqueRows, Thins
<1> QED
  BY <1>2, <1>3, <1>4 DEF TablesInv, Thins

\* Writes of sources that stay.
LEMMA SourceWrites ==
    ASSUME TablesInv(db), NEW s, NEW x, NEW e,
           SetSourceEnabled(s, e) \/ CreateSource(s, x, e) \/ UpdateSource(s, x, e)
    PROVE  Thins(db, db')
<1> DEFINE Framed == /\ DOMAIN db' = DOMAIN db
                     /\ db'.accounts = db.accounts /\ db'.listed = db.listed /\ db'.caps = db.caps
                     /\ db'.models = db.models /\ db'.bindings = db.bindings
                     /\ db'.routes = db.routes /\ db'.nextId = db.nextId
                     /\ DOMAIN db.sources \subseteq DOMAIN db'.sources
<1>0. DOMAIN db = TableFields
  BY DEF TablesInv
<1>1. CASE SetSourceEnabled(s, e)
  <2>1. Framed
    BY <1>0, <1>1 DEF SetSourceEnabled, Commit, TableFields
  <2> QED BY <2>1 DEF TablesInv, Thins, AccountRows, RouteRows, BindingRows, Refers
<1>2. CASE CreateSource(s, x, e)
  <2>1. Framed
    BY <1>0, <1>2 DEF CreateSource, Commit, With, TableFields
  <2> QED BY <2>1 DEF TablesInv, Thins, AccountRows, RouteRows, BindingRows, Refers
<1>3. CASE UpdateSource(s, x, e)
  <2>1. Framed
    BY <1>0, <1>3 DEF UpdateSource, Commit, TableFields
  <2> QED BY <2>1 DEF TablesInv, Thins, AccountRows, RouteRows, BindingRows, Refers
<1> QED BY <1>1, <1>2, <1>3

LEMMA SourceDeleted ==
    ASSUME TablesInv(db), NEW s, DeleteSource(s)
    PROVE  Thins(db, db')
<1> DEFINE Framed == /\ DOMAIN db' = DOMAIN db
                     /\ db'.models = db.models /\ db'.routes = db.routes /\ db'.nextId = db.nextId
                     /\ DOMAIN db'.sources = DOMAIN db.sources \ {s}
                     /\ DOMAIN db'.accounts = {a \in DOMAIN db.accounts : db.accounts[a].source # s}
                     /\ \A a \in DOMAIN db'.accounts : db'.accounts[a] = db.accounts[a]
                     /\ DOMAIN db'.listed = {k \in DOMAIN db.listed : k[1] # s}
                     /\ DOMAIN db'.caps = {k \in DOMAIN db.caps : k[1] # s}
                     /\ DOMAIN db'.bindings = {b \in DOMAIN db.bindings : db.bindings[b].source # s}
                     /\ \A b \in DOMAIN db'.bindings : db'.bindings[b] = db.bindings[b]
<1>0. DOMAIN db = TableFields
  BY DEF TablesInv
<1>1. Framed
  BY <1>0 DEF DeleteSource, Commit, Without, TableFields
<1>2. AccountRows(db') /\ RouteRows(db')
  BY <1>1 DEF TablesInv, AccountRows, RouteRows
<1>3. \A b \in DOMAIN db'.bindings : Refers(db', db.bindings[b])
  BY <1>1 DEF TablesInv, BindingRows, Refers, ListedKey, CapKey
<1> QED
  BY <1>0, <1>1, <1>2, <1>3 DEF Thins

LEMMA AccountWrites ==
    ASSUME TablesInv(db), NEW a, NEW x, NEW e,
           \/ x \in AccountInputs /\ (CreateAccount(a, x) \/ UpdateAccount(a, x))
           \/ SetAccountEnabled(a, e)
    PROVE  Thins(db, db')
<1> DEFINE Framed == /\ DOMAIN db' = DOMAIN db
                     /\ db'.sources = db.sources /\ db'.listed = db.listed /\ db'.caps = db.caps
                     /\ db'.models = db.models /\ db'.bindings = db.bindings /\ db'.routes = db.routes
                     /\ db'.nextId = db.nextId
                     /\ DOMAIN db.accounts \subseteq DOMAIN db'.accounts
                     /\ AccountRows(db')
                     /\ \A i \in DOMAIN db.bindings :
                        db.bindings[i].account = a /\ a \in DOMAIN db.accounts
                          => db'.accounts[a].source = db.accounts[a].source
                     /\ \A c \in DOMAIN db.accounts \ {a} : db'.accounts[c] = db.accounts[c]
<1>0. DOMAIN db = TableFields
  BY DEF TablesInv
<1>1. x \in AccountInputs => DOMAIN x = AccountFields
  BY InputsAssumption DEF AccountFields
<1>2. Framed => Thins(db, db')
  BY <1>0 DEF TablesInv, Thins, RouteRows, BindingRows, Refers
<1> HIDE DEF Framed
<1>3. CASE x \in AccountInputs /\ CreateAccount(a, x)
  BY <1>0, <1>1, <1>2, <1>3 DEF Framed, CreateAccount, Commit, With, TableFields, TablesInv, AccountRows
<1>4. CASE x \in AccountInputs /\ UpdateAccount(a, x)
  BY <1>0, <1>1, <1>2, <1>4
     DEF Framed, UpdateAccount, Commit, TableFields, TablesInv, AccountRows, BindingsWhere
<1>5. CASE SetAccountEnabled(a, e)
  BY <1>0, <1>2, <1>5
     DEF Framed, SetAccountEnabled, Commit, TableFields, TablesInv, AccountRows, AccountFields
<1> QED BY <1>3, <1>4, <1>5

LEMMA AccountDeleted ==
    ASSUME TablesInv(db), NEW a, DeleteAccount(a)
    PROVE  Thins(db, db')
<1> DEFINE Framed == /\ DOMAIN db' = DOMAIN db
                     /\ db'.sources = db.sources /\ db'.listed = db.listed /\ db'.caps = db.caps
                     /\ db'.models = db.models /\ db'.routes = db.routes /\ db'.nextId = db.nextId
                     /\ DOMAIN db'.accounts = DOMAIN db.accounts \ {a}
                     /\ \A c \in DOMAIN db'.accounts : db'.accounts[c] = db.accounts[c]
                     /\ DOMAIN db'.bindings = {b \in DOMAIN db.bindings : db.bindings[b].account # a}
                     /\ \A b \in DOMAIN db'.bindings : db'.bindings[b] = db.bindings[b]
<1>0. DOMAIN db = TableFields
  BY DEF TablesInv
<1>1. Framed
  BY <1>0 DEF DeleteAccount, Commit, Without, TableFields
<1> QED
  BY <1>0, <1>1 DEF TablesInv, Thins, AccountRows, RouteRows, BindingRows, Refers

LEMMA CapabilityWrites ==
    ASSUME TablesInv(db), NEW s, NEW u, NEW p \in Protocols, NEW x, UpsertCapability(s, u, p, x)
    PROVE  Thins(db, db')
<1> DEFINE Framed == /\ DOMAIN db' = DOMAIN db
                     /\ db'.sources = db.sources /\ db'.accounts = db.accounts /\ db'.listed = db.listed
                     /\ db'.models = db.models /\ db'.bindings = db.bindings /\ db'.routes = db.routes
                     /\ db'.nextId = db.nextId
                     /\ DOMAIN db'.caps = DOMAIN db.caps \cup {<<s, u, p>>}
<1>0. DOMAIN db = TableFields
  BY DEF TablesInv
<1>1. Framed
  BY <1>0 DEF UpsertCapability, Commit, With, TableFields
<1> QED
  BY <1>0, <1>1 DEF TablesInv, Thins, AccountRows, RouteRows, BindingRows, Refers

LEMMA ModelWrites ==
    ASSUME TablesInv(db), NEW m, NEW x, NEW e,
           CreateLogicalModel(m, x) \/ UpdateLogicalModel(m, x) \/ SetLogicalModelEnabled(m, e)
    PROVE  Thins(db, db')
<1> DEFINE Framed == /\ DOMAIN db' = DOMAIN db
                     /\ db'.sources = db.sources /\ db'.accounts = db.accounts /\ db'.listed = db.listed
                     /\ db'.caps = db.caps /\ db'.bindings = db.bindings /\ db'.routes = db.routes
                     /\ db'.nextId = db.nextId
                     /\ DOMAIN db.models \subseteq DOMAIN db'.models
<1>0. DOMAIN db = TableFields
  BY DEF TablesInv
<1>1. CASE CreateLogicalModel(m, x)
  <2>1. Framed
    BY <1>0, <1>1 DEF CreateLogicalModel, Commit, With, TableFields
  <2> QED BY <1>0, <2>1 DEF TablesInv, Thins, AccountRows, RouteRows, BindingRows, Refers
<1>2. CASE UpdateLogicalModel(m, x)
  <2>1. Framed
    BY <1>0, <1>2 DEF UpdateLogicalModel, Commit, TableFields
  <2> QED BY <1>0, <2>1 DEF TablesInv, Thins, AccountRows, RouteRows, BindingRows, Refers
<1>3. CASE SetLogicalModelEnabled(m, e)
  <2>1. Framed
    BY <1>0, <1>3 DEF SetLogicalModelEnabled, Commit, TableFields
  <2> QED BY <1>0, <2>1 DEF TablesInv, Thins, AccountRows, RouteRows, BindingRows, Refers
<1> QED BY <1>1, <1>2, <1>3

LEMMA ModelDeleted ==
    ASSUME TablesInv(db), NEW m, DeleteLogicalModel(m)
    PROVE  Thins(db, db')
<1> DEFINE Framed == /\ DOMAIN db' = DOMAIN db
                     /\ db'.sources = db.sources /\ db'.accounts = db.accounts /\ db'.listed = db.listed
                     /\ db'.caps = db.caps /\ db'.nextId = db.nextId
                     /\ DOMAIN db'.models = DOMAIN db.models \ {m}
                     /\ DOMAIN db'.routes \subseteq DOMAIN db.routes
                     /\ DOMAIN db'.bindings = {b \in DOMAIN db.bindings : db.bindings[b].model # m}
                     /\ \A b \in DOMAIN db'.bindings : db'.bindings[b] = db.bindings[b]
<1>0. DOMAIN db = TableFields
  BY DEF TablesInv
<1>1. Framed
  BY <1>0 DEF DeleteLogicalModel, Commit, Without, TableFields
<1>2. RouteRows(db')
  BY <1>1, FS_Subset DEF TablesInv, RouteRows
<1> QED
  BY <1>0, <1>1, <1>2 DEF TablesInv, Thins, AccountRows, BindingRows, Refers

LEMMA BindingDeleted ==
    ASSUME TablesInv(db), NEW id, DeleteBinding(id)
    PROVE  Thins(db, db')
<1> DEFINE Framed == /\ DOMAIN db' = DOMAIN db
                     /\ db'.sources = db.sources /\ db'.accounts = db.accounts /\ db'.listed = db.listed
                     /\ db'.caps = db.caps /\ db'.models = db.models /\ db'.routes = db.routes
                     /\ db'.nextId = db.nextId
                     /\ DOMAIN db'.bindings \subseteq DOMAIN db.bindings
                     /\ \A b \in DOMAIN db'.bindings : db'.bindings[b] = db.bindings[b]
<1>0. DOMAIN db = TableFields
  BY DEF TablesInv
<1>1. Framed
  BY <1>0 DEF DeleteBinding, Commit, Without, TableFields
<1> QED
  BY <1>0, <1>1 DEF TablesInv, Thins, AccountRows, RouteRows, BindingRows, Refers

LEMMA RouteWrites ==
    ASSUME TablesInv(db), NEW r, NEW x, NEW e,
           \/ r \in RouteIds /\ (CreateRoute(r, x) \/ UpdateRoute(r, x))
           \/ SetRouteEnabled(r, e) \/ DeleteRoute(r)
    PROVE  Thins(db, db')
<1> DEFINE Framed == /\ DOMAIN db' = DOMAIN db
                     /\ db'.sources = db.sources /\ db'.accounts = db.accounts /\ db'.listed = db.listed
                     /\ db'.caps = db.caps /\ db'.models = db.models /\ db'.bindings = db.bindings
                     /\ db'.nextId = db.nextId
                     /\ DOMAIN db'.routes \subseteq DOMAIN db.routes \cup {r}
                     /\ RouteRows(db')
<1>0. DOMAIN db = TableFields
  BY DEF TablesInv
<1>1. ASSUME IsFiniteSet(DOMAIN db.routes) PROVE IsFiniteSet(DOMAIN db.routes \cup {r})
  BY <1>1, FS_AddElement
<1>2. Framed => Thins(db, db')
  BY <1>0 DEF TablesInv, Thins, AccountRows, BindingRows, Refers
<1> HIDE DEF Framed
<1>3. CASE r \in RouteIds /\ CreateRoute(r, x)
  <2>1. DOMAIN db'.routes = DOMAIN db.routes \cup {r}
    BY <1>0, <1>3 DEF CreateRoute, Commit, With, TableFields
  <2>2. RouteRows(db')
    BY <1>1, <1>3, <2>1, InputsAssumption DEF TablesInv, RouteRows
  <2> QED BY <1>0, <1>2, <1>3, <2>1, <2>2 DEF Framed, CreateRoute, Commit, TableFields
<1>4. CASE UpdateRoute(r, x)
  <2>1. DOMAIN db'.routes = DOMAIN db.routes
    BY <1>0, <1>4 DEF UpdateRoute, Commit, TableFields
  <2>2. RouteRows(db')
    BY <2>1 DEF TablesInv, RouteRows
  <2> QED BY <1>0, <1>2, <1>4, <2>1, <2>2 DEF Framed, UpdateRoute, Commit, TableFields
<1>5. CASE SetRouteEnabled(r, e)
  <2>1. DOMAIN db'.routes = DOMAIN db.routes
    BY <1>0, <1>5 DEF SetRouteEnabled, Commit, TableFields
  <2>2. RouteRows(db')
    BY <2>1 DEF TablesInv, RouteRows
  <2> QED BY <1>0, <1>2, <1>5, <2>1, <2>2 DEF Framed, SetRouteEnabled, Commit, TableFields
<1>6. CASE DeleteRoute(r)
  <2>1. DOMAIN db'.routes = DOMAIN db.routes \ {r}
    BY <1>0, <1>6 DEF DeleteRoute, Commit, Without, TableFields
  <2>2. RouteRows(db')
    BY <2>1, FS_RemoveElement DEF TablesInv, RouteRows
  <2> QED BY <1>0, <1>2, <1>6, <2>1, <2>2 DEF Framed, DeleteRoute, Commit, TableFields
<1> QED BY <1>3, <1>4, <1>5, <1>6

LEMMA CatalogueWrites ==
    ASSUME TablesInv(db), NEW s, NEW ids, NEW k,
           ApplyDiscovery(s, ids) \/ ConfirmSourceModel(k)
    PROVE  Thins(db, db') /\ db' = [db EXCEPT !.listed = db'.listed]
<1> DEFINE Framed == /\ DOMAIN db' = DOMAIN db
                     /\ db'.sources = db.sources /\ db'.accounts = db.accounts /\ db'.caps = db.caps
                     /\ db'.models = db.models /\ db'.bindings = db.bindings /\ db'.routes = db.routes
                     /\ db'.nextId = db.nextId
                     /\ DOMAIN db.listed \subseteq DOMAIN db'.listed
                     /\ db' = [db EXCEPT !.listed = db'.listed]
<1>0. DOMAIN db = TableFields
  BY DEF TablesInv
<1>1. CASE ApplyDiscovery(s, ids)
  <2>1. Framed
    BY <1>0, <1>1 DEF ApplyDiscovery, Catalogue, TableFields
  <2> QED BY <1>0, <2>1 DEF TablesInv, Thins, AccountRows, RouteRows, BindingRows, Refers
<1>2. CASE ConfirmSourceModel(k)
  <2>1. Framed
    BY <1>0, <1>2 DEF ConfirmSourceModel, Catalogue, TableFields
  <2> QED BY <1>0, <2>1 DEF TablesInv, Thins, AccountRows, RouteRows, BindingRows, Refers
<1> QED BY <1>1, <1>2

-----------------------------------------------------------------------------
(* Writes of bindings. *)

\* A row of the bindings table, with what it stands on in d.
BindingRow(d, b) == /\ DOMAIN b = BindingFields
                    /\ b.priority \in Int /\ b.protocol \in Protocols
                    /\ Refers(d, b)

\* n new rows, each of an identity of its own.
NewRows(d, n, new) ==
    /\ n \in Nat /\ new = [k \in 1..n |-> new[k]]
    /\ \A k \in 1..n : BindingRow(d, new[k])
    /\ \A k, l \in 1..n : Identity(new[k]) = Identity(new[l]) => k = l
    /\ \A k \in 1..n, i \in DOMAIN d.bindings : Identity(new[k]) # Identity(d.bindings[i])

\* The tables e are d with them.
Added(d, n, new, e) ==
    /\ e.sources = d.sources /\ e.accounts = d.accounts /\ e.listed = d.listed
    /\ e.caps = d.caps /\ e.models = d.models /\ e.routes = d.routes
    /\ DOMAIN e.bindings = DOMAIN d.bindings \cup d.nextId..(d.nextId + n - 1)
    /\ \A i \in DOMAIN d.bindings : e.bindings[i] = d.bindings[i]
    /\ \A k \in 1..n : e.bindings[d.nextId + k - 1] = new[k]

LEMMA BindingsAdded ==
    ASSUME NEW d, TablesInv(d), NEW n, NEW new, NewRows(d, n, new), NEW e, e = WithBindings(d, new)
    PROVE  TablesInv(e) /\ Added(d, n, new, e)
<1> DEFINE ids == NewIds(d, new)
<1> USE DEF NewRows
<1>0. /\ DOMAIN d = TableFields /\ d.nextId \in Nat /\ IsFiniteSet(DOMAIN d.bindings)
      /\ \A i \in DOMAIN d.bindings : i \in Nat /\ i < d.nextId
  BY DEF TablesInv, BindingIds
<1>1. DOMAIN new = 1..n /\ Len(new) = n
  <2>1. DOMAIN new = 1..n
    OBVIOUS
  <2> QED BY <2>1
<1>2. ids = d.nextId..(d.nextId + n - 1)
  <2>1. \A i \in ids : i \in d.nextId..(d.nextId + n - 1)
    BY <1>0, <1>1 DEF NewIds
  <2>2. ASSUME NEW i \in d.nextId..(d.nextId + n - 1) PROVE i \in ids
    <3>1. i - d.nextId + 1 \in 1..n /\ i = d.nextId + (i - d.nextId + 1) - 1
      BY <1>0
    <3> QED BY <1>1, <3>1 DEF NewIds
  <2> QED BY <2>1, <2>2
<1> HIDE DEF ids
<1>3. /\ DOMAIN e = TableFields
      /\ e.sources = d.sources /\ e.accounts = d.accounts /\ e.listed = d.listed
      /\ e.caps = d.caps /\ e.models = d.models /\ e.routes = d.routes
      /\ e.nextId = d.nextId + n
      /\ e.bindings = [i \in DOMAIN d.bindings \cup ids |->
                         IF i \in ids THEN new[i - d.nextId + 1] ELSE d.bindings[i]]
  BY <1>0, <1>1 DEF WithBindings, TableFields, ids
<1>4. DOMAIN e.bindings = DOMAIN d.bindings \cup d.nextId..(d.nextId + n - 1)
  BY <1>2, <1>3
<1>5. \A i \in DOMAIN d.bindings : e.bindings[i] = d.bindings[i]
  BY <1>0, <1>2, <1>3
<1>6. \A k \in 1..n : e.bindings[d.nextId + k - 1] = new[k]
  <2> SUFFICES ASSUME NEW k \in 1..n PROVE e.bindings[d.nextId + k - 1] = new[k]
    OBVIOUS
  <2>1. d.nextId + k - 1 \in ids /\ (d.nextId + k - 1) - d.nextId + 1 = k
    BY <1>0, <1>2
  <2> QED BY <1>3, <2>1
<1>7. \A i \in DOMAIN e.bindings \ DOMAIN d.bindings :
         i - d.nextId + 1 \in 1..n /\ e.bindings[i] = new[i - d.nextId + 1]
  BY <1>0, <1>2, <1>3
<1>8. BindingRows(e)
  <2> SUFFICES ASSUME NEW i \in DOMAIN e.bindings PROVE BindingRow(e, e.bindings[i])
    BY DEF BindingRows, BindingRow
  <2>1. CASE i \in DOMAIN d.bindings
    BY <1>3, <1>5, <2>1 DEF TablesInv, BindingRows, BindingRow, Refers
  <2>2. CASE i \notin DOMAIN d.bindings
    <3>1. PICK k \in 1..n : e.bindings[i] = new[k]
      BY <1>7, <2>2
    <3> QED BY <1>3, <3>1 DEF BindingRow, Refers
  <2> QED BY <2>1, <2>2
<1>9. BindingIds(e)
  <2>1. IsFiniteSet(d.nextId..(d.nextId + n - 1))
    BY <1>0, FS_Interval
  <2>2. IsFiniteSet(DOMAIN e.bindings)
    <3> DEFINE A == DOMAIN d.bindings
               B == d.nextId..(d.nextId + n - 1)
    <3>1. IsFiniteSet(A) /\ IsFiniteSet(B)
      BY <1>0, <2>1
    <3> HIDE DEF A, B
    <3>2. IsFiniteSet(A \cup B)
      BY <3>1, FS_Union
    <3> QED BY <1>4, <3>2 DEF A, B
  <2> QED BY <1>0, <1>3, <1>4, <2>2 DEF BindingIds
<1>10. UniqueRows(e)
  <2> SUFFICES ASSUME NEW i \in DOMAIN e.bindings, NEW j \in DOMAIN e.bindings,
                      Identity(e.bindings[i]) = Identity(e.bindings[j])
               PROVE  i = j
    BY DEF UniqueRows
  <2>1. CASE i \in DOMAIN d.bindings /\ j \in DOMAIN d.bindings
    BY <1>5, <2>1 DEF TablesInv, UniqueRows
  <2>2. CASE i \notin DOMAIN d.bindings /\ j \notin DOMAIN d.bindings
    <3>1. i \in Int /\ j \in Int
      BY <1>0, <1>4
    <3>2. i - d.nextId + 1 \in 1..n /\ e.bindings[i] = new[i - d.nextId + 1]
      BY <1>7, <2>2
    <3>3. j - d.nextId + 1 \in 1..n /\ e.bindings[j] = new[j - d.nextId + 1]
      BY <1>7, <2>2
    <3>4. i - d.nextId + 1 = j - d.nextId + 1
      BY <3>2, <3>3
    <3> QED BY <1>0, <3>1, <3>4
  <2>3. CASE (i \in DOMAIN d.bindings) # (j \in DOMAIN d.bindings)
    BY <1>5, <1>7, <2>3
  <2> QED BY <2>1, <2>2, <2>3
<1>11. TablesInv(e)
  BY <1>3, <1>8, <1>9, <1>10 DEF TablesInv, AccountRows, RouteRows
<1> QED
  BY <1>3, <1>4, <1>5, <1>6, <1>11 DEF Added

LEMMA OneBindingAdded ==
    ASSUME NEW d, TablesInv(d), NEW b, BindingRow(d, b),
           \A i \in DOMAIN d.bindings : Identity(d.bindings[i]) # Identity(b),
           NEW e, e = WithBindings(d, <<b>>)
    PROVE  /\ TablesInv(e)
           /\ e.sources = d.sources /\ e.accounts = d.accounts /\ e.listed = d.listed
           /\ e.caps = d.caps /\ e.models = d.models /\ e.routes = d.routes
           /\ DOMAIN e.bindings = DOMAIN d.bindings \cup {d.nextId}
           /\ \A i \in DOMAIN d.bindings : e.bindings[i] = d.bindings[i]
           /\ e.bindings[d.nextId] = b
<1>1. PICK new : new = <<b>>
  OBVIOUS
<1>2. PICK n \in Nat : n = 1
  OBVIOUS
<1>3. new = [k \in 1..n |-> new[k]]
  BY <1>1, <1>2
<1>4. \A k \in 1..n : k = 1 /\ new[k] = b
  BY <1>1, <1>2
<1>5. d.nextId \in Nat
  BY DEF TablesInv, BindingIds
<1>6. d.nextId..(d.nextId + n - 1) = {d.nextId} /\ d.nextId + 1 - 1 = d.nextId /\ 1 \in 1..n
  BY <1>2, <1>5
<1>7. NewRows(d, n, new)
  BY <1>3, <1>4 DEF NewRows
<1>8. e = WithBindings(d, new)
  BY <1>1
<1>9. TablesInv(e) /\ Added(d, n, new, e)
  BY <1>7, <1>8, BindingsAdded
<1>10. e.bindings[d.nextId] = b /\ DOMAIN e.bindings = DOMAIN d.bindings \cup {d.nextId}
  BY <1>4, <1>6, <1>9 DEF Added
<1> QED
  BY <1>9, <1>10 DEF Added

LEMMA BindingCreated ==
    ASSUME TablesInv(db), NEW b \in BindingInputs, CreateBinding(b)
    PROVE  /\ TablesInv(db')
           /\ DOMAIN db'.bindings = DOMAIN db.bindings \cup {db.nextId}
           /\ \A i \in DOMAIN db.bindings : db'.bindings[i] = db.bindings[i]
           /\ db'.bindings[db.nextId] = b
<1>1. BindingRow(db, b)
  BY InputsAssumption DEF CreateBinding, BindingReference, BindingRow, Refers, BindingFields
<1>2. \A i \in DOMAIN db.bindings : Identity(db.bindings[i]) # Identity(b)
  BY DEF CreateBinding, Unique
<1>3. PICK e : e = db'
  OBVIOUS
<1>4. e = WithBindings(db, <<b>>)
  BY <1>3 DEF CreateBinding, Commit
<1> QED
  BY <1>1, <1>2, <1>3, <1>4, OneBindingAdded

\* A row replaced by another one that is unique beside the rest.
LEMMA BindingReplaced ==
    ASSUME NEW d, TablesInv(d), NEW id \in DOMAIN d.bindings, NEW b, BindingRow(d, b),
           Unique(d, b, {id}), NEW e, DOMAIN e = DOMAIN d,
           e.sources = d.sources, e.accounts = d.accounts, e.listed = d.listed,
           e.caps = d.caps, e.models = d.models, e.routes = d.routes, e.nextId = d.nextId,
           DOMAIN e.bindings = DOMAIN d.bindings, e.bindings[id] = b,
           \A i \in DOMAIN d.bindings \ {id} : e.bindings[i] = d.bindings[i]
    PROVE  TablesInv(e)
<1>1. BindingRows(e)
  BY DEF TablesInv, BindingRows, BindingRow, Refers
<1>2. UniqueRows(e)
  BY DEF TablesInv, UniqueRows, Unique
<1> QED
  BY <1>1, <1>2 DEF TablesInv, AccountRows, RouteRows, BindingIds

LEMMA BindingUpdated ==
    ASSUME TablesInv(db), NEW id, NEW b \in BindingInputs, UpdateBinding(id, b)
    PROVE  /\ TablesInv(db')
           /\ id \in DOMAIN db.bindings /\ DOMAIN db'.bindings = DOMAIN db.bindings
           /\ \A i \in DOMAIN db.bindings \ {id} : db'.bindings[i] = db.bindings[i]
           /\ db'.bindings[id] = b
<1>0. DOMAIN db = TableFields /\ id \in DOMAIN db.bindings
  BY DEF TablesInv, UpdateBinding
<1>1. BindingRow(db, b)
  BY InputsAssumption DEF UpdateBinding, BindingReference, BindingRow, Refers, BindingFields
<1>2. Unique(db, b, {id})
  BY DEF UpdateBinding
<1>3. /\ DOMAIN db' = DOMAIN db
      /\ db'.sources = db.sources /\ db'.accounts = db.accounts /\ db'.listed = db.listed
      /\ db'.caps = db.caps /\ db'.models = db.models /\ db'.routes = db.routes
      /\ db'.nextId = db.nextId
      /\ DOMAIN db'.bindings = DOMAIN db.bindings /\ db'.bindings[id] = b
      /\ \A i \in DOMAIN db.bindings \ {id} : db'.bindings[i] = db.bindings[i]
  BY <1>0 DEF UpdateBinding, Commit, TableFields
<1> QED
  BY <1>0, <1>1, <1>2, <1>3, BindingReplaced

LEMMA BindingSwitched ==
    ASSUME TablesInv(db), NEW id, NEW on \in BOOLEAN, SetBindingEnabled(id, on)
    PROVE  /\ TablesInv(db')
           /\ id \in DOMAIN db.bindings /\ DOMAIN db'.bindings = DOMAIN db.bindings
           /\ \A i \in DOMAIN db.bindings \ {id} : db'.bindings[i] = db.bindings[i]
           /\ db'.bindings[id] = [db.bindings[id] EXCEPT !.enabled = on]
<1>0. DOMAIN db = TableFields /\ id \in DOMAIN db.bindings
  BY DEF TablesInv, SetBindingEnabled
<1>1. PICK b : b = [db.bindings[id] EXCEPT !.enabled = on]
  OBVIOUS
<1>2. /\ DOMAIN b = BindingFields
      /\ b.model = db.bindings[id].model /\ b.source = db.bindings[id].source
      /\ b.account = db.bindings[id].account /\ b.upstream = db.bindings[id].upstream
      /\ b.protocol = db.bindings[id].protocol /\ b.priority = db.bindings[id].priority
  BY <1>0, <1>1 DEF TablesInv, BindingRows, BindingFields
<1>3. BindingRow(db, b)
  BY <1>0, <1>2 DEF TablesInv, BindingRows, BindingRow, Refers, ListedKey, CapKey
<1>4. Identity(b) = Identity(db.bindings[id])
  BY <1>2 DEF Identity, CapKey
<1>5. Unique(db, b, {id})
  BY <1>0, <1>4 DEF TablesInv, UniqueRows, Unique
<1>6. /\ DOMAIN db' = DOMAIN db
      /\ db'.sources = db.sources /\ db'.accounts = db.accounts /\ db'.listed = db.listed
      /\ db'.caps = db.caps /\ db'.models = db.models /\ db'.routes = db.routes
      /\ db'.nextId = db.nextId
      /\ DOMAIN db'.bindings = DOMAIN db.bindings /\ db'.bindings[id] = b
      /\ \A i \in DOMAIN db.bindings \ {id} : db'.bindings[i] = db.bindings[i]
  BY <1>0, <1>1 DEF SetBindingEnabled, Commit, TableFields
<1> QED
  BY <1>0, <1>1, <1>3, <1>5, <1>6, BindingReplaced

-----------------------------------------------------------------------------
(* A model's whole routing. *)

\* The bindings of a model's lines: well-formed, of one model, all different.
LEMMA LineBindingsAre ==
    ASSUME NEW d, NEW m, NEW lines \in LineLists, IsInjective(lines),
           NEW new, new = LineBindings(d, m, lines)
    PROVE  \E n \in Nat :
             /\ new = [k \in 1..n |-> new[k]] /\ DOMAIN new = 1..n
             /\ \A k \in 1..n : /\ DOMAIN new[k] = BindingFields
                                /\ new[k].priority \in Int /\ new[k].protocol \in Protocols
                                /\ new[k].model = m /\ Active(new[k])
             /\ \A k, l \in 1..n : Identity(new[k]) = Identity(new[l]) => k = l
<1> DEFINE cells == {c \in (DOMAIN lines) \X Protocols : c[2] \in LineProtocols(d, lines[c[1]])}
           K == [c \in cells |-> <<c[1], Rank[c[2]]>>]
           order == Ordered(K)
<1>0. lines \in Seq([source : Sources, account : AccountIds, upstream : Upstreams])
  BY InputsAssumption
<1>1. Len(lines) \in Nat /\ DOMAIN lines = 1..Len(lines)
  BY <1>0
<1>a. \A i \in 1..Len(lines) : lines[i] \in [source : Sources, account : AccountIds, upstream : Upstreams]
  BY <1>0, ElementOfSeq
<1>2. IsFiniteSet(cells)
  <2>1. IsFiniteSet(1..Len(lines)) /\ IsFiniteSet(Protocols)
    BY <1>1, FS_Interval, InputsAssumption
  <2>2. IsFiniteSet((1..Len(lines)) \X Protocols)
    BY <2>1, FS_Product
  <2>3. cells \in SUBSET ((1..Len(lines)) \X Protocols)
    BY <1>1
  <2> HIDE DEF cells
  <2> QED BY <2>2, <2>3, FS_Subset
<1>3. \A c \in cells : /\ c = <<c[1], c[2]>> /\ c[1] \in 1..Len(lines) /\ c[2] \in Protocols
  BY <1>1
<1> HIDE DEF cells
<1>4. Keyed(K, 2)
  <2>1. \A c \in cells : <<c[1], Rank[c[2]]>> \in [1..2 -> Int]
    <3> SUFFICES ASSUME NEW c \in cells PROVE <<c[1], Rank[c[2]]>> \in [1..2 -> Int]
      OBVIOUS
    <3>1. c[1] \in Int /\ Rank[c[2]] \in Int
      BY <1>1, <1>3, InputsAssumption
    <3> QED BY <3>1
  <2>2. \A c, e \in cells : <<c[1], Rank[c[2]]>> = <<e[1], Rank[e[2]]>> => c = e
    <3> SUFFICES ASSUME NEW c \in cells, NEW e \in cells, <<c[1], Rank[c[2]]>> = <<e[1], Rank[e[2]]>>
                 PROVE  c = e
      OBVIOUS
    <3>1. c[1] = e[1] /\ Rank[c[2]] = Rank[e[2]]
      OBVIOUS
    <3>2. c[2] = e[2]
      BY <1>3, <3>1, InputsAssumption
    <3> QED BY <1>3, <3>1, <3>2
  <2>3. DOMAIN K = cells /\ \A c \in cells : K[c] = <<c[1], Rank[c[2]]>>
    OBVIOUS
  <2>4. K \in [cells -> [1..2 -> Int]]
    BY <2>1
  <2> HIDE DEF K
  <2> QED BY <1>2, <2>2, <2>3, <2>4 DEF Keyed
<1>5. DOMAIN K = cells
  OBVIOUS
<1> DEFINE n == Cardinality(cells)
<1>6. /\ n \in Nat /\ DOMAIN order = 1..n
      /\ \A k \in 1..n : order[k] \in cells
      /\ \A k, l \in 1..n : order[k] = order[l] => k = l
  <2> HIDE DEF K
  <2> QED BY <1>4, <1>5, OrderedIs
<1>7. new = [k \in DOMAIN order |-> LineBinding(m, lines, order[k])]
  BY DEF LineBindings, cells
<1> HIDE DEF n, order
<1>8. DOMAIN new = 1..n /\ new = [k \in 1..n |-> new[k]]
  BY <1>6, <1>7
<1>9. \A k \in 1..n : new[k] = LineBinding(m, lines, order[k])
  BY <1>6, <1>7
<1>10. \A k \in 1..n : /\ DOMAIN new[k] = BindingFields
                       /\ new[k].priority \in Int /\ new[k].protocol \in Protocols
                       /\ new[k].model = m /\ Active(new[k])
  <2> SUFFICES ASSUME NEW k \in 1..n
               PROVE  /\ DOMAIN new[k] = BindingFields
                      /\ new[k].priority \in Int /\ new[k].protocol \in Protocols
                      /\ new[k].model = m /\ Active(new[k])
    OBVIOUS
  <2>1. PICK c \in cells : c = order[k]
    BY <1>6
  <2>2. new[k] = LineBinding(m, lines, c) /\ c[1] \in Int /\ c[2] \in Protocols
    BY <1>1, <1>3, <1>9, <2>1
  <2> QED BY <2>2 DEF LineBinding, Active, BindingFields
<1>11. \A k, l \in 1..n : Identity(new[k]) = Identity(new[l]) => k = l
  <2> SUFFICES ASSUME NEW k \in 1..n, NEW l \in 1..n, Identity(new[k]) = Identity(new[l])
               PROVE  k = l
    OBVIOUS
  <2>1. PICK c \in cells, e \in cells : c = order[k] /\ e = order[l]
    BY <1>6
  <2>2. new[k] = LineBinding(m, lines, c) /\ new[l] = LineBinding(m, lines, e)
    BY <1>9, <2>1
  <2>3. /\ lines[c[1]].source = lines[e[1]].source /\ lines[c[1]].account = lines[e[1]].account
        /\ lines[c[1]].upstream = lines[e[1]].upstream /\ c[2] = e[2]
    BY <2>2 DEF LineBinding, Identity, CapKey
  <2>4. lines[c[1]] = lines[e[1]]
    <3>1. /\ lines[c[1]] \in [source : Sources, account : AccountIds, upstream : Upstreams]
          /\ lines[e[1]] \in [source : Sources, account : AccountIds, upstream : Upstreams]
      BY <1>a, <1>3
    <3> QED BY <2>3, <3>1
  <2>5. c[1] = e[1]
    BY <1>1, <1>3, <2>4 DEF IsInjective
  <2>6. c = e
    BY <1>3, <2>3, <2>5
  <2> QED BY <1>6, <2>1, <2>6
<1> QED
  BY <1>6, <1>8, <1>10, <1>11

\* The tables without the model's routing.
LEMMA RoutingCleared ==
    ASSUME TablesInv(db), NEW m, NEW lines, NEW d, d = ClearedRouting(m, lines)
    PROVE  /\ TablesInv(d)
           /\ DOMAIN d.models = DOMAIN db.models \cup {m}
           /\ DOMAIN d.bindings = {i \in DOMAIN db.bindings : db.bindings[i].model # m}
           /\ \A i \in DOMAIN d.bindings : d.bindings[i] = db.bindings[i]
<1>0. DOMAIN db = TableFields
  BY DEF TablesInv
<1>1. /\ DOMAIN d = TableFields
      /\ d.sources = db.sources /\ d.accounts = db.accounts /\ d.listed = db.listed
      /\ d.caps = db.caps /\ d.nextId = db.nextId
      /\ DOMAIN d.models = DOMAIN db.models \cup {m}
      /\ DOMAIN d.routes \subseteq DOMAIN db.routes
      /\ DOMAIN d.bindings = {i \in DOMAIN db.bindings : db.bindings[i].model # m}
      /\ \A i \in DOMAIN d.bindings : d.bindings[i] = db.bindings[i]
  BY <1>0 DEF ClearedRouting, With, Without, BindingsWhere, TableFields
<1>2. RouteRows(d)
  BY <1>1, FS_Subset DEF TablesInv, RouteRows
<1>3. Thins(db, d)
  BY <1>1, <1>2 DEF TablesInv, Thins, AccountRows, BindingRows, Refers
<1> QED
  BY <1>1, <1>3, ThinTables

\* A model's new bindings are all of one family, since each is compared with
\* those before it.
NewLines(d, n, new, m) ==
    /\ NewRows(d, n, new)
    /\ \A k \in 1..n : new[k].model = m /\ Active(new[k])
    /\ \A i \in DOMAIN d.bindings : d.bindings[i].model # m
    /\ \A k \in 1..n : FamilyAllowed(WithBindings(d, SubSeq(new, 1, k - 1)), new[k])

LEMMA LinesOfOneFamily ==
    ASSUME NEW d, TablesInv(d), NEW n, NEW new, NEW m, NewLines(d, n, new, m)
    PROVE  \A k \in 1..n : Family[new[k].source] = Family[new[1].source]
<1> USE DEF NewLines
<1> SUFFICES ASSUME NEW z \in 1..n, Family[new[z].source] # Family[new[1].source] PROVE FALSE
  OBVIOUS
<1> DEFINE T == {k \in 1..n : Family[new[k].source] # Family[new[1].source]}
<1>0. n \in Nat /\ d.nextId \in Nat
  BY DEF NewRows, TablesInv, BindingIds
<1>1. T # {} /\ \A k \in T : k \in Nat
  BY <1>0
<1>2. PICK k \in T : \A l \in T : k <= l
  <2> HIDE DEF T
  <2>1. T \in SUBSET Nat
    BY <1>1
  <2> QED BY <1>1, <2>1, LeastNumber
<1>3. k \in 2..n /\ \A l \in 1..(k - 1) : l \in 1..n /\ Family[new[l].source] = Family[new[1].source]
  BY <1>0, <1>2
<1>4. new \in Seq({new[l] : l \in 1..n}) /\ Len(new) = n
  BY <1>0 DEF NewRows
<1>5. PICK j \in 1..n : j = k - 1
  BY <1>0, <1>3
<1>6. PICK part : part = SubSeq(new, 1, k - 1)
  OBVIOUS
<1>7. /\ part = [l \in 1..j |-> part[l]]
      /\ \A l \in 1..j : part[l] = new[l]
  <2>1. part = SubSeq(new, 1, j)
    BY <1>5, <1>6
  <2>2. part = [l \in 1..j |-> new[l]]
    BY <1>0, <1>3, <1>5, <2>1
  <2> QED BY <2>2
<1>8. NewRows(d, j, part)
  <2>1. j \in Nat /\ 1..j \subseteq 1..n
    BY <1>0, <1>5
  <2>2. \A l \in 1..j : BindingRow(d, part[l])
    BY <1>7, <2>1 DEF NewRows
  <2>3. \A l, q \in 1..j : Identity(part[l]) = Identity(part[q]) => l = q
    BY <1>7, <2>1 DEF NewRows
  <2>4. \A l \in 1..j, i \in DOMAIN d.bindings : Identity(part[l]) # Identity(d.bindings[i])
    <3> SUFFICES ASSUME NEW l \in 1..j, NEW i \in DOMAIN d.bindings
                 PROVE  Identity(part[l]) # Identity(d.bindings[i])
      OBVIOUS
    <3>1. l \in 1..n /\ part[l] = new[l]
      BY <1>7, <2>1
    <3> QED BY <3>1 DEF NewRows
  <2> QED BY <1>7, <2>1, <2>2, <2>3, <2>4 DEF NewRows
<1>9. PICK e : e = WithBindings(d, part)
  OBVIOUS
<1>10. Added(d, j, part, e)
  BY <1>8, <1>9, BindingsAdded
<1>11. FamilyAllowed(e, new[k])
  BY <1>0, <1>3, <1>6, <1>9
<1>12. CASE OtherFamilies(e, new[k]) = {}
  <2>1. d.nextId + 1 - 1 = d.nextId /\ 1 \in 1..j
    BY <1>0, <1>3, <1>5
  <2>2. d.nextId \in DOMAIN e.bindings /\ e.bindings[d.nextId] = new[1]
    BY <1>0, <1>7, <1>10, <2>1 DEF Added
  <2>3. new[1].source = new[k].source
    BY <1>0, <1>3, <1>12, <2>2 DEF OtherFamilies, BindingsWhere
  <2> QED BY <1>2, <2>3
<1>13. CASE Family[new[k].source] \in OtherFamilies(e, new[k])
  <2>1. PICK i \in DOMAIN e.bindings : /\ Family[e.bindings[i].source] = Family[new[k].source]
                                       /\ e.bindings[i].model = new[k].model
    BY <1>13 DEF OtherFamilies, BindingsWhere
  <2>2. new[k].model = m
    BY <1>0, <1>3
  <2>3. i \in d.nextId..(d.nextId + j - 1)
    BY <1>10, <2>1, <2>2 DEF Added
  <2>4. PICK l \in 1..j : i = d.nextId + l - 1
    <3>1. i - d.nextId + 1 \in 1..j /\ i = d.nextId + (i - d.nextId + 1) - 1
      BY <1>0, <2>3
    <3> QED BY <3>1
  <2>5. e.bindings[i] = new[l]
    BY <1>7, <1>10, <2>4 DEF Added
  <2> QED BY <1>2, <1>3, <1>5, <2>1, <2>4, <2>5
<1> QED
  BY <1>11, <1>12, <1>13 DEF FamilyAllowed

\* Bindings of other models stay, those of the model are of one family.
LEMMA RoutingWritten ==
    ASSUME TablesInv(db), NEW m, NEW lines \in LineLists, NEW on \in BOOLEAN,
           NEW r \in Int \X Int, WriteModelRouting(m, lines, on, r)
    PROVE  /\ TablesInv(db')
           /\ \A i \in DOMAIN db'.bindings : db'.bindings[i].model # m =>
                 i \in DOMAIN db.bindings /\ db'.bindings[i] = db.bindings[i]
           /\ \A i, j \in DOMAIN db'.bindings :
                 db'.bindings[i].model = m /\ db'.bindings[j].model = m =>
                   Family[db'.bindings[i].source] = Family[db'.bindings[j].source]
<1>1. PICK d : d = ClearedRouting(m, lines)
  OBVIOUS
<1>2. PICK new : new = LineBindings(db, m, lines)
  OBVIOUS
<1>3. PICK e : e = WithBindings(d, new)
  OBVIOUS
<1>4. /\ IsInjective(lines)
      /\ \A k \in DOMAIN new : BindingReference(WithBindings(d, SubSeq(new, 1, k - 1)), new[k])
      /\ db' = [e EXCEPT !.routes = IF new = <<>> THEN @ ELSE With(@, r, LineRoute(m, new)),
                         !.models[m].enabled = on]
  BY <1>1, <1>2, <1>3, Zenon DEF WriteModelRouting, Commit
<1>5. /\ TablesInv(d) /\ DOMAIN d.models = DOMAIN db.models \cup {m}
      /\ DOMAIN d.bindings = {i \in DOMAIN db.bindings : db.bindings[i].model # m}
      /\ \A i \in DOMAIN d.bindings : d.bindings[i] = db.bindings[i]
  BY <1>1, RoutingCleared
<1>6. PICK n \in Nat :
         /\ new = [k \in 1..n |-> new[k]] /\ DOMAIN new = 1..n
         /\ \A k \in 1..n : /\ DOMAIN new[k] = BindingFields
                            /\ new[k].priority \in Int /\ new[k].protocol \in Protocols
                            /\ new[k].model = m /\ Active(new[k])
         /\ \A k, l \in 1..n : Identity(new[k]) = Identity(new[l]) => k = l
  BY <1>2, <1>4, LineBindingsAre
<1>7. \A k \in 1..n : Refers(d, new[k]) /\ FamilyAllowed(WithBindings(d, SubSeq(new, 1, k - 1)), new[k])
  <2> SUFFICES ASSUME NEW k \in 1..n
               PROVE  Refers(d, new[k]) /\ FamilyAllowed(WithBindings(d, SubSeq(new, 1, k - 1)), new[k])
    OBVIOUS
  <2>1. PICK x : x = WithBindings(d, SubSeq(new, 1, k - 1))
    OBVIOUS
  <2>2. BindingReference(x, new[k])
    BY <1>4, <1>6, <2>1
  <2>3. x.accounts = d.accounts /\ x.models = d.models /\ x.listed = d.listed /\ x.caps = d.caps
    BY <1>5, <2>1 DEF WithBindings, TablesInv, TableFields
  <2> QED BY <1>6, <2>1, <2>2, <2>3 DEF BindingReference, Refers
<1>8. NewRows(d, n, new)
  <2>1. \A k \in 1..n, i \in DOMAIN d.bindings : Identity(new[k]) # Identity(d.bindings[i])
    BY <1>5, <1>6 DEF Identity
  <2> QED BY <1>6, <1>7, <2>1 DEF NewRows, BindingRow
<1>9. TablesInv(e) /\ Added(d, n, new, e)
  BY <1>3, <1>5, <1>8, BindingsAdded
<1>10. /\ DOMAIN db' = TableFields
       /\ db'.sources = e.sources /\ db'.accounts = e.accounts /\ db'.listed = e.listed
       /\ db'.caps = e.caps /\ db'.bindings = e.bindings /\ db'.nextId = e.nextId
       /\ DOMAIN db'.models = DOMAIN e.models
       /\ DOMAIN db'.routes \subseteq DOMAIN e.routes \cup {r}
  BY <1>4, <1>9 DEF TablesInv, TableFields, With
<1>11. RouteRows(db')
  <2>1. IsFiniteSet(DOMAIN e.routes \cup {r})
    BY <1>9, FS_AddElement DEF TablesInv, RouteRows
  <2>2. IsFiniteSet(DOMAIN db'.routes)
    BY <1>10, <2>1, FS_Subset
  <2> QED BY <1>9, <1>10, <2>2 DEF TablesInv, RouteRows
<1>12. Thins(e, db')
  BY <1>9, <1>10, <1>11 DEF TablesInv, Thins, AccountRows, BindingRows, Refers
<1>13. TablesInv(db')
  BY <1>9, <1>12, ThinTables
<1>14. \A k \in 1..n : Family[new[k].source] = Family[new[1].source]
  <2>1. \A k \in 1..n : new[k].model = m /\ Active(new[k])
    BY <1>6
  <2>2. \A i \in DOMAIN d.bindings : d.bindings[i].model # m
    BY <1>5
  <2>3. \A k \in 1..n : FamilyAllowed(WithBindings(d, SubSeq(new, 1, k - 1)), new[k])
    BY <1>7
  <2>4. TablesInv(d) /\ NewLines(d, n, new, m)
    BY <1>5, <1>8, <2>1, <2>2, <2>3 DEF NewLines
  <2> QED BY <2>4, LinesOfOneFamily
<1>15. \A i \in DOMAIN e.bindings : \/ i \in DOMAIN d.bindings
                                     \/ \E k \in 1..n : e.bindings[i] = new[k]
  <2> SUFFICES ASSUME NEW i \in DOMAIN e.bindings, i \notin DOMAIN d.bindings
               PROVE  \E k \in 1..n : e.bindings[i] = new[k]
    OBVIOUS
  <2>1. d.nextId \in Nat /\ i \in d.nextId..(d.nextId + n - 1)
    BY <1>5, <1>9 DEF Added, TablesInv, BindingIds
  <2>2. i - d.nextId + 1 \in 1..n /\ d.nextId + (i - d.nextId + 1) - 1 = i
    BY <2>1
  <2> QED BY <1>9, <2>2 DEF Added
<1>16. \A i \in DOMAIN e.bindings : e.bindings[i].model # m =>
          i \in DOMAIN db.bindings /\ e.bindings[i] = db.bindings[i]
  BY <1>5, <1>6, <1>9, <1>15 DEF Added
<1>17. \A i \in DOMAIN e.bindings : e.bindings[i].model = m =>
          Family[e.bindings[i].source] = Family[new[1].source]
  BY <1>5, <1>9, <1>14, <1>15 DEF Added
<1> QED
  BY <1>10, <1>13, <1>16, <1>17

-----------------------------------------------------------------------------
(* The import of a file. *)

ImportSteps(file) ==
    [route : Range(file.routes), model : UNION {RouteModels(file, x) : x \in Range(file.routes)},
     account : DOMAIN file.accounts, index : Int, protocol : Protocols, id : Int \X Int]

\* A set of protocols in order.
LEMMA InOrderIs ==
    ASSUME NEW ps, ps \subseteq Protocols
    PROVE  InOrder(ps) \in Seq(ps) /\ Range(InOrder(ps)) = ps
<1> DEFINE K == [p \in ps |-> <<Rank[p]>>]
<1>1. IsFiniteSet(ps)
  BY InputsAssumption, FS_Subset
<1>2. \A p \in ps : Rank[p] \in Int /\ <<Rank[p]>> \in [1..1 -> Int]
  BY InputsAssumption
<1>3. DOMAIN K = ps /\ K \in [ps -> [1..1 -> Int]]
  BY <1>2
<1>4. \A p, q \in ps : K[p] = K[q] => p = q
  <2> SUFFICES ASSUME NEW p \in ps, NEW q \in ps, K[p] = K[q] PROVE p = q
    OBVIOUS
  <2>1. Rank[p] = Rank[q]
    OBVIOUS
  <2> QED BY <2>1, InputsAssumption
<1>5. InOrder(ps) = Ordered(K)
  BY DEF InOrder
<1> HIDE DEF K
<1>6. Keyed(K, 1)
  BY <1>1, <1>3, <1>4 DEF Keyed
<1>7. PICK o : o = Ordered(K)
  OBVIOUS
<1>8. /\ o \in Seq(ps) /\ \A i \in DOMAIN o : o[i] \in ps
      /\ \A p \in ps : \E i \in DOMAIN o : o[i] = p
  BY <1>3, <1>6, <1>7, OrderedIs
<1>9. Range(o) = ps
  BY <1>8 DEF Range
<1> QED
  BY <1>5, <1>7, <1>8, <1>9

\* The models of a route of an accepted file are finitely many.
LEMMA RouteModelsAre ==
    ASSUME NEW file \in Files, FileValid(file), NEW i \in DOMAIN file.routes
    PROVE  IsFiniteSet(RouteModels(file, file.routes[i]))
<1>1. file.routes[i].provider \in DOMAIN file.providers
  BY DEF FileValid, RouteValid
<1>2. IsFiniteSet(file.providers[file.routes[i].provider].models)
  BY <1>1, FilesAssumption
<1>3. IsFiniteSet({file.routes[i].model})
  BY FS_Singleton
<1> QED
  BY <1>2, <1>3 DEF RouteModels

LEMMA RouteAccountsAre ==
    ASSUME NEW file \in Files, FileRefers(file), NEW i \in DOMAIN file.routes
    PROVE  RouteAccounts(file.routes[i]) \in Seq(DOMAIN file.accounts)
<1>1. PICK f, x : f = file.routes[i].fallbacks /\ x = file.routes[i].primary
  OBVIOUS
<1>2. f \in Seq(Range(f))
  BY <1>1, FilesAssumption
<1>3. PICK s : s = <<x>> \o f
  OBVIOUS
<1>4. s = RouteAccounts(file.routes[i]) /\ Range(s) \subseteq DOMAIN file.accounts
  BY <1>1, <1>3 DEF RouteAccounts, FileRefers
<1>5. PICK T : T = Range(f) \cup {x}
  OBVIOUS
<1>6. f \in Seq(T) /\ <<x>> \in Seq(T)
  BY <1>2, <1>5
<1>7. s \in Seq(T)
  BY <1>3, <1>6
<1>8. \A k \in 1..Len(s) : s[k] \in DOMAIN file.accounts
  BY <1>4, <1>7 DEF Range
<1> QED
  BY <1>4, <1>7, <1>8

\* The models of a route in the importer's order, and the step for the j-th of
\* them, the n-th account and a protocol.
ModelsOf(file, i) == SetToSeq(RouteModels(file, file.routes[i]))

StepOf(file, i, j, n, p) ==
    [route |-> file.routes[i], model |-> ModelsOf(file, i)[j],
     account |-> RouteAccounts(file.routes[i])[n], index |-> n - 1, protocol |-> p,
     id |-> <<file.routes[i].id, IF Len(ModelsOf(file, i)) = 1 THEN 0 ELSE j>>]

\* The steps of a file: one for each route, model, account and protocol.
LEMMA StepsAre ==
    ASSUME NEW file \in Files, FileValid(file), FileRefers(file)
    PROVE  /\ Steps(file) \in Seq(ImportSteps(file))
           /\ \A x : x \in Range(Steps(file)) <=>
                \E i \in DOMAIN file.routes : \E j \in DOMAIN ModelsOf(file, i) :
                  \E n \in DOMAIN RouteAccounts(file.routes[i]) :
                    \E p \in file.routes[i].protocols : x = StepOf(file, i, j, n, p)
<1> DEFINE accounts(i) == RouteAccounts(file.routes[i])
           protocols(i) == InOrder(file.routes[i].protocols)
           inner(i, j, n) == [q \in DOMAIN protocols(i) |-> StepOf(file, i, j, n, protocols(i)[q])]
           middle(i, j) == FlattenSeq([n \in DOMAIN accounts(i) |-> inner(i, j, n)])
           outer(i) == FlattenSeq([j \in DOMAIN ModelsOf(file, i) |-> middle(i, j)])
           In(x, i, j, n) == \E p \in file.routes[i].protocols : x = StepOf(file, i, j, n, p)
           InMiddle(x, i, j) == \E n \in DOMAIN accounts(i) : In(x, i, j, n)
           InOuter(x, i) == \E j \in DOMAIN ModelsOf(file, i) : InMiddle(x, i, j)
<1>1. Steps(file) = FlattenSeq([i \in DOMAIN file.routes |-> outer(i)])
  BY Zenon DEF Steps, StepOf, ModelsOf
<1>2. file.routes \in Seq(Range(file.routes))
  BY FilesAssumption
<1>3. Len(file.routes) \in Nat /\ DOMAIN file.routes = 1..Len(file.routes)
  BY <1>2
<1> HIDE DEF accounts, protocols, In
<1>4. ASSUME NEW i \in DOMAIN file.routes
      PROVE  outer(i) \in Seq(ImportSteps(file)) /\ \A x : x \in Range(outer(i)) <=> InOuter(x, i)
  <2>1. ModelsOf(file, i) \in Seq(RouteModels(file, file.routes[i]))
    BY RouteModelsAre, SetToSeqIs DEF ModelsOf
  <2>2. accounts(i) \in Seq(DOMAIN file.accounts)
    BY RouteAccountsAre DEF accounts
  <2>3. /\ protocols(i) \in Seq(Protocols)
        /\ \A p : p \in file.routes[i].protocols <=> \E q \in DOMAIN protocols(i) : protocols(i)[q] = p
    <3>1. file.routes[i].protocols \subseteq Protocols
      BY FilesAssumption
    <3>2. /\ InOrder(file.routes[i].protocols) \in Seq(file.routes[i].protocols)
          /\ Range(InOrder(file.routes[i].protocols)) = file.routes[i].protocols
      BY <3>1, InOrderIs
    <3>3. protocols(i) \in Seq(Protocols) /\ Range(protocols(i)) = file.routes[i].protocols
      BY <3>1, <3>2 DEF protocols
    <3> QED BY <3>3 DEF Range
  <2>4. ASSUME NEW j \in DOMAIN ModelsOf(file, i), NEW n \in DOMAIN accounts(i), NEW p \in Protocols
        PROVE  StepOf(file, i, j, n, p) \in ImportSteps(file)
    <3>1. ModelsOf(file, i)[j] \in RouteModels(file, file.routes[i]) /\ j \in Int
      BY <2>1
    <3>2. accounts(i)[n] \in DOMAIN file.accounts /\ n - 1 \in Int
      BY <2>2
    <3>4. file.routes[i] \in Range(file.routes)
      BY DEF Range
    <3>5. <<file.routes[i].id, IF Len(ModelsOf(file, i)) = 1 THEN 0 ELSE j>> \in Int \X Int
      BY <3>1, FilesAssumption
    <3>6. ModelsOf(file, i)[j] \in UNION {RouteModels(file, x) : x \in Range(file.routes)}
      BY <3>1, <3>4
    <3> QED BY <3>2, <3>4, <3>5, <3>6 DEF StepOf, ImportSteps, accounts
  <2>5. ASSUME NEW j \in DOMAIN ModelsOf(file, i), NEW n \in DOMAIN accounts(i)
        PROVE  /\ inner(i, j, n) \in Seq(ImportSteps(file))
               /\ \A x : x \in Range(inner(i, j, n)) <=> In(x, i, j, n)
    <3>1. /\ Len(protocols(i)) \in Nat /\ DOMAIN protocols(i) = 1..Len(protocols(i))
          /\ \A q \in DOMAIN protocols(i) : protocols(i)[q] \in Protocols
      BY <2>3
    <3>2. inner(i, j, n) \in [1..Len(protocols(i)) -> ImportSteps(file)]
      BY <2>4, <3>1
    <3>3. \A x : x \in Range(inner(i, j, n)) <=>
             \E q \in DOMAIN protocols(i) : x = StepOf(file, i, j, n, protocols(i)[q])
      BY DEF Range
    <3> HIDE DEF inner
    <3>4. \A x : x \in Range(inner(i, j, n)) <=> In(x, i, j, n)
      BY <2>3, <3>3 DEF In
    <3> QED BY <3>1, <3>2, <3>4
  <2> HIDE DEF inner
  <2>6. ASSUME NEW j \in DOMAIN ModelsOf(file, i)
        PROVE  /\ middle(i, j) \in Seq(ImportSteps(file))
               /\ \A x : x \in Range(middle(i, j)) <=> InMiddle(x, i, j)
    <3>1. PICK l, seqs : l = Len(accounts(i)) /\ seqs = [n \in DOMAIN accounts(i) |-> inner(i, j, n)]
      OBVIOUS
    <3>2. l \in Nat /\ DOMAIN accounts(i) = 1..l
      BY <2>2, <3>1
    <3>3. DOMAIN seqs = 1..l /\ seqs = [n \in 1..l |-> seqs[n]]
      BY <3>1, <3>2
    <3>4. \A n \in 1..l : /\ seqs[n] \in Seq(ImportSteps(file))
                          /\ \A x : x \in Range(seqs[n]) <=> In(x, i, j, n)
      BY <2>5, <3>1, <3>2
    <3>5. /\ FlattenSeq(seqs) \in Seq(ImportSteps(file))
          /\ \A x : x \in Range(FlattenSeq(seqs)) <=> \E n \in 1..l : x \in Range(seqs[n])
      BY <3>2, <3>3, <3>4, FlattenSeqIs
    <3>6. \A x : x \in Range(FlattenSeq(seqs)) <=> InMiddle(x, i, j)
      BY <3>2, <3>4, <3>5, Zenon
    <3> QED BY <3>1, <3>5, <3>6
  <2> HIDE DEF middle, InMiddle
  <2>7. PICK l, seqs : l = Len(ModelsOf(file, i)) /\ seqs = [j \in DOMAIN ModelsOf(file, i) |-> middle(i, j)]
    OBVIOUS
  <2>8. l \in Nat /\ DOMAIN ModelsOf(file, i) = 1..l
    BY <2>1, <2>7
  <2>9. DOMAIN seqs = 1..l /\ seqs = [j \in 1..l |-> seqs[j]]
    BY <2>7, <2>8
  <2>10. \A j \in 1..l : /\ seqs[j] \in Seq(ImportSteps(file))
                         /\ \A x : x \in Range(seqs[j]) <=> InMiddle(x, i, j)
    BY <2>6, <2>7, <2>8
  <2>11. /\ FlattenSeq(seqs) \in Seq(ImportSteps(file))
         /\ \A x : x \in Range(FlattenSeq(seqs)) <=> \E j \in 1..l : x \in Range(seqs[j])
    BY <2>8, <2>9, <2>10, FlattenSeqIs
  <2>12. \A x : x \in Range(FlattenSeq(seqs)) <=> InOuter(x, i)
    BY <2>8, <2>10, <2>11, Zenon
  <2> QED BY <2>7, <2>11, <2>12
<1> HIDE DEF outer, InOuter
<1>5. PICK l, seqs : l = Len(file.routes) /\ seqs = [i \in DOMAIN file.routes |-> outer(i)]
  OBVIOUS
<1>6. l \in Nat /\ DOMAIN file.routes = 1..l
  BY <1>3, <1>5
<1>7. DOMAIN seqs = 1..l /\ seqs = [i \in 1..l |-> seqs[i]]
  BY <1>5, <1>6
<1>8. \A i \in 1..l : /\ seqs[i] \in Seq(ImportSteps(file))
                      /\ \A x : x \in Range(seqs[i]) <=> InOuter(x, i)
  BY <1>4, <1>5, <1>6
<1>9. /\ FlattenSeq(seqs) \in Seq(ImportSteps(file))
      /\ \A x : x \in Range(FlattenSeq(seqs)) <=> \E i \in 1..l : x \in Range(seqs[i])
  BY <1>6, <1>7, <1>8, FlattenSeqIs
<1>10. \A x : x \in Range(FlattenSeq(seqs)) <=> \E i \in DOMAIN file.routes : InOuter(x, i)
  BY <1>6, <1>8, <1>9, Zenon
<1>11. \A x, i : InOuter(x, i) <=>
          \E j \in DOMAIN ModelsOf(file, i) : \E n \in DOMAIN RouteAccounts(file.routes[i]) :
            \E p \in file.routes[i].protocols : x = StepOf(file, i, j, n, p)
  BY Zenon DEF InOuter, In, accounts
<1> QED
  BY <1>1, <1>5, <1>9, <1>10, <1>11, Zenon

\* A step is of a route of the file, and every choice of the file is a step.
StepFor(file, x, i, n) ==
    /\ x.route = file.routes[i] /\ x.model \in RouteModels(file, file.routes[i])
    /\ x.account = RouteAccounts(file.routes[i])[n] /\ x.index = n - 1
    /\ x.protocol \in file.routes[i].protocols /\ x.id[1] = file.routes[i].id

LEMMA StepIs ==
    ASSUME NEW file \in Files, FileValid(file), FileRefers(file), NEW x \in Range(Steps(file))
    PROVE  /\ x \in ImportSteps(file)
           /\ \E i \in DOMAIN file.routes : \E n \in DOMAIN RouteAccounts(file.routes[i]) :
                StepFor(file, x, i, n)
<1>1. x \in ImportSteps(file)
  BY StepsAre, RangeOfSeq
<1>2. PICK i \in DOMAIN file.routes : \E j \in DOMAIN ModelsOf(file, i) :
         \E n \in DOMAIN RouteAccounts(file.routes[i]) :
           \E p \in file.routes[i].protocols : x = StepOf(file, i, j, n, p)
  BY StepsAre, Zenon
<1>3. PICK j \in DOMAIN ModelsOf(file, i), n \in DOMAIN RouteAccounts(file.routes[i]),
           p \in file.routes[i].protocols : x = StepOf(file, i, j, n, p)
  BY <1>2, Zenon
<1>4. ModelsOf(file, i) \in Seq(RouteModels(file, file.routes[i]))
  BY RouteModelsAre, SetToSeqIs DEF ModelsOf
<1>5. ModelsOf(file, i)[j] \in RouteModels(file, file.routes[i])
  BY <1>4
<1>6. StepFor(file, x, i, n)
  BY <1>3, <1>5 DEF StepOf, StepFor
<1> QED
  BY <1>1, <1>6

LEMMA StepExists ==
    ASSUME NEW file \in Files, FileValid(file), FileRefers(file), NEW i \in DOMAIN file.routes,
           NEW m \in RouteModels(file, file.routes[i]),
           NEW n \in DOMAIN RouteAccounts(file.routes[i]), NEW p \in file.routes[i].protocols
    PROVE  \E x \in Range(Steps(file)) : StepFor(file, x, i, n) /\ x.model = m /\ x.protocol = p
<1>1. PICK j \in DOMAIN ModelsOf(file, i) : ModelsOf(file, i)[j] = m
  BY RouteModelsAre, SetToSeqIs DEF ModelsOf
<1>2. PICK x : x = StepOf(file, i, j, n, p)
  OBVIOUS
<1>3. x \in Range(Steps(file))
  BY <1>2, StepsAre, Zenon
<1>4. StepFor(file, x, i, n) /\ x.model = m /\ x.protocol = p
  BY <1>1, <1>2 DEF StepOf, StepFor
<1> QED
  BY <1>3, <1>4

\* The id of a step names its route and its model.
LEMMA StepId ==
    ASSUME NEW file \in Files, FileValid(file), FileRefers(file),
           NEW x \in Range(Steps(file)), NEW y \in Range(Steps(file)), x.id = y.id
    PROVE  x.route = y.route /\ x.model = y.model
<1>1. ASSUME NEW z \in Range(Steps(file))
      PROVE  \E i \in DOMAIN file.routes : \E j \in DOMAIN ModelsOf(file, i) :
               /\ z.route = file.routes[i] /\ z.model = ModelsOf(file, i)[j]
               /\ z.id[1] = file.routes[i].id
               /\ z.id[2] = IF Len(ModelsOf(file, i)) = 1 THEN 0 ELSE j
  <2>1. PICK i \in DOMAIN file.routes : \E j \in DOMAIN ModelsOf(file, i) :
           \E n \in DOMAIN RouteAccounts(file.routes[i]) :
             \E p \in file.routes[i].protocols : z = StepOf(file, i, j, n, p)
    BY StepsAre, Zenon
  <2>2. PICK j \in DOMAIN ModelsOf(file, i), n \in DOMAIN RouteAccounts(file.routes[i]),
             p \in file.routes[i].protocols : z = StepOf(file, i, j, n, p)
    BY <2>1, Zenon
  <2>3. /\ z.route = file.routes[i] /\ z.model = ModelsOf(file, i)[j]
        /\ z.id[1] = file.routes[i].id
        /\ z.id[2] = IF Len(ModelsOf(file, i)) = 1 THEN 0 ELSE j
    BY <2>2 DEF StepOf
  <2> QED BY <2>3
<1>2a. PICK i \in DOMAIN file.routes : \E j \in DOMAIN ModelsOf(file, i) :
         /\ x.route = file.routes[i] /\ x.model = ModelsOf(file, i)[j]
         /\ x.id[1] = file.routes[i].id
         /\ x.id[2] = IF Len(ModelsOf(file, i)) = 1 THEN 0 ELSE j
  BY <1>1
<1>2. PICK j \in DOMAIN ModelsOf(file, i) :
         /\ x.route = file.routes[i] /\ x.model = ModelsOf(file, i)[j]
         /\ x.id[1] = file.routes[i].id
         /\ x.id[2] = IF Len(ModelsOf(file, i)) = 1 THEN 0 ELSE j
  BY <1>2a
<1>3a. PICK k \in DOMAIN file.routes : \E l \in DOMAIN ModelsOf(file, k) :
         /\ y.route = file.routes[k] /\ y.model = ModelsOf(file, k)[l]
         /\ y.id[1] = file.routes[k].id
         /\ y.id[2] = IF Len(ModelsOf(file, k)) = 1 THEN 0 ELSE l
  BY <1>1
<1>3. PICK l \in DOMAIN ModelsOf(file, k) :
         /\ y.route = file.routes[k] /\ y.model = ModelsOf(file, k)[l]
         /\ y.id[1] = file.routes[k].id
         /\ y.id[2] = IF Len(ModelsOf(file, k)) = 1 THEN 0 ELSE l
  BY <1>3a
<1>4. i = k
  BY <1>2, <1>3 DEF FileRefers
<1>5. ModelsOf(file, i) \in Seq(RouteModels(file, file.routes[i]))
  BY RouteModelsAre, SetToSeqIs DEF ModelsOf
<1>6. PICK ms : ms = ModelsOf(file, i)
  OBVIOUS
<1>7. Len(ms) = 1 => j = 1 /\ l = 1
  BY <1>2, <1>3, <1>4, <1>5, <1>6
<1>8. j = l
  BY <1>2, <1>3, <1>4, <1>6, <1>7
<1> QED
  BY <1>2, <1>3, <1>4, <1>8

\* The accounts of the file are in the tables, each on its provider.
FileAccounts(file, d) ==
    \A a \in DOMAIN file.accounts : /\ a \in DOMAIN d.accounts
                                    /\ d.accounts[a].source = file.accounts[a].provider

\* Rows rewritten in place, each keeping its identity.
LEMMA BindingsRewritten ==
    ASSUME NEW d, TablesInv(d), NEW e, DOMAIN e = DOMAIN d,
           e.sources = d.sources, e.accounts = d.accounts, e.listed = d.listed,
           e.caps = d.caps, e.models = d.models, e.routes = d.routes, e.nextId = d.nextId,
           DOMAIN e.bindings = DOMAIN d.bindings,
           \A i \in DOMAIN d.bindings : /\ BindingRow(d, e.bindings[i])
                                        /\ Identity(e.bindings[i]) = Identity(d.bindings[i])
    PROVE  TablesInv(e)
<1>1. BindingRows(e)
  BY DEF BindingRows, BindingRow, Refers
<1>2. UniqueRows(e)
  BY DEF TablesInv, UniqueRows
<1> QED
  BY <1>1, <1>2 DEF TablesInv, AccountRows, RouteRows, BindingIds

LEMMA ImportStepKeeps ==
    ASSUME NEW file, NEW step \in ImportSteps(file),
           NEW d, TablesInv(d), FileAccounts(file, d), NEW e, e = ImportStep(d, file, step)
    PROVE  TablesInv(e) /\ FileAccounts(file, e)
<1> DEFINE a == step.account
           s == file.accounts[a].provider
           cap == StepCapability(file, step)
           features == FeatureCapabilities(file, s, a, step.model)
           full(c) == [status |-> "confirmed", cap |-> c, features |-> features]
           u == UpstreamModel(file, a, step.model)
           below == IF cap.mode = "adapter" THEN With(d.caps, <<s, u, cap.source>>, full(Native))
                    ELSE d.caps
           b == [model |-> step.model, source |-> s, account |-> a, upstream |-> u,
                 protocol |-> step.protocol, status |-> "confirmed",
                 enabled |-> file.accounts[a].enabled, priority |-> Priority(step.index)]
           same == BindingsWhere(d, LAMBDA c : Identity(c) = Identity(b))
           merged(i) == [b EXCEPT !.priority =
                           IF d.bindings[i].priority > @ THEN d.bindings[i].priority ELSE @]
           base == [d EXCEPT
             !.models = With(@, step.model, [status |-> "confirmed", enabled |-> TRUE]),
             !.routes = With(@, step.id, [model |-> step.model,
                                          protocols |-> step.route.protocols,
                                          strategy |-> step.route.strategy,
                                          lossy |-> step.route.lossy, enabled |-> TRUE]),
             !.listed = With(@, <<s, u>>, [conf |-> "confirmed", avail |-> "available"]),
             !.caps = With(below, <<s, u, step.protocol>>, full(cap))]
<1>1. e = IF same = {} THEN WithBindings(base, <<b>>)
          ELSE [base EXCEPT !.bindings = [i \in DOMAIN @ |-> IF i \in same THEN merged(i) ELSE @[i]]]
  BY Zenon DEF ImportStep
<1> HIDE DEF a, s, cap, u, features, full, below, b, same, base
<1>7. /\ a \in DOMAIN file.accounts /\ step.index \in Int /\ step.protocol \in Protocols
      /\ step.id \in Int \X Int
  BY DEF ImportSteps, a
<1>8. /\ DOMAIN base = TableFields
      /\ base.sources = d.sources /\ base.accounts = d.accounts /\ base.nextId = d.nextId
      /\ base.bindings = d.bindings
      /\ DOMAIN base.models = DOMAIN d.models \cup {step.model}
      /\ DOMAIN base.routes = DOMAIN d.routes \cup {step.id}
      /\ DOMAIN base.listed = DOMAIN d.listed \cup {<<s, u>>}
      /\ DOMAIN base.caps = DOMAIN below \cup {<<s, u, step.protocol>>}
      /\ DOMAIN d.caps \subseteq DOMAIN below
  BY DEF With, TablesInv, TableFields, base, below
<1>9. TablesInv(base)
  <2>1. IsFiniteSet(DOMAIN base.routes)
    BY <1>8, FS_AddElement DEF TablesInv, RouteRows
  <2>2. RouteRows(base)
    BY <1>7, <1>8, <2>1 DEF TablesInv, RouteRows
  <2>3. Thins(d, base)
    BY <1>8, <2>2 DEF TablesInv, Thins, AccountRows, BindingRows, Refers
  <2> QED BY <2>3, ThinTables
<1>10. /\ DOMAIN b = BindingFields /\ b.priority \in Int /\ b.protocol = step.protocol
       /\ b.model = step.model /\ b.source = s /\ b.account = a /\ b.upstream = u
  BY <1>7 DEF BindingFields, Priority, b
<1>11. Refers(base, b)
  BY <1>7, <1>8, <1>10 DEF Refers, ListedKey, CapKey, FileAccounts, s
<1>12. BindingRow(base, b)
  BY <1>7, <1>10, <1>11 DEF BindingRow
<1>13. CASE same = {}
  <2>1. \A i \in DOMAIN base.bindings : Identity(base.bindings[i]) # Identity(b)
    BY <1>8, <1>13 DEF BindingsWhere, same
  <2>2. e = WithBindings(base, <<b>>)
    BY <1>1, <1>13
  <2>3. TablesInv(e) /\ e.accounts = base.accounts
    BY <1>9, <1>12, <2>1, <2>2, OneBindingAdded
  <2> QED BY <1>8, <2>3 DEF FileAccounts
<1>14. CASE same # {}
  <2>1. e = [base EXCEPT !.bindings = [i \in DOMAIN base.bindings |->
                            IF i \in same THEN merged(i) ELSE base.bindings[i]]]
    BY <1>1, <1>14
  <2>2. \A i \in DOMAIN d.bindings :
           /\ DOMAIN merged(i) = BindingFields
           /\ merged(i).priority \in Int /\ merged(i).protocol = b.protocol
           /\ merged(i).model = b.model /\ merged(i).source = b.source
           /\ merged(i).account = b.account /\ merged(i).upstream = b.upstream
    <3> SUFFICES ASSUME NEW i \in DOMAIN d.bindings
                 PROVE  /\ DOMAIN merged(i) = BindingFields
                        /\ merged(i).priority \in Int /\ merged(i).protocol = b.protocol
                        /\ merged(i).model = b.model /\ merged(i).source = b.source
                        /\ merged(i).account = b.account /\ merged(i).upstream = b.upstream
      OBVIOUS
    <3>1. d.bindings[i].priority \in Int
      BY DEF TablesInv, BindingRows
    <3> QED BY <1>10, <3>1 DEF BindingFields
  <2> HIDE DEF merged
  <2>3. /\ DOMAIN e = DOMAIN base
        /\ e.sources = base.sources /\ e.accounts = base.accounts /\ e.listed = base.listed
        /\ e.caps = base.caps /\ e.models = base.models /\ e.routes = base.routes
        /\ e.nextId = base.nextId
        /\ DOMAIN e.bindings = DOMAIN base.bindings
        /\ \A i \in DOMAIN base.bindings :
              e.bindings[i] = IF i \in same THEN merged(i) ELSE base.bindings[i]
    BY <1>8, <2>1 DEF TableFields
  <2>4. \A i \in DOMAIN base.bindings : /\ BindingRow(base, e.bindings[i])
                                        /\ Identity(e.bindings[i]) = Identity(base.bindings[i])
    <3> SUFFICES ASSUME NEW i \in DOMAIN base.bindings
                 PROVE  /\ BindingRow(base, e.bindings[i])
                        /\ Identity(e.bindings[i]) = Identity(base.bindings[i])
      OBVIOUS
    <3>1. CASE i \notin same
      BY <1>9, <2>3, <3>1 DEF TablesInv, BindingRows, BindingRow
    <3>2. CASE i \in same
      <4>1. PICK c : c = e.bindings[i]
        OBVIOUS
      <4>2. c = merged(i) /\ i \in DOMAIN d.bindings
        BY <1>8, <2>3, <3>2, <4>1 DEF same, BindingsWhere
      <4>3. Identity(base.bindings[i]) = Identity(b)
        BY <1>8, <3>2 DEF BindingsWhere, same
      <4>4. Identity(c) = Identity(b)
        BY <2>2, <4>2 DEF Identity, CapKey
      <4>5. BindingRow(base, c)
        BY <1>12, <2>2, <4>2 DEF BindingRow, Refers, ListedKey, CapKey
      <4> QED BY <4>1, <4>3, <4>4, <4>5
    <3> QED BY <3>1, <3>2
  <2>5. TablesInv(e)
    BY <1>9, <2>3, <2>4, BindingsRewritten
  <2> QED BY <1>8, <2>3, <2>5 DEF FileAccounts
<1> QED
  BY <1>13, <1>14

\* The binding and the route row of a step.
StepBinding(file, x) ==
    [model |-> x.model, source |-> file.accounts[x.account].provider, account |-> x.account,
     upstream |-> UpstreamModel(file, x.account, x.model), protocol |-> x.protocol,
     status |-> "confirmed", enabled |-> file.accounts[x.account].enabled,
     priority |-> Priority(x.index)]

RouteRow(x) == [model |-> x.model, protocols |-> x.route.protocols, strategy |-> x.route.strategy,
                lossy |-> x.route.lossy, enabled |-> TRUE]

Live == [status |-> "confirmed", enabled |-> TRUE]
Offered == [conf |-> "confirmed", avail |-> "available"]

\* Of two rows with the same identity the one with the higher priority stays.
Merged(c, b) == [b EXCEPT !.priority = IF c.priority > @ THEN c.priority ELSE @]

\* What a step leaves in each table.
BindingsAfter(d, e, b) ==
    \/ /\ \A i \in DOMAIN d.bindings : Identity(d.bindings[i]) # Identity(b)
       /\ DOMAIN e.bindings = DOMAIN d.bindings \cup {d.nextId}
       /\ e.bindings[d.nextId] = b
       /\ \A i \in DOMAIN d.bindings : e.bindings[i] = d.bindings[i]
    \/ /\ \E i \in DOMAIN d.bindings : Identity(d.bindings[i]) = Identity(b)
       /\ DOMAIN e.bindings = DOMAIN d.bindings
       /\ \A i \in DOMAIN d.bindings :
            e.bindings[i] = IF Identity(d.bindings[i]) = Identity(b)
                            THEN Merged(d.bindings[i], b) ELSE d.bindings[i]

LEMMA ImportStepDoes ==
    ASSUME NEW file, NEW x \in ImportSteps(file), NEW d, TablesInv(d),
           NEW e, e = ImportStep(d, file, x), NEW rows, rows = StepRows(file, x)
    PROVE  /\ e.models = With(d.models, x.model, Live)
           /\ e.routes = With(d.routes, x.id, RouteRow(x))
           /\ e.listed = With(d.listed, ListedKey(StepBinding(file, x)), Offered)
           /\ DOMAIN e.caps = DOMAIN d.caps \cup DOMAIN rows
           /\ \A k \in DOMAIN e.caps : e.caps[k] = IF k \in DOMAIN rows THEN rows[k] ELSE d.caps[k]
           /\ BindingsAfter(d, e, StepBinding(file, x))
<1> DEFINE a == x.account
           s == file.accounts[a].provider
           cap == StepCapability(file, x)
           features == FeatureCapabilities(file, s, a, x.model)
           full(c) == [status |-> "confirmed", cap |-> c, features |-> features]
           u == UpstreamModel(file, a, x.model)
           below == IF cap.mode = "adapter" THEN With(d.caps, <<s, u, cap.source>>, full(Native))
                    ELSE d.caps
           b == StepBinding(file, x)
           same == BindingsWhere(d, LAMBDA c : Identity(c) = Identity(b))
           base == [d EXCEPT !.models = With(@, x.model, Live),
                             !.routes = With(@, x.id, RouteRow(x)),
                             !.listed = With(@, <<s, u>>, Offered),
                             !.caps = With(below, <<s, u, x.protocol>>, full(cap))]
<1>1. e = IF same = {} THEN WithBindings(base, <<b>>)
          ELSE [base EXCEPT !.bindings = [i \in DOMAIN @ |-> IF i \in same THEN Merged(d.bindings[i], b) ELSE @[i]]]
  BY Zenon DEF ImportStep, StepBinding, RouteRow, Live, Offered, Merged
<1> HIDE DEF a, s, cap, u, features, full, below, b, same, base
<1>2. /\ DOMAIN base = TableFields
      /\ base.nextId = d.nextId /\ base.bindings = d.bindings
      /\ base.models = With(d.models, x.model, Live)
      /\ base.routes = With(d.routes, x.id, RouteRow(x))
      /\ base.listed = With(d.listed, <<s, u>>, Offered)
      /\ base.caps = With(below, <<s, u, x.protocol>>, full(cap))
  BY DEF TablesInv, TableFields, base
<1>3. ListedKey(b) = <<s, u>>
  BY DEF ListedKey, b, StepBinding, s, u, a
<1>4. /\ DOMAIN base.caps = DOMAIN d.caps \cup DOMAIN rows
      /\ \A k \in DOMAIN base.caps : base.caps[k] = IF k \in DOMAIN rows THEN rows[k] ELSE d.caps[k]
  <2> DEFINE own == <<s, u, x.protocol>>
             more == IF cap.mode = "adapter" THEN {<<s, u, cap.source>>} ELSE {}
  <2>1. rows = [k \in {own} \cup more |-> full(IF k = own THEN cap ELSE Native)]
    BY DEF StepRows, own, full, features, s, u, a, cap
  <2> HIDE DEF own
  <2>2. base.caps = With(below, own, full(cap))
    BY <1>2 DEF own
  <2>3. /\ DOMAIN base.caps = DOMAIN below \cup {own}
        /\ \A k \in DOMAIN base.caps : base.caps[k] = IF k = own THEN full(cap) ELSE below[k]
    BY <2>2 DEF With
  <2>4. CASE cap.mode = "adapter"
    <3>1. /\ DOMAIN below = DOMAIN d.caps \cup {<<s, u, cap.source>>}
          /\ \A k \in DOMAIN below :
                below[k] = IF k = <<s, u, cap.source>> THEN full(Native) ELSE d.caps[k]
      BY <2>4 DEF below, With
    <3>2. /\ DOMAIN rows = {own, <<s, u, cap.source>>}
          /\ \A k \in DOMAIN rows : rows[k] = IF k = own THEN full(cap) ELSE full(Native)
      BY <2>1, <2>4
    <3> QED BY <2>3, <3>1, <3>2
  <2>5. CASE cap.mode # "adapter"
    <3>1. below = d.caps
      BY <2>5 DEF below
    <3>2. DOMAIN rows = {own} /\ rows[own] = full(cap)
      BY <2>1, <2>5
    <3> QED BY <2>3, <3>1, <3>2
  <2> QED BY <2>4, <2>5
<1>5. CASE same = {}
  <2>1. \A i \in DOMAIN d.bindings : Identity(d.bindings[i]) # Identity(b)
    BY <1>5 DEF BindingsWhere, same
  <2>2. e = WithBindings(base, <<b>>)
    BY <1>1, <1>5
  <2>3. d.nextId \in Nat /\ \A i \in DOMAIN d.bindings : i # d.nextId
    BY DEF TablesInv, BindingIds
  <2>4. NewIds(base, <<b>>) = {d.nextId}
    BY <1>2, <2>3 DEF NewIds
  <2>5. /\ e.models = base.models /\ e.routes = base.routes /\ e.listed = base.listed
        /\ e.caps = base.caps
        /\ e.bindings = [i \in DOMAIN d.bindings \cup {d.nextId} |->
                           IF i \in {d.nextId} THEN <<b>>[i - d.nextId + 1] ELSE d.bindings[i]]
    BY <1>2, <2>2, <2>4 DEF WithBindings, TableFields
  <2>6. BindingsAfter(d, e, b)
    BY <2>1, <2>3, <2>5 DEF BindingsAfter
  <2> QED BY <1>2, <1>3, <1>4, <2>5, <2>6 DEF b
<1>6. CASE same # {}
  <2>1. e = [base EXCEPT !.bindings = [i \in DOMAIN base.bindings |->
                            IF i \in same THEN Merged(d.bindings[i], b) ELSE base.bindings[i]]]
    BY <1>1, <1>6
  <2>2. /\ e.models = base.models /\ e.routes = base.routes /\ e.listed = base.listed
        /\ e.caps = base.caps
        /\ e.bindings = [i \in DOMAIN d.bindings |->
                           IF i \in same THEN Merged(d.bindings[i], b) ELSE d.bindings[i]]
    BY <1>2, <2>1 DEF TableFields
  <2>3. \A i \in DOMAIN d.bindings : i \in same <=> Identity(d.bindings[i]) = Identity(b)
    BY DEF same, BindingsWhere
  <2>4. \E i \in DOMAIN d.bindings : Identity(d.bindings[i]) = Identity(b)
    BY <1>6 DEF same, BindingsWhere
  <2>5. BindingsAfter(d, e, b)
    BY <2>2, <2>3, <2>4 DEF BindingsAfter
  <2> QED BY <1>2, <1>3, <1>4, <2>2, <2>5 DEF b
<1> QED
  BY <1>5, <1>6

\* The tables after the steps of a set: every row was written by one of them,
\* and every one of them has its rows.
RoutesBuilt(d, done) ==
    /\ \A x \in done : x.id \in DOMAIN d.routes
    /\ \A r \in DOMAIN d.routes : \E x \in done : x.id = r /\ d.routes[r] = RouteRow(x)

ListsBuilt(d) ==
    /\ \A m \in DOMAIN d.models : d.models[m] = Live
    /\ \A k \in DOMAIN d.listed : d.listed[k] = Offered

CapsBuilt(d, file, done) ==
    \A k \in DOMAIN d.caps : \E x \in done : /\ k \in DOMAIN StepRows(file, x)
                                             /\ d.caps[k] = StepRows(file, x)[k]

BindingsBuilt(d, file, done) ==
    /\ \A i \in DOMAIN d.bindings : \E x \in done : d.bindings[i] = StepBinding(file, x)
    /\ \A x \in done : \E i \in DOMAIN d.bindings :
         /\ Identity(d.bindings[i]) = Identity(StepBinding(file, x))
         /\ d.bindings[i].priority >= Priority(x.index)

Built(d, file, done) ==
    /\ RoutesBuilt(d, done) /\ ListsBuilt(d)
    /\ CapsBuilt(d, file, done) /\ BindingsBuilt(d, file, done)

\* Rows of one identity differ in their priority alone.
LEMMA MergedIs ==
    ASSUME NEW file, NEW x \in ImportSteps(file), NEW y \in ImportSteps(file),
           NEW b, b = StepBinding(file, x), NEW c, c = StepBinding(file, y), Identity(c) = Identity(b)
    PROVE  Merged(c, b) = IF c.priority > b.priority THEN c ELSE b
<1>1. /\ b.model = x.model /\ b.account = x.account /\ b.protocol = x.protocol
      /\ c.model = y.model /\ c.account = y.account /\ c.protocol = y.protocol
      /\ b.priority = Priority(x.index) /\ c.priority = Priority(y.index)
  BY DEF StepBinding
<1>2. x.model = y.model /\ x.account = y.account /\ x.protocol = y.protocol
  BY <1>1 DEF Identity, CapKey
<1>3. c = [b EXCEPT !.priority = Priority(y.index)] /\ b = [b EXCEPT !.priority = Priority(x.index)]
  BY <1>2 DEF StepBinding
<1> QED
  BY <1>1, <1>3 DEF Merged

LEMMA ImportStepBuilds ==
    ASSUME NEW file, NEW x \in ImportSteps(file), NEW done \in SUBSET ImportSteps(file),
           NEW d, TablesInv(d), Built(d, file, done), NEW e, e = ImportStep(d, file, x)
    PROVE  Built(e, file, done \cup {x})
<1> DEFINE all == done \cup {x}
           b == StepBinding(file, x)
           rows == StepRows(file, x)
<1>1. /\ e.models = With(d.models, x.model, Live)
      /\ e.routes = With(d.routes, x.id, RouteRow(x))
      /\ e.listed = With(d.listed, ListedKey(b), Offered)
      /\ DOMAIN e.caps = DOMAIN d.caps \cup DOMAIN rows
      /\ \A k \in DOMAIN e.caps : e.caps[k] = IF k \in DOMAIN rows THEN rows[k] ELSE d.caps[k]
      /\ BindingsAfter(d, e, b)
  BY ImportStepDoes
<1>2. RoutesBuilt(e, all)
  <2>1. /\ DOMAIN e.routes = DOMAIN d.routes \cup {x.id}
        /\ \A r \in DOMAIN e.routes : e.routes[r] = IF r = x.id THEN RouteRow(x) ELSE d.routes[r]
    BY <1>1 DEF With
  <2> QED BY <2>1 DEF Built, RoutesBuilt
<1>3. ListsBuilt(e)
  BY <1>1 DEF Built, ListsBuilt, With
<1>4. CapsBuilt(e, file, all)
  BY <1>1 DEF Built, CapsBuilt
<1>5. BindingsBuilt(e, file, all)
  <2> HIDE DEF b
  <2>0. x \in all /\ done \subseteq all /\ b = StepBinding(file, x) /\ b.priority = Priority(x.index)
        /\ Priority(x.index) \in Int
    BY DEF b, StepBinding, Priority, ImportSteps
  <2> HIDE DEF all
  <2>1. /\ \A i \in DOMAIN d.bindings : \E y \in done : d.bindings[i] = StepBinding(file, y)
        /\ \A y \in done : \E i \in DOMAIN d.bindings :
             /\ Identity(d.bindings[i]) = Identity(StepBinding(file, y))
             /\ d.bindings[i].priority >= Priority(y.index)
    BY DEF Built, BindingsBuilt
  <2>2. \A i \in DOMAIN d.bindings : d.bindings[i].priority \in Int
    BY DEF TablesInv, BindingRows
  <2>3. CASE /\ \A i \in DOMAIN d.bindings : Identity(d.bindings[i]) # Identity(b)
             /\ DOMAIN e.bindings = DOMAIN d.bindings \cup {d.nextId}
             /\ e.bindings[d.nextId] = b
             /\ \A i \in DOMAIN d.bindings : e.bindings[i] = d.bindings[i]
    <3>1. \A i \in DOMAIN e.bindings : \E y \in all : e.bindings[i] = StepBinding(file, y)
      BY <2>0, <2>1, <2>3
    <3>2. \A y \in done : \E i \in DOMAIN e.bindings :
             /\ Identity(e.bindings[i]) = Identity(StepBinding(file, y))
             /\ e.bindings[i].priority >= Priority(y.index)
      BY <2>1, <2>3
    <3>3. \E i \in DOMAIN e.bindings :
             /\ Identity(e.bindings[i]) = Identity(StepBinding(file, x))
             /\ e.bindings[i].priority >= Priority(x.index)
      BY <2>0, <2>3
    <3> QED BY <3>1, <3>2, <3>3 DEF BindingsBuilt, all
  <2>4. CASE /\ \E i \in DOMAIN d.bindings : Identity(d.bindings[i]) = Identity(b)
             /\ DOMAIN e.bindings = DOMAIN d.bindings
             /\ \A i \in DOMAIN d.bindings :
                  e.bindings[i] = IF Identity(d.bindings[i]) = Identity(b)
                                  THEN Merged(d.bindings[i], b) ELSE d.bindings[i]
    <3>1. \A i \in DOMAIN d.bindings : Identity(d.bindings[i]) = Identity(b) =>
             Merged(d.bindings[i], b) = IF d.bindings[i].priority > b.priority THEN d.bindings[i] ELSE b
      BY <2>0, <2>1, MergedIs
    <3>2. \A i \in DOMAIN d.bindings :
             e.bindings[i] = IF Identity(d.bindings[i]) = Identity(b) /\ ~(d.bindings[i].priority > b.priority)
                             THEN b ELSE d.bindings[i]
      BY <2>4, <3>1
    <3>3. \A i \in DOMAIN e.bindings : \E y \in all : e.bindings[i] = StepBinding(file, y)
      BY <2>0, <2>1, <2>4, <3>2
    <3>4. \A i \in DOMAIN d.bindings : /\ Identity(e.bindings[i]) = Identity(d.bindings[i])
                                       /\ e.bindings[i].priority >= d.bindings[i].priority
      BY <2>0, <2>2, <3>2
    <3>5. ASSUME NEW y \in done
          PROVE  \E i \in DOMAIN e.bindings :
                   /\ Identity(e.bindings[i]) = Identity(StepBinding(file, y))
                   /\ e.bindings[i].priority >= Priority(y.index)
      <4>1. PICK i \in DOMAIN d.bindings : /\ Identity(d.bindings[i]) = Identity(StepBinding(file, y))
                                           /\ d.bindings[i].priority >= Priority(y.index)
        BY <2>1
      <4>2. Priority(y.index) \in Int /\ e.bindings[i].priority \in Int
        BY <2>0, <2>2, <3>2 DEF Priority, ImportSteps
      <4>3. e.bindings[i].priority >= Priority(y.index)
        BY <2>2, <3>4, <4>1, <4>2
      <4> QED BY <2>4, <3>4, <4>1, <4>3
    <3>6. \E i \in DOMAIN e.bindings :
             /\ Identity(e.bindings[i]) = Identity(StepBinding(file, x))
             /\ e.bindings[i].priority >= Priority(x.index)
      <4>1. PICK i \in DOMAIN d.bindings : Identity(d.bindings[i]) = Identity(b)
        BY <2>4
      <4>2. e.bindings[i].priority >= b.priority
        BY <2>0, <2>2, <3>2, <4>1
      <4> QED BY <2>0, <2>4, <3>4, <4>1, <4>2
    <3> QED BY <3>3, <3>5, <3>6 DEF BindingsBuilt, all
  <2> QED BY <1>1, <2>3, <2>4 DEF BindingsAfter
<1> QED
  BY <1>2, <1>3, <1>4, <1>5 DEF Built

\* The tables of a file, step by step.
LEMMA FileTablesAre ==
    ASSUME NEW file \in Files, FileValid(file), FileRefers(file), TablesInv(db)
    PROVE  TablesInv(FileTables(file)) /\ Built(FileTables(file), file, Range(Steps(file)))
<1> DEFINE base == [EmptyTables EXCEPT
             !.sources = [s \in DOMAIN file.providers |->
                            [enabled |-> TRUE, endpoints |-> file.providers[s].endpoints]],
             !.accounts = [a \in DOMAIN file.accounts |->
                             [source |-> file.accounts[a].provider,
                              enabled |-> file.accounts[a].enabled,
                              weight |-> file.accounts[a].weight]],
             !.nextId = db.nextId]
           steps == Steps(file)
           N == Len(steps)
           Is(t, k) == t = [n \in 0..k |-> IF n = 0 THEN base ELSE ImportStep(t[n - 1], file, steps[n])]
           tables == CHOOSE t : Is(t, N)
<1>1. FileTables(file) = tables[N]
  BY Zenon DEF FileTables
<1>2. steps \in Seq(ImportSteps(file)) /\ N \in Nat
  BY StepsAre
<1>3. TablesInv(base) /\ FileAccounts(file, base) /\ Built(base, file, {})
  <2>1. /\ DOMAIN base = TableFields
        /\ base.sources = [s \in DOMAIN file.providers |->
                             [enabled |-> TRUE, endpoints |-> file.providers[s].endpoints]]
        /\ base.accounts = [a \in DOMAIN file.accounts |->
                              [source |-> file.accounts[a].provider,
                               enabled |-> file.accounts[a].enabled,
                               weight |-> file.accounts[a].weight]]
        /\ base.nextId = db.nextId /\ base.bindings = <<>> /\ base.routes = <<>>
        /\ base.models = <<>> /\ base.listed = <<>> /\ base.caps = <<>>
    BY DEF EmptyTables, TableFields
  <2> HIDE DEF base
  <2>2. /\ DOMAIN base.bindings = {} /\ DOMAIN base.routes = {}
        /\ DOMAIN base.models = {} /\ DOMAIN base.listed = {} /\ DOMAIN base.caps = {}
    BY <2>1
  <2>3. AccountRows(base) /\ FileAccounts(file, base)
    BY <2>1 DEF AccountRows, AccountFields, FileAccounts, FileRefers
  <2>4. RouteRows(base) /\ BindingRows(base) /\ BindingIds(base) /\ UniqueRows(base)
    BY <2>1, <2>2, FS_EmptySet DEF TablesInv, RouteRows, BindingRows, BindingIds, UniqueRows
  <2>5. Built(base, file, {})
    BY <2>2 DEF Built, RoutesBuilt, ListsBuilt, CapsBuilt, BindingsBuilt
  <2> QED BY <2>1, <2>3, <2>4, <2>5 DEF TablesInv
<1> HIDE DEF base, steps
<1>4. Is(tables, N)
  <2> DEFINE G == {k \in Nat : \E t : Is(t, k)}
  <2>1. 0 \in G
    <3> DEFINE t0 == [n \in 0..0 |-> base]
    <3>1. Is(t0, 0)
      OBVIOUS
    <3> QED BY <3>1
  <2>2. ASSUME NEW k \in Nat, k \in G PROVE k + 1 \in G
    <3>0. PICK t : Is(t, k)
      BY <2>2
    <3> DEFINE h == [n \in 0..(k + 1) |-> IF n = k + 1 THEN ImportStep(t[k], file, steps[n]) ELSE t[n]]
    <3>1. \A n \in 0..k : t[n] = IF n = 0 THEN base ELSE ImportStep(t[n - 1], file, steps[n])
      BY <3>0
    <3>2. \A n \in 0..(k + 1) : h[n] = IF n = 0 THEN base ELSE ImportStep(h[n - 1], file, steps[n])
      <4> SUFFICES ASSUME NEW n \in 0..(k + 1)
                   PROVE  h[n] = IF n = 0 THEN base ELSE ImportStep(h[n - 1], file, steps[n])
        OBVIOUS
      <4>1. CASE n = k + 1
        <5>1. h[n] = ImportStep(t[k], file, steps[n]) /\ n # 0 /\ n - 1 = k
          BY <4>1
        <5>2. h[k] = t[k]
          OBVIOUS
        <5> QED BY <5>1, <5>2
      <4>2. CASE n # k + 1
        <5>1. n \in 0..k /\ h[n] = t[n]
          BY <4>2
        <5>2. n # 0 => h[n - 1] = t[n - 1]
          BY <5>1
        <5> QED BY <3>1, <5>1, <5>2
      <4> QED BY <4>1, <4>2
    <3>3. h = [n \in 0..(k + 1) |-> h[n]]
      OBVIOUS
    <3> HIDE DEF h
    <3>4. Is(h, k + 1)
      BY <3>2, <3>3
    <3> HIDE DEF Is
    <3> QED BY <3>4
  <2>3. \E t : Is(t, N)
    <3>1. N \in G
      <4> HIDE DEF G, N
      <4> QED BY <1>2, <2>1, <2>2, CountingUp
    <3> QED BY <3>1
  <2> HIDE DEF Is
  <2> QED BY <2>3
<1> HIDE DEF tables
<1>5. \A n \in 0..N : tables[n] = IF n = 0 THEN base ELSE ImportStep(tables[n - 1], file, steps[n])
  BY <1>4
<1> HIDE DEF Is
<1> DEFINE done(k) == {steps[n] : n \in 1..k}
           Right(k) == /\ TablesInv(tables[k]) /\ FileAccounts(file, tables[k])
                       /\ Built(tables[k], file, done(k))
           T == {k \in Nat : k <= N => Right(k)}
<1>6. 0 \in T
  <2>1. done(0) = {}
    OBVIOUS
  <2> HIDE DEF done
  <2>2. tables[0] = base
    BY <1>2, <1>5
  <2>3. Right(0)
    BY <1>3, <2>1, <2>2
  <2> QED BY <2>3
<1>7. ASSUME NEW k \in Nat, k \in T PROVE k + 1 \in T
  <2> SUFFICES ASSUME k + 1 <= N PROVE Right(k + 1)
    OBVIOUS
  <2>1. Right(k)
    BY <1>2, <1>7
  <2>2. tables[k + 1] = ImportStep(tables[k], file, steps[k + 1])
    <3>1. k + 1 \in 0..N /\ k + 1 # 0 /\ (k + 1) - 1 = k
      BY <1>2
    <3> QED BY <1>5, <3>1
  <2>3. steps[k + 1] \in ImportSteps(file)
    BY <1>2
  <2>4. done(k) \in SUBSET ImportSteps(file) /\ done(k + 1) = done(k) \cup {steps[k + 1]}
    <3>1. \A n \in 1..k : steps[n] \in ImportSteps(file)
      BY <1>2
    <3>2. \A n : n \in 1..(k + 1) <=> n \in 1..k \/ n = k + 1
      OBVIOUS
    <3> QED BY <3>1, <3>2
  <2> HIDE DEF done
  <2>5. TablesInv(tables[k + 1]) /\ FileAccounts(file, tables[k + 1])
    BY <2>1, <2>2, <2>3, ImportStepKeeps
  <2>6. Built(tables[k + 1], file, done(k + 1))
    BY <2>1, <2>2, <2>3, <2>4, ImportStepBuilds
  <2> QED BY <2>5, <2>6
<1>8. N \in T
  <2> HIDE DEF T, N
  <2> QED BY <1>2, <1>6, <1>7, CountingUp
<1>9. Range(steps) = done(N)
  BY <1>2 DEF Range
<1> HIDE DEF done
<1>10. Right(N)
  BY <1>2, <1>8
<1> QED
  BY <1>1, <1>9, <1>10 DEF steps

-----------------------------------------------------------------------------
(* The compiler on tables whose chains are valid. *)

LEMMA RowsAre ==
    ASSUME NEW d, TablesInv(d)
    PROVE  /\ IsFiniteSet(Rows(d))
           /\ \A x \in Rows(d) : /\ x = <<x[1], x[2]>>
                                 /\ x[1] \in DOMAIN d.routes /\ x[2] \in DOMAIN d.bindings
                                 /\ InSnapshot(d, x[1], x[2])
<1>1. IsFiniteSet((DOMAIN d.routes) \X (DOMAIN d.bindings))
  BY FS_Product DEF TablesInv, RouteRows, BindingIds
<1>2. Rows(d) \subseteq (DOMAIN d.routes) \X (DOMAIN d.bindings)
  BY DEF Rows
<1>3. IsFiniteSet(Rows(d))
  BY <1>1, <1>2, FS_Subset
<1> QED
  BY <1>3 DEF Rows

\* The order of the compiler's rows: six numbers that name the row.
LEMMA RowsKeyed ==
    ASSUME NEW d, TablesInv(d), NEW its, its \subseteq Rows(d)
    PROVE  Keyed([x \in its |-> Key(d, x)], 6)
<1> DEFINE K == [x \in its |-> Key(d, x)]
<1>1. IsFiniteSet(its)
  BY RowsAre, FS_Subset
<1>2. \A x \in its : /\ Key(d, x) \in [1..6 -> Int]
                     /\ x = <<<<Key(d, x)[1], Key(d, x)[2]>>, Key(d, x)[6]>>
  <2> SUFFICES ASSUME NEW x \in its
               PROVE  /\ Key(d, x) \in [1..6 -> Int]
                      /\ x = <<<<Key(d, x)[1], Key(d, x)[2]>>, Key(d, x)[6]>>
    OBVIOUS
  <2>1. PICK r \in DOMAIN d.routes, b \in DOMAIN d.bindings : x = <<r, b>>
    BY RowsAre
  <2>2. r \in Int \X Int
    BY DEF TablesInv, RouteRows
  <2>3. /\ b \in Int /\ Rank[d.bindings[b].protocol] \in Int
        /\ -d.bindings[b].priority \in Int
    BY InputsAssumption DEF TablesInv, BindingRows, BindingIds
  <2>4. PICK k, p : k = <<Rank[d.bindings[b].protocol]>> /\ p = Place(d, b)
    OBVIOUS
  <2>5. r \in Seq(Int) /\ Len(r) = 2 /\ r = <<r[1], r[2]>>
    <3>1. PICK r1 \in Int, r2 \in Int : r = <<r1, r2>>
      BY <2>2
    <3> QED BY <3>1
  <2>6. k \in Seq(Int) /\ Len(k) = 1
    BY <2>3, <2>4
  <2>7. p \in Seq(Int) /\ Len(p) = 3 /\ p[3] = b
    BY <2>3, <2>4 DEF Place
  <2>8. PICK rk, key : rk = r \o k /\ key = rk \o p
    OBVIOUS
  <2>9. rk \in Seq(Int) /\ Len(rk) = 3 /\ rk[1] = r[1] /\ rk[2] = r[2]
    <3>0. /\ r \o k \in Seq(Int) /\ Len(r \o k) = Len(r) + Len(k)
          /\ \A i \in 1..(Len(r) + Len(k)) :
                (r \o k)[i] = IF i <= Len(r) THEN r[i] ELSE k[i - Len(r)]
      BY <2>5, <2>6, ConcatProperties, Zenon
    <3>1. /\ rk \in Seq(Int) /\ Len(rk) = Len(r) + Len(k)
          /\ \A i \in 1..(Len(r) + Len(k)) :
                rk[i] = IF i <= Len(r) THEN r[i] ELSE k[i - Len(r)]
      BY <2>8, <3>0, Zenon
    <3> QED BY <2>5, <2>6, <3>1
  <2>10. key \in Seq(Int) /\ Len(key) = 6 /\ key[1] = r[1] /\ key[2] = r[2] /\ key[6] = b
    <3>0. /\ rk \o p \in Seq(Int) /\ Len(rk \o p) = Len(rk) + Len(p)
          /\ \A i \in 1..(Len(rk) + Len(p)) :
                (rk \o p)[i] = IF i <= Len(rk) THEN rk[i] ELSE p[i - Len(rk)]
      BY <2>7, <2>9, ConcatProperties, Zenon
    <3>1. /\ key \in Seq(Int) /\ Len(key) = Len(rk) + Len(p)
          /\ \A i \in 1..(Len(rk) + Len(p)) :
                key[i] = IF i <= Len(rk) THEN rk[i] ELSE p[i - Len(rk)]
      BY <2>8, <3>0, Zenon
    <3> QED BY <2>7, <2>9, <3>1
  <2>11. key \in [1..6 -> Int]
    BY <2>10, LenProperties
  <2>12. Key(d, x) = key
    BY <2>1, <2>4, <2>8 DEF Key
  <2> QED BY <2>1, <2>5, <2>10, <2>11, <2>12
<1>3. \A x \in its : Key(d, x) \in [1..6 -> Int]
  BY <1>2
<1>4. \A x, y \in its : Key(d, x) = Key(d, y) => x = y
  BY <1>2
<1>5. DOMAIN K = its /\ K \in [its -> [1..6 -> Int]] /\ \A x \in its : K[x] = Key(d, x)
  BY <1>3
<1> HIDE DEF K
<1>6. Keyed(K, 6)
  BY <1>1, <1>4, <1>5 DEF Keyed
<1> QED
  BY <1>6 DEF K

LEMMA CompilesUnless ==
    ASSUME NEW d, TablesInv(d), ChainsValid(d)
    PROVE  Compiles(d) \/ DoublyBound(d) \/ LosesFeature(d) \/ Weightless(d)
<1> SUFFICES ASSUME ~DoublyBound(d), ~LosesFeature(d), ~Weightless(d) PROVE Compiles(d)
  OBVIOUS
<1>1. \A x \in Rows(d) : RowAccepted(d, x[1], x[2])
  <2> SUFFICES ASSUME NEW x \in Rows(d) PROVE RowAccepted(d, x[1], x[2])
    OBVIOUS
  <2>1. PICK b : b = d.bindings[x[2]]
    OBVIOUS
  <2>2. /\ x[2] \in DOMAIN d.bindings /\ InSnapshot(d, x[1], x[2])
    BY RowsAre
  <2>3. Routable(d.caps[CapKey(b)]) /\ CapKey(b) \in DOMAIN d.caps
    BY <2>1, <2>2 DEF InSnapshot, Backed, TablesInv, BindingRows, Refers
  <2>4. PICK k : k = CapKey(b)
    OBVIOUS
  <2>5. k[1] = b.source /\ k[3] = b.protocol
    BY <2>4 DEF CapKey
  <2>6. /\ d.caps[k].cap.mode = "adapter" => Implements(d.caps[k].cap, b.protocol)
        /\ UpstreamProtocol(d.caps[k], b.protocol) \in d.sources[b.source].endpoints
    BY <2>3, <2>4, <2>5 DEF ChainsValid
  <2>7. /\ Carries(d.caps[k].features, AdapterFeatures(d.caps[k].cap), d.routes[x[1]].lossy)
        /\ d.accounts[b.account].weight > 0
    BY <2>1, <2>4 DEF LosesFeature, Weightless
  <2> QED BY <2>1, <2>4, <2>6, <2>7 DEF RowAccepted
<1>2. OneUpstreamPerAccount(d)
  <2> SUFFICES ASSUME NEW x \in Rows(d), d.routes[x[1]].strategy # "ordered_fallback"
               PROVE  d.bindings[x[2]].upstream
                        = ModelMap(d, d.bindings[x[2]].account, d.bindings[x[2]].model)
    BY DEF OneUpstreamPerAccount
  <2> DEFINE account == d.bindings[x[2]].account
             model == d.bindings[x[2]].model
             its == {y \in Rows(d) : d.bindings[y[2]].account = account /\ d.bindings[y[2]].model = model}
             K == [y \in its |-> Key(d, y)]
  <2>1. x \in its /\ its \subseteq Rows(d) /\ DOMAIN K = its
    OBVIOUS
  <2>2. ModelMap(d, account, model) = d.bindings[FirstOf(K)[2]].upstream
    BY DEF ModelMap
  <2>3. FirstOf(K) \in its
    <3> HIDE DEF its
    <3>1. Keyed(K, 6)
      BY <2>1, RowsKeyed
    <3> HIDE DEF K
    <3> QED BY <2>1, <3>1, FirstOfIs
  <2>4. PICK y \in its : y = FirstOf(K)
    BY <2>3
  <2>5. /\ x[2] \in DOMAIN d.bindings /\ y[2] \in DOMAIN d.bindings /\ x[1] \in DOMAIN d.routes
        /\ InSnapshot(d, x[1], x[2]) /\ InSnapshot(d, y[1], y[2])
    BY RowsAre
  <2>6. /\ d.bindings[y[2]].account = account /\ d.bindings[y[2]].model = model
    OBVIOUS
  <2>7. d.bindings[y[2]].upstream = d.bindings[x[2]].upstream
    BY <2>5, <2>6 DEF DoublyBound, InSnapshot
  <2> QED BY <2>2, <2>4, <2>7
<1> QED
  BY <1>1, <1>2 DEF Compiles

-----------------------------------------------------------------------------
(* The steps. *)

\* No model is spread over a family it did not have.
NotSpread(d, e) ==
    \A m \in DOMAIN e.models : \/ Cardinality(Families(e, m)) <= 1
                               \/ Families(e, m) \subseteq Families(d, m)

Kept == /\ TablesInv(db') /\ ChainsValid(db')
        /\ imported' = None => NotSpread(db, db')

LEMMA ThinStep ==
    ASSUME TablesInv(db), Thins(db, db'), ChainsValid(db')
    PROVE  Kept
<1>1. \A m : Families(db', m) \subseteq Families(db, m)
  BY DEF Families, BindingsWhere, Thins
<1> QED
  BY <1>1, ThinTables DEF Kept, NotSpread

\* At most one family.
LEMMA OneFamily ==
    ASSUME NEW e, NEW m, NEW f,
           \A i \in DOMAIN e.bindings : e.bindings[i].model = m /\ Active(e.bindings[i]) =>
              Family[e.bindings[i].source] = f
    PROVE  Cardinality(Families(e, m)) <= 1
<1>1. Families(e, m) \subseteq {f}
  BY DEF Families, BindingsWhere
<1>2. IsFiniteSet({f}) /\ Cardinality({f}) = 1
  BY FS_Singleton
<1> QED
  BY <1>1, <1>2, FS_Subset

\* One row written: its family was allowed, or it is not active.
LEMMA RowStep ==
    ASSUME NEW d, NEW e, NEW id, id \in DOMAIN e.bindings, NEW b, e.bindings[id] = b,
           \A i \in DOMAIN e.bindings \ {id} : i \in DOMAIN d.bindings /\ e.bindings[i] = d.bindings[i],
           Active(b) => FamilyAllowed(d, b)
    PROVE  NotSpread(d, e)
<1> SUFFICES ASSUME NEW m PROVE Cardinality(Families(e, m)) <= 1 \/ Families(e, m) \subseteq Families(d, m)
  BY DEF NotSpread
<1>1. CASE ~Active(b) \/ b.model # m
  BY <1>1 DEF Families, BindingsWhere
<1>2. CASE Active(b) /\ b.model = m /\ OtherFamilies(d, b) = {}
  <2>1. \A i \in DOMAIN e.bindings : e.bindings[i].model = m /\ Active(e.bindings[i]) =>
           Family[e.bindings[i].source] = Family[b.source]
    BY <1>2 DEF OtherFamilies, BindingsWhere
  <2> QED BY <2>1, OneFamily
<1>3. CASE Active(b) /\ b.model = m /\ Family[b.source] \in OtherFamilies(d, b)
  <2>1. Family[b.source] \in Families(d, m)
    BY <1>3 DEF OtherFamilies, Families, BindingsWhere
  <2>2. ASSUME NEW f \in Families(e, m) PROVE f \in Families(d, m)
    <3>1. PICK i \in DOMAIN e.bindings :
             e.bindings[i].model = m /\ Active(e.bindings[i]) /\ f = Family[e.bindings[i].source]
      BY DEF Families, BindingsWhere
    <3>2. CASE i = id
      BY <2>1, <3>1, <3>2
    <3>3. CASE i # id
      BY <3>1, <3>3 DEF Families, BindingsWhere
    <3> QED BY <3>2, <3>3
  <2> QED BY <2>2
<1> QED
  BY <1>1, <1>2, <1>3 DEF FamilyAllowed

LEMMA RoutingStep ==
    ASSUME TablesInv(db), ChainsValid(db), RoutingNext
    PROVE  Kept
<1> USE DEF Commit
<1>1. ASSUME NEW s \in Sources, NEW x, NEW e \in BOOLEAN,
             SetSourceEnabled(s, e) \/ CreateSource(s, x, e) \/ UpdateSource(s, x, e)
      PROVE  Kept
  <2>1. ChainsValid(db')
    BY <1>1, Zenon DEF SetSourceEnabled, CreateSource, UpdateSource
  <2> QED BY <1>1, <2>1, SourceWrites, ThinStep
<1>2. ASSUME NEW s \in Sources, NEW x \in SourceRequests, NEW e \in BOOLEAN,
             CreateSourceFromRequest(s, x, e)
      PROVE  Kept
  <2>1. PICK y : CreateSource(s, y, e)
    BY <1>2, Zenon DEF CreateSourceFromRequest
  <2> QED BY <1>1, <2>1
<1>3. ASSUME NEW s \in Sources, DeleteSource(s)
      PROVE  Kept
  <2>1. ChainsValid(db')
    BY <1>3, Zenon DEF DeleteSource
  <2> QED BY <1>3, <2>1, SourceDeleted, ThinStep
<1>4. ASSUME NEW s, NEW ids, NEW k, ApplyDiscovery(s, ids) \/ ConfirmSourceModel(k)
      PROVE  Kept
  <2>1. Thins(db, db') /\ db' = [db EXCEPT !.listed = db'.listed]
    BY <1>4, CatalogueWrites
  <2>2. db'.caps = db.caps /\ db'.sources = db.sources
    BY <2>1 DEF TablesInv, TableFields
  <2>3. ChainsValid(db')
    BY <2>2 DEF ChainsValid
  <2> QED BY <2>1, <2>3, ThinStep
<1>5. ASSUME NEW s \in Sources, NEW u \in Upstreams, NEW p \in Protocols, NEW x \in CapInputs,
             UpsertCapability(s, u, p, x)
      PROVE  Kept
  <2>1. ChainsValid(db')
    BY <1>5, Zenon DEF UpsertCapability
  <2> QED BY <1>5, <2>1, CapabilityWrites, ThinStep
<1>6. ASSUME NEW a \in AccountIds, DeleteAccount(a)
      PROVE  Kept
  <2>1. ChainsValid(db')
    BY <1>6, Zenon DEF DeleteAccount
  <2> QED BY <1>6, <2>1, AccountDeleted, ThinStep
<1>7. ASSUME NEW a \in AccountIds, NEW x \in AccountInputs, CreateAccount(a, x) \/ UpdateAccount(a, x)
      PROVE  Kept
  <2>1. ChainsValid(db')
    BY <1>7, Zenon DEF CreateAccount, UpdateAccount
  <2> QED BY <1>7, <2>1, AccountWrites, ThinStep
<1>8. ASSUME NEW a \in AccountIds, NEW e \in BOOLEAN, SetAccountEnabled(a, e)
      PROVE  Kept
  <2>1. ChainsValid(db')
    BY <1>8, Zenon DEF SetAccountEnabled
  <2> QED BY <1>8, <2>1, AccountWrites, ThinStep
<1>9. ASSUME NEW m \in LogicalModels, DeleteLogicalModel(m)
      PROVE  Kept
  <2>1. ChainsValid(db')
    BY <1>9, Zenon DEF DeleteLogicalModel
  <2> QED BY <1>9, <2>1, ModelDeleted, ThinStep
<1>10. ASSUME NEW m, NEW x, NEW e,
              CreateLogicalModel(m, x) \/ UpdateLogicalModel(m, x) \/ SetLogicalModelEnabled(m, e)
      PROVE  Kept
  <2>1. ChainsValid(db')
    BY <1>10, Zenon DEF CreateLogicalModel, UpdateLogicalModel, SetLogicalModelEnabled
  <2> QED BY <1>10, <2>1, ModelWrites, ThinStep
<1>11. ASSUME NEW m \in LogicalModels, NEW e \in BOOLEAN, NEW lines \in LineLists,
              PutModelRouting(m, lines, e)
       PROVE  Kept
  <2>1. PICK r \in RouteIds \cup DOMAIN db.routes : WriteModelRouting(m, lines, e, r)
    BY <1>11, Zenon DEF PutModelRouting
  <2>2. r \in Int \X Int
    BY InputsAssumption DEF TablesInv, RouteRows
  <2>3. ChainsValid(db')
    BY <2>1, Zenon DEF WriteModelRouting
  <2>4. /\ TablesInv(db')
        /\ \A i \in DOMAIN db'.bindings : db'.bindings[i].model # m =>
              i \in DOMAIN db.bindings /\ db'.bindings[i] = db.bindings[i]
        /\ \A i, j \in DOMAIN db'.bindings :
              db'.bindings[i].model = m /\ db'.bindings[j].model = m =>
                Family[db'.bindings[i].source] = Family[db'.bindings[j].source]
    BY <2>1, <2>2, RoutingWritten
  <2>5. ASSUME NEW x \in DOMAIN db'.models
        PROVE  Cardinality(Families(db', x)) <= 1 \/ Families(db', x) \subseteq Families(db, x)
    <3>1. CASE x # m
      BY <2>4, <3>1 DEF Families, BindingsWhere
    <3>2. CASE x = m
      <4>1. PICK f : \A i \in DOMAIN db'.bindings : db'.bindings[i].model = m =>
                        Family[db'.bindings[i].source] = f
        BY <2>4
      <4>2. PICK d : d = db'
        OBVIOUS
      <4> QED BY <3>2, <4>1, <4>2, OneFamily
    <3> QED BY <3>1, <3>2
  <2> QED BY <2>3, <2>4, <2>5 DEF Kept, NotSpread
<1>12. ASSUME NEW b \in BindingInputs, CreateBinding(b)
       PROVE  Kept
  <2>1. ChainsValid(db') /\ BindingReference(db, b)
    BY <1>12, Zenon DEF CreateBinding
  <2>2. PICK e, id : e = db' /\ id = db.nextId
    OBVIOUS
  <2>3. /\ TablesInv(e) /\ DOMAIN e.bindings = DOMAIN db.bindings \cup {id}
        /\ \A i \in DOMAIN db.bindings : e.bindings[i] = db.bindings[i]
        /\ e.bindings[id] = b
    BY <1>12, <2>2, BindingCreated
  <2>4. Active(b) => FamilyAllowed(db, b)
    BY <2>1 DEF BindingReference
  <2>5. NotSpread(db, e)
    BY <2>3, <2>4, RowStep
  <2> QED BY <2>1, <2>2, <2>3, <2>5 DEF Kept
<1>13. ASSUME NEW b \in BindingInputs, NEW id, UpdateBinding(id, b)
       PROVE  Kept
  <2>1. ChainsValid(db') /\ BindingReference(db, b)
    BY <1>13, Zenon DEF UpdateBinding
  <2>2. PICK e : e = db'
    OBVIOUS
  <2>3. /\ TablesInv(e) /\ id \in DOMAIN db.bindings /\ DOMAIN e.bindings = DOMAIN db.bindings
        /\ \A i \in DOMAIN db.bindings \ {id} : e.bindings[i] = db.bindings[i]
        /\ e.bindings[id] = b
    BY <1>13, <2>2, BindingUpdated
  <2>4. Active(b) => FamilyAllowed(db, b)
    BY <2>1 DEF BindingReference
  <2>5. NotSpread(db, e)
    BY <2>3, <2>4, RowStep
  <2> QED BY <2>1, <2>2, <2>3, <2>5 DEF Kept
<1>14. ASSUME NEW id, DeleteBinding(id)
       PROVE  Kept
  <2>1. ChainsValid(db')
    BY <1>14, Zenon DEF DeleteBinding
  <2> QED BY <1>14, <2>1, BindingDeleted, ThinStep
<1>15. ASSUME NEW id, NEW on \in BOOLEAN, SetBindingEnabled(id, on)
       PROVE  Kept
  <2>1. ChainsValid(db') /\ (on => BindingReference(db, [db.bindings[id] EXCEPT !.enabled = TRUE]))
    BY <1>15, Zenon DEF SetBindingEnabled
  <2>2. PICK e, b : e = db' /\ b = [db.bindings[id] EXCEPT !.enabled = on]
    OBVIOUS
  <2>3. /\ TablesInv(e) /\ id \in DOMAIN db.bindings /\ DOMAIN e.bindings = DOMAIN db.bindings
        /\ \A i \in DOMAIN db.bindings \ {id} : e.bindings[i] = db.bindings[i]
        /\ e.bindings[id] = b
    BY <1>15, <2>2, BindingSwitched
  <2>4. b.enabled = on
    BY <2>2, <2>3 DEF TablesInv, BindingRows, BindingFields
  <2>5. Active(b) => FamilyAllowed(db, b)
    <3>1. CASE on = FALSE
      BY <2>4, <3>1 DEF Active
    <3>2. CASE on = TRUE
      BY <2>1, <2>2, <3>2 DEF BindingReference
    <3> QED BY <3>1, <3>2
  <2>6. NotSpread(db, e)
    BY <2>3, <2>5, RowStep
  <2> QED BY <2>1, <2>2, <2>3, <2>6 DEF Kept
<1>16. ASSUME NEW r, NEW x, NEW e,
              \/ r \in RouteIds /\ (CreateRoute(r, x) \/ UpdateRoute(r, x))
              \/ SetRouteEnabled(r, e) \/ DeleteRoute(r)
       PROVE  Kept
  <2>1. ChainsValid(db')
    BY <1>16, Zenon DEF CreateRoute, UpdateRoute, SetRouteEnabled, DeleteRoute
  <2> QED BY <1>16, <2>1, RouteWrites, ThinStep
<1>17. ASSUME NEW file \in Files, NEW force, Import(file, force)
       PROVE  Kept
  <2>1. /\ FileValid(file) /\ FileRefers(file) /\ db' = FileTables(file)
        /\ ChainsValid(db') /\ imported' = file
    BY <1>17, Zenon DEF Import
  <2>2. TablesInv(db')
    BY <2>1, FileTablesAre
  <2> QED BY <2>1, <2>2, FilesAssumption DEF Kept
<1> QED
  BY <1>1, <1>2, <1>3, <1>4, <1>5, <1>6, <1>7, <1>8, <1>9, <1>10, <1>11, <1>12, <1>13, <1>14,
     <1>15, <1>16, <1>17, Zenon DEF RoutingNext

-----------------------------------------------------------------------------
RoutingInv == TablesInv(db) /\ ChainsValid(db)

\* Every table row refers to rows that are there, binding ids come from the
\* sequence and no two bindings are the same, and every confirmed capability
\* has the chain it needs, whatever writes, discoveries and imports happened.
THEOREM RoutingTablesSound == RoutingSpec => []RoutingInv
<1>1. RoutingInit => RoutingInv
  <2> SUFFICES ASSUME RoutingInit PROVE RoutingInv
    OBVIOUS
  <2>1. /\ DOMAIN db = TableFields
        /\ db.accounts = <<>> /\ db.routes = <<>> /\ db.bindings = <<>> /\ db.caps = <<>>
        /\ db.nextId = 1
    BY DEF RoutingInit, EmptyTables, TableFields
  <2>2. DOMAIN db.accounts = {} /\ DOMAIN db.routes = {} /\ DOMAIN db.bindings = {} /\ DOMAIN db.caps = {}
    BY <2>1
  <2> QED BY <2>1, <2>2, FS_EmptySet
          DEF RoutingInv, TablesInv, AccountRows, RouteRows, BindingRows, BindingIds, UniqueRows, ChainsValid
<1>2. RoutingInv /\ [RoutingNext]_routingVars => RoutingInv'
  <2> SUFFICES ASSUME RoutingInv, [RoutingNext]_routingVars PROVE TablesInv(db') /\ ChainsValid(db')
    BY DEF RoutingInv
  <2>1. CASE RoutingNext
    BY <2>1, RoutingStep DEF RoutingInv, Kept
  <2>2. CASE UNCHANGED routingVars
    BY <2>2 DEF RoutingInv, routingVars
  <2> QED BY <2>1, <2>2
<1> QED
  BY <1>1, <1>2, PTL DEF RoutingSpec

\* What is stored can be loaded again (load_snapshot), but for the three cases
\* in which an upstream model comes back to a binding that no longer compiles.
THEOREM RoutingStoredConfigLoads == RoutingSpec => []StoredConfigLoads
<1>1. RoutingInv => StoredConfigLoads
  BY CompilesUnless DEF RoutingInv, StoredConfigLoads
<1> QED
  BY <1>1, RoutingTablesSound, PTL

\* No write but an import spreads a model over a second provider family.
THEOREM RoutingFamiliesNeverSpread == RoutingSpec => FamiliesNeverSpread
<1> DEFINE Step == imported' = None =>
                     \A m \in DOMAIN db'.models :
                       \/ Cardinality(Families(db', m)) <= 1
                       \/ Families(db', m) \subseteq Families(db, m)
<1>1. RoutingInv /\ [RoutingNext]_routingVars => [Step]_routingVars
  <2> SUFFICES ASSUME RoutingInv, RoutingNext PROVE Step
    OBVIOUS
  <2> QED BY RoutingStep DEF RoutingInv, Kept, NotSpread
<1> QED
  BY <1>1, RoutingTablesSound, PTL DEF RoutingSpec, FamiliesNeverSpread

-----------------------------------------------------------------------------
(* What the resolver answers. *)

\* The bindings of a route on a protocol: each of them once.
Its(d, r, p) == {b \in DOMAIN d.bindings : d.bindings[b].protocol = p /\ InSnapshot(d, r, b)}

LEMMA PlacesKeyed ==
    ASSUME NEW d, TablesInv(d), NEW its \in SUBSET DOMAIN d.bindings
    PROVE  Keyed([b \in its |-> Place(d, b)], 3)
<1> DEFINE K == [b \in its |-> Place(d, b)]
<1>1. IsFiniteSet(its)
  BY FS_Subset DEF TablesInv, BindingIds
<1>2. \A b \in its : Place(d, b) \in [1..3 -> Int] /\ Place(d, b)[3] = b
  <2> SUFFICES ASSUME NEW b \in its PROVE Place(d, b) \in [1..3 -> Int] /\ Place(d, b)[3] = b
    OBVIOUS
  <2>1. b \in Int /\ -d.bindings[b].priority \in Int
    BY DEF TablesInv, BindingRows, BindingIds
  <2> QED BY <2>1 DEF Place
<1>3. DOMAIN K = its /\ K \in [its -> [1..3 -> Int]]
  BY <1>2
<1>4. \A b, c \in its : K[b] = K[c] => b = c
  BY <1>2
<1> HIDE DEF K
<1>5. Keyed(K, 3)
  BY <1>1, <1>3, <1>4 DEF Keyed
<1> QED
  BY <1>5 DEF K

LEMMA BindingsAre ==
    ASSUME NEW d, TablesInv(d), NEW r, NEW p
    PROVE  /\ Its(d, r, p) = {} <=> Bindings(d, r, p) = <<>>
           /\ \A i \in DOMAIN Bindings(d, r, p) : Bindings(d, r, p)[i] \in Its(d, r, p)
           /\ \A i, j \in DOMAIN Bindings(d, r, p) : Bindings(d, r, p)[i] = Bindings(d, r, p)[j] => i = j
           /\ \A b \in Its(d, r, p) : \E i \in DOMAIN Bindings(d, r, p) : Bindings(d, r, p)[i] = b
<1> DEFINE K == [b \in Its(d, r, p) |-> Place(d, b)]
<1>1. Its(d, r, p) \subseteq DOMAIN d.bindings
  BY DEF Its
<1>4. DOMAIN K = Its(d, r, p)
  OBVIOUS
<1>6. Bindings(d, r, p) = Ordered(K)
  BY DEF Bindings, Its
<1>7. Keyed(K, 3)
  BY <1>1, PlacesKeyed
<1> HIDE DEF K
<1>8. PICK o : o = Ordered(K)
  OBVIOUS
<1>9. /\ DOMAIN o = 1..Cardinality(Its(d, r, p))
      /\ \A i \in DOMAIN o : o[i] \in Its(d, r, p)
      /\ \A i, j \in DOMAIN o : o[i] = o[j] => i = j
      /\ \A b \in Its(d, r, p) : \E i \in DOMAIN o : o[i] = b
  BY <1>4, <1>7, <1>8, OrderedIs
<1>10. ASSUME Its(d, r, p) = {} PROVE o = <<>>
  <2> DEFINE C(i) == CHOOSE b \in DOMAIN K :
                       Cardinality({c \in DOMAIN K : LexLess(K[c], K[b])}) = i - 1
  <2>1. o = [i \in 1..Cardinality(DOMAIN K) |-> C(i)]
    BY <1>8, Zenon DEF Ordered
  <2>2. Cardinality(DOMAIN K) = 0
    BY <1>4, <1>10, FS_EmptySet
  <2> HIDE DEF C
  <2>3. o \in Seq(Int) /\ Len(o) = 0
    BY <2>1, <2>2
  <2> QED BY <2>3, EmptySeq
<1>11. ASSUME o = <<>> PROVE Its(d, r, p) = {}
  BY <1>9, <1>11
<1> QED
  BY <1>6, <1>8, <1>9, <1>10, <1>11

\* The resolution of a model that has a compiled route is one of those.
LEMMA ResolveFirst ==
    ASSUME NEW d, TablesInv(d), NEW m, NEW p, Candidates(d, m, p) # {}
    PROVE  \E s \in Candidates(d, m, p) : Resolve(d, m, p) = [route |-> s, line |-> Bindings(d, s, p)]
<1> DEFINE rs == Candidates(d, m, p)
           K == [r \in rs |-> r]
<1>1. rs \subseteq DOMAIN d.routes
  BY DEF Candidates
<1>2. Resolve(d, m, p) = [route |-> FirstOf(K), line |-> Bindings(d, FirstOf(K), p)]
  BY Zenon DEF Resolve
<1> HIDE DEF rs
<1>3. IsFiniteSet(rs)
  BY <1>1, FS_Subset DEF TablesInv, RouteRows
<1>4. DOMAIN K = rs /\ \A r \in rs : K[r] = r
  OBVIOUS
<1>5. \A r \in rs : r \in [1..2 -> Int]
  <2> SUFFICES ASSUME NEW r \in rs PROVE r \in [1..2 -> Int]
    OBVIOUS
  <2>1. PICK r1 \in Int, r2 \in Int : r = <<r1, r2>>
    BY <1>1 DEF TablesInv, RouteRows
  <2> QED BY <2>1
<1>6. Keyed(K, 2)
  BY <1>3, <1>5 DEF Keyed
<1> HIDE DEF K
<1>7. FirstOf(K) \in rs
  <2>1. rs # {}
    BY DEF rs
  <2> QED BY <1>4, <1>6, <2>1, FirstOfIs
<1> QED
  BY <1>2, <1>7 DEF rs

\* A resolution lists, each once, the bindings of the model on the protocol
\* that any of its enabled routes for the protocol would list.
LEMMA ResolveIs ==
    ASSUME NEW d, TablesInv(d), NEW m, NEW p, NEW x, x = Resolve(d, m, p)
    PROVE  /\ \A i \in DOMAIN x.line : /\ x.line[i] \in Its(d, x.route, p)
                                       /\ x.route \in DOMAIN d.routes
                                       /\ d.routes[x.route].model = m
           /\ \A i, j \in DOMAIN x.line : x.line[i] = x.line[j] => i = j
           /\ \A r \in DOMAIN d.routes : d.routes[r].model = m =>
                 \A b \in Its(d, r, p) : \E i \in DOMAIN x.line : x.line[i] = b
<1> DEFINE rs == Candidates(d, m, p)
<1>1. \A r : r \in rs <=> r \in DOMAIN d.routes /\ d.routes[r].model = m /\ Its(d, r, p) # {}
  <2> SUFFICES ASSUME NEW r
               PROVE  r \in rs <=> r \in DOMAIN d.routes /\ d.routes[r].model = m /\ Its(d, r, p) # {}
    OBVIOUS
  <2>1. Its(d, r, p) = {} <=> Bindings(d, r, p) = <<>>
    BY BindingsAre
  <2> QED BY <2>1 DEF Candidates
<1>2. CASE rs = {}
  <2>1. x.line = <<>>
    BY <1>2 DEF Resolve, NotFound
  <2>2. DOMAIN x.line = {}
    BY <2>1
  <2> QED BY <1>1, <1>2, <2>2
<1>3. CASE rs # {}
  <2>1. PICK s \in rs : x = [route |-> s, line |-> Bindings(d, s, p)]
    BY <1>3, ResolveFirst
  <2> HIDE DEF rs
  <2>8. x.route = s /\ x.line = Bindings(d, s, p)
    BY <2>1
  <2>9. s \in DOMAIN d.routes /\ d.routes[s].model = m /\ Its(d, s, p) # {}
    BY <1>1
  <2>10. ASSUME NEW r \in DOMAIN d.routes, d.routes[r].model = m, NEW b \in Its(d, r, p)
         PROVE  b \in Its(d, s, p)
    <3>1. PICK c : c \in Its(d, s, p)
      BY <2>9
    <3>2. d.routes[s].enabled /\ p \in d.routes[s].protocols
      BY <3>1 DEF Its, InSnapshot
    <3> QED BY <2>9, <2>10, <3>2 DEF Its, InSnapshot
  <2>11. PICK line : line = Bindings(d, s, p)
    OBVIOUS
  <2>12. /\ \A i \in DOMAIN line : line[i] \in Its(d, s, p)
         /\ \A i, j \in DOMAIN line : line[i] = line[j] => i = j
         /\ \A b \in Its(d, s, p) : \E i \in DOMAIN line : line[i] = b
    BY <2>11, BindingsAre
  <2>13. x.line = line /\ x.route = s
    BY <2>8, <2>11
  <2> QED BY <2>9, <2>10, <2>12, <2>13
<1> QED
  BY <1>2, <1>3

\* Two bindings of one resolution differ in their cell.
LEMMA MatrixAlwaysBuilds ==
    ASSUME NEW d, TablesInv(d)
    PROVE  MatrixBuilds(d)
<1> SUFFICES ASSUME NEW m \in Published(d), NEW p \in Protocols, NEW x, x = Resolve(d, m, p),
                    NEW i \in DOMAIN x.line, NEW j \in DOMAIN x.line,
                    MatrixKey(d, x.route, x.line[i]) = MatrixKey(d, x.route, x.line[j])
             PROVE  i = j
  BY DEF MatrixBuilds
<1>1. /\ x.line[i] \in Its(d, x.route, p) /\ x.line[j] \in Its(d, x.route, p)
      /\ x.line[i] = x.line[j] => i = j
  BY ResolveIs
<1>2. PICK b \in DOMAIN d.bindings, c \in DOMAIN d.bindings :
         b = x.line[i] /\ c = x.line[j] /\ d.bindings[b].protocol = p /\ d.bindings[c].protocol = p
  BY <1>1 DEF Its
<1>3. Identity(d.bindings[b]) = Identity(d.bindings[c])
  BY <1>2 DEF MatrixKey, Identity, CapKey
<1>4. b = c
  BY <1>3 DEF TablesInv, UniqueRows
<1> QED
  BY <1>1, <1>2, <1>4

\* A cell is routable when the resolution has its binding.
LEMMA CellIs ==
    ASSUME NEW d, NEW key, NEW p, NEW x, x = Resolve(d, key[1], p)
    PROVE  Cell(d, key, p).status = "routable"
             <=> \E i \in DOMAIN x.line : MatrixKey(d, x.route, x.line[i]) = key
<1> DEFINE at == {i \in DOMAIN x.line : MatrixKey(d, x.route, x.line[i]) = key}
<1>1. CASE at # {}
  <2>1. Cell(d, key, p).status = "routable"
    BY <1>1 DEF Cell
  <2> QED BY <1>1, <2>1
<1>2. CASE at = {}
  <2>1. Cell(d, key, p).status = "unroutable"
    BY <1>2 DEF Cell
  <2> QED BY <1>2, <2>1
<1> QED BY <1>1, <1>2

LEMMA ViewIsMatrix ==
    ASSUME NEW d, TablesInv(d), NEW m, d.models[m] = [status |-> "confirmed", enabled |-> TRUE]
    PROVE  ViewRoutable(d, m) = MatrixRoutable(d, m)
<1>1. ASSUME NEW v \in ViewRoutable(d, m) PROVE v \in MatrixRoutable(d, m)
  <2>1. PICK b \in DOMAIN d.bindings :
           /\ v = <<CapKey(d.bindings[b]), d.bindings[b].account>>
           /\ d.bindings[b].model = m /\ Active(d.bindings[b])
           /\ AccountEnabled(d, d.bindings[b].account) /\ Backed(d, d.bindings[b])
           /\ \E r \in DOMAIN d.routes : /\ d.routes[r].model = m /\ d.routes[r].enabled
                                         /\ d.bindings[b].protocol \in d.routes[r].protocols
    BY <1>1 DEF ViewRoutable
  <2>2. PICK p \in Protocols : p = d.bindings[b].protocol
    BY DEF TablesInv, BindingRows
  <2>3. PICK r \in DOMAIN d.routes : /\ d.routes[r].model = m /\ d.routes[r].enabled
                                     /\ p \in d.routes[r].protocols
    BY <2>1, <2>2
  <2>4. InSnapshot(d, r, b)
    BY <2>1, <2>2, <2>3 DEF InSnapshot
  <2>5. m \in Published(d)
    <3>1. PICK y : y = <<r, b>>
      OBVIOUS
    <3>2. y \in Rows(d) /\ d.routes[y[1]].model = m
      BY <2>3, <2>4, <3>1 DEF Rows
    <3> QED BY <3>2 DEF Published
  <2>6. PICK x : x = Resolve(d, m, p)
    OBVIOUS
  <2>7. b \in Its(d, r, p)
    BY <2>2, <2>4 DEF Its
  <2>8. PICK i \in DOMAIN x.line : x.line[i] = b
    BY <2>3, <2>6, <2>7, ResolveIs
  <2>9. PICK key : key = MatrixKey(d, x.route, b)
    OBVIOUS
  <2>10. key \in MatrixKeys(d)
    <3>1. key \in ResolvedKeys(d, m, p)
      BY <2>6, <2>8, <2>9 DEF ResolvedKeys
    <3>2. PICK y : y = <<m, p>>
      OBVIOUS
    <3>3. y \in Published(d) \X Protocols /\ key \in ResolvedKeys(d, y[1], y[2])
      BY <2>5, <3>1, <3>2
    <3> QED BY <3>3 DEF MatrixKeys
  <2>11. /\ key[1] = m /\ key[3] = d.bindings[b].source /\ key[4] = d.bindings[b].account
         /\ key[5] = d.bindings[b].upstream
    BY <2>1, <2>9 DEF MatrixKey
  <2>12. Cell(d, key, p).status = "routable"
    BY <2>6, <2>8, <2>9, <2>11, CellIs
  <2>13. v = <<<<key[3], key[5], p>>, key[4]>>
    BY <2>1, <2>2, <2>11 DEF CapKey
  <2>14. PICK y : y = <<key, p>>
    OBVIOUS
  <2>15. /\ y \in MatrixKeys(d) \X Protocols /\ y[1][1] = m /\ AccountEnabled(d, y[1][4])
         /\ Cell(d, y[1], y[2]).status = "routable"
         /\ v = <<<<y[1][3], y[1][5], y[2]>>, y[1][4]>>
    BY <2>1, <2>10, <2>11, <2>12, <2>13, <2>14
  <2> QED BY <2>15 DEF MatrixRoutable
<1>2. ASSUME NEW v \in MatrixRoutable(d, m) PROVE v \in ViewRoutable(d, m)
  <2>1. PICK y \in MatrixKeys(d) \X Protocols :
           /\ y[1][1] = m /\ AccountEnabled(d, y[1][4])
           /\ Cell(d, y[1], y[2]).status = "routable"
           /\ v = <<<<y[1][3], y[1][5], y[2]>>, y[1][4]>>
    BY <1>2 DEF MatrixRoutable
  <2>2. PICK key, p, x : key = y[1] /\ p = y[2] /\ x = Resolve(d, key[1], p)
    OBVIOUS
  <2>3. PICK i \in DOMAIN x.line : MatrixKey(d, x.route, x.line[i]) = key
    BY <2>1, <2>2, CellIs
  <2>4. key[1] = m
    BY <2>1, <2>2
  <2>5. x.line[i] \in Its(d, x.route, p) /\ x.route \in DOMAIN d.routes /\ d.routes[x.route].model = m
    BY <2>2, <2>4, ResolveIs
  <2>6. PICK b \in DOMAIN d.bindings : b = x.line[i] /\ d.bindings[b].protocol = p /\ InSnapshot(d, x.route, b)
    BY <2>5 DEF Its
  <2>7. /\ key[3] = d.bindings[b].source /\ key[4] = d.bindings[b].account
        /\ key[5] = d.bindings[b].upstream
    BY <2>3, <2>6 DEF MatrixKey
  <2>8. v = <<CapKey(d.bindings[b]), d.bindings[b].account>>
    BY <2>1, <2>2, <2>6, <2>7 DEF CapKey
  <2>9. /\ d.bindings[b].model = m /\ Active(d.bindings[b]) /\ Backed(d, d.bindings[b])
        /\ d.routes[x.route].enabled /\ d.bindings[b].protocol \in d.routes[x.route].protocols
    BY <2>5, <2>6 DEF InSnapshot
  <2>10. AccountEnabled(d, d.bindings[b].account)
    BY <2>1, <2>2, <2>7
  <2> QED BY <2>5, <2>8, <2>9, <2>10 DEF ViewRoutable
<1> QED
  BY <1>1, <1>2

\* The administrator's view of a model and the capability matrix the data plane
\* answers from show the same routable lines, and the matrix always builds.
THEOREM RoutingViewMatchesMatrix == RoutingSpec => []ViewMatchesMatrix
<1>1. RoutingInv => ViewMatchesMatrix
  BY MatrixAlwaysBuilds, ViewIsMatrix DEF RoutingInv, ViewMatchesMatrix
<1> QED
  BY <1>1, RoutingTablesSound, PTL

-----------------------------------------------------------------------------
(* What an import serves. *)

\* Tables that a file's import has left.
Taken(d, file) ==
    /\ file \in Files /\ FileValid(file) /\ FileRefers(file)
    /\ \A x \in Range(Steps(file)) : StepCapability(file, x).mode # "unsupported"
    /\ TablesInv(d) /\ Built(d, file, Range(Steps(file)))

\* A file comes to one of three modes.
LEMMA StepModes ==
    ASSUME NEW file \in Files, FileRefers(file), NEW x \in ImportSteps(file)
    PROVE  StepCapability(file, x).mode \in {"native", "adapter", "unsupported"}
<1> DEFINE a == x.account
           account == file.accounts[a]
           provider == file.providers[account.provider]
           mine == FindModelOverride(account.overrides, x.model).matrix
           theirs == FindModelOverride(provider.overrides, x.model).matrix
           layers == <<mine, theirs, account.matrix, provider.matrix>>
           p == x.protocol
           stated == {i \in DOMAIN layers : p \in DOMAIN layers[i]}
<1>1. /\ a \in DOMAIN file.accounts /\ account.provider \in DOMAIN file.providers
  BY DEF ImportSteps, FileRefers
<1>2. account \in Range(file.accounts) /\ provider \in Range(file.providers)
  BY <1>1 DEF Range
<1>3. /\ Stated(account.matrix) /\ \A m \in DOMAIN account.overrides : Stated(account.overrides[m].matrix)
      /\ Stated(provider.matrix) /\ \A m \in DOMAIN provider.overrides : Stated(provider.overrides[m].matrix)
  BY <1>2, FilesAssumption
<1>4. Stated(<<>>) /\ NoOverride.matrix = <<>>
  BY DEF Stated, NoOverride
<1>5. Stated(mine) /\ Stated(theirs)
  BY <1>3, <1>4 DEF FindModelOverride
<1>6. StepCapability(file, x) =
         CASE stated # {} -> layers[First(stated)][p]
           [] stated = {} /\ p \in provider.native \cap provider.endpoints -> Native
           [] OTHER -> Unsupported
  BY Zenon DEF StepCapability, ProtocolCapability
<1> HIDE DEF account, provider, mine, theirs, p
<1>7. \A i \in DOMAIN layers : Stated(layers[i])
  <2>1. \A i \in DOMAIN layers : i = 1 \/ i = 2 \/ i = 3 \/ i = 4
    OBVIOUS
  <2> QED BY <1>3, <1>5, <2>1
<1>8. CASE stated # {}
  <2>1. stated \in SUBSET Nat
    OBVIOUS
  <2>2. \A i \in stated : i \in DOMAIN layers /\ p \in DOMAIN layers[i]
    OBVIOUS
  <2> HIDE DEF stated, layers
  <2>3. First(stated) \in stated
    BY <1>8, <2>1, LeastNumber DEF First
  <2> QED BY <1>6, <1>7, <1>8, <2>2, <2>3 DEF Stated
<1>9. CASE stated = {}
  BY <1>6, <1>9 DEF Native, Unsupported
<1> QED
  BY <1>8, <1>9

\* Every row an import leaves lets its bindings through, so that a route serves
\* the enabled bindings of its model on its protocols.
LEMMA TakenServes ==
    ASSUME NEW d, NEW file, Taken(d, file), NEW r \in DOMAIN d.routes, NEW b \in DOMAIN d.bindings
    PROVE  InSnapshot(d, r, b) <=> /\ d.bindings[b].model = d.routes[r].model
                                   /\ d.bindings[b].protocol \in d.routes[r].protocols
                                   /\ d.bindings[b].enabled
<1>1. d.routes[r].enabled
  <2>1. PICK x \in Range(Steps(file)) : d.routes[r] = RouteRow(x)
    BY DEF Taken, Built, RoutesBuilt
  <2> QED BY <2>1 DEF RouteRow
<1>2. d.bindings[b].status = "confirmed"
  <2>1. PICK x \in Range(Steps(file)) : d.bindings[b] = StepBinding(file, x)
    BY DEF Taken, Built, BindingsBuilt
  <2> QED BY <2>1 DEF StepBinding
<1>3. Refers(d, d.bindings[b])
  BY DEF Taken, TablesInv, BindingRows
<1>4. d.models[d.bindings[b].model] = Live /\ d.listed[ListedKey(d.bindings[b])] = Offered
  BY <1>3 DEF Refers, Taken, Built, ListsBuilt
<1>5. Routable(d.caps[CapKey(d.bindings[b])])
  <2>1. PICK k, c : k = CapKey(d.bindings[b]) /\ c = d.caps[k]
    OBVIOUS
  <2>2. PICK x \in Range(Steps(file)) : k \in DOMAIN StepRows(file, x) /\ c = StepRows(file, x)[k]
    BY <1>3, <2>1 DEF Refers, Taken, Built, CapsBuilt
  <2>3. c.status = "confirmed" /\ (c.cap = StepCapability(file, x) \/ c.cap = Native)
    BY <2>2 DEF StepRows
  <2>4. x \in ImportSteps(file)
    BY StepIs DEF Taken
  <2>5. StepCapability(file, x).mode \in {"native", "adapter", "unsupported"}
    BY <2>4, StepModes DEF Taken
  <2>6. StepCapability(file, x).mode # "unsupported"
    BY DEF Taken
  <2>7. c.cap.mode \in {"native", "adapter"}
    BY <2>3, <2>5, <2>6 DEF Native
  <2> QED BY <2>1, <2>3, <2>7 DEF Routable
<1> QED
  BY <1>1, <1>2, <1>4, <1>5 DEF InSnapshot, Active, Backed, Live, Offered

\* The bindings of a model on a protocol, and where they come from.
Mine(d, m, p) == {b \in DOMAIN d.bindings : /\ d.bindings[b].model = m /\ d.bindings[b].protocol = p
                                            /\ d.bindings[b].enabled}

LEMMA TakenRoutes ==
    ASSUME NEW d, NEW file, Taken(d, file), NEW r \in DOMAIN d.routes, NEW m, d.routes[r].model = m,
           NEW p
    PROVE  /\ Its(d, r, p) = IF p \in d.routes[r].protocols THEN Mine(d, m, p) ELSE {}
           /\ p \in d.routes[r].protocols =>
                \E i \in Covering(file, m, p) : r[1] = file.routes[i].id
<1>1. Its(d, r, p) = IF p \in d.routes[r].protocols THEN Mine(d, m, p) ELSE {}
  BY TakenServes DEF Its, Mine
<1>2. ASSUME p \in d.routes[r].protocols
      PROVE  \E i \in Covering(file, m, p) : r[1] = file.routes[i].id
  <2>1. PICK x \in Range(Steps(file)) : x.id = r /\ d.routes[r] = RouteRow(x)
    BY DEF Taken, Built, RoutesBuilt
  <2>2. x.model = m /\ p \in x.route.protocols
    BY <1>2, <2>1 DEF RouteRow
  <2>3. PICK i \in DOMAIN file.routes : \E n \in DOMAIN RouteAccounts(file.routes[i]) : StepFor(file, x, i, n)
    BY StepIs DEF Taken
  <2> QED BY <2>1, <2>2, <2>3 DEF StepFor, Covering
<1> QED
  BY <1>1, <1>2

LEMMA TakenBindings ==
    ASSUME NEW d, NEW file, Taken(d, file), NEW m, NEW p, NEW b \in Mine(d, m, p)
    PROVE  \E x \in Range(Steps(file)) : \E i \in Covering(file, m, p) :
             \E n \in DOMAIN RouteAccounts(file.routes[i]) :
               /\ StepFor(file, x, i, n) /\ x.model = m /\ x.protocol = p
               /\ d.bindings[b] = StepBinding(file, x)
<1>1. PICK x \in Range(Steps(file)) : d.bindings[b] = StepBinding(file, x)
  BY DEF Taken, Built, BindingsBuilt, Mine
<1>2. x.model = m /\ x.protocol = p
  BY <1>1 DEF Mine, StepBinding
<1>3. PICK i \in DOMAIN file.routes : \E n \in DOMAIN RouteAccounts(file.routes[i]) : StepFor(file, x, i, n)
  BY StepIs DEF Taken
<1>4. i \in Covering(file, m, p)
  BY <1>2, <1>3 DEF StepFor, Covering
<1> QED
  BY <1>1, <1>2, <1>3, <1>4

\* What no route of the file covers is not found.
LEMMA UncoveredNotFound ==
    ASSUME NEW d, NEW file, Taken(d, file), NEW m, NEW p,
           Covering(file, m, p) = {} \/ Mine(d, m, p) = {}
    PROVE  Resolve(d, m, p) = NotFound
<1>1. Mine(d, m, p) = {}
  BY TakenBindings
<1>2. ASSUME NEW r \in DOMAIN d.routes, d.routes[r].model = m PROVE Bindings(d, r, p) = <<>>
  <2>1. Its(d, r, p) = {}
    BY <1>1, <1>2, TakenRoutes
  <2> QED BY <2>1, BindingsAre DEF Taken
<1>3. Candidates(d, m, p) = {}
  BY <1>2 DEF Candidates
<1> QED
  BY <1>3 DEF Resolve

\* The places of the enabled accounts, each at its first.
Firsts(file, all) == {n \in DOMAIN all : /\ file.accounts[all[n]].enabled
                                         /\ \A j \in 1..(n - 1) : all[j] # all[n]}

LEMMA PriorityFalls ==
    ASSUME NEW j \in Nat, NEW n \in Nat, j < n
    PROVE  Priority(j) \in Int /\ Priority(n) \in Int /\ Priority(j) > Priority(n)
BY DEF Priority

\* Where one route covers a model and protocol, their bindings are that route's
\* enabled accounts, each with the priority of its first place.
PlacedBy(d, file, m, p, all) ==
  /\ \A b \in Mine(d, m, p) : \E n \in Firsts(file, all) :
       /\ d.bindings[b].account = all[n] /\ d.bindings[b].priority = Priority(n - 1)
       /\ d.bindings[b].source = file.accounts[all[n]].provider
       /\ d.bindings[b].upstream = UpstreamModel(file, all[n], m)
  /\ \A n \in Firsts(file, all) : \E b \in Mine(d, m, p) : d.bindings[b].account = all[n]
  /\ \A b, c \in Mine(d, m, p) : d.bindings[b].account = d.bindings[c].account => b = c

LEMMA CoveredBindings ==
    ASSUME NEW d, NEW file, Taken(d, file), NEW m, NEW p, NEW i \in DOMAIN file.routes,
           Covering(file, m, p) = {i}, NEW all, all = RouteAccounts(file.routes[i])
    PROVE  PlacedBy(d, file, m, p, all)
<1>1. all \in Seq(DOMAIN file.accounts)
  BY RouteAccountsAre DEF Taken
<1>2. DOMAIN all = 1..Len(all) /\ Len(all) \in Nat
  BY <1>1
<1>3. m \in RouteModels(file, file.routes[i]) /\ p \in file.routes[i].protocols
  BY DEF Covering
<1>4. ASSUME NEW n \in DOMAIN all
      PROVE  \E x \in Range(Steps(file)) : /\ x.account = all[n] /\ x.index = n - 1
                                           /\ x.model = m /\ x.protocol = p
  BY <1>3, StepExists DEF StepFor, Taken
<1>5. \A x \in Range(Steps(file)) : \E k \in DOMAIN d.bindings :
         /\ Identity(d.bindings[k]) = Identity(StepBinding(file, x))
         /\ d.bindings[k].priority >= Priority(x.index)
  BY DEF Taken, Built, BindingsBuilt
<1>6. UniqueRows(d)
  BY DEF Taken, TablesInv
<1>7. ASSUME NEW x, NEW y, x.model = y.model, x.account = y.account, x.protocol = y.protocol
      PROVE  Identity(StepBinding(file, x)) = Identity(StepBinding(file, y))
  BY <1>7 DEF Identity, CapKey, StepBinding
<1>8. ASSUME NEW b \in Mine(d, m, p)
      PROVE  \E n \in Firsts(file, all) :
                /\ d.bindings[b].account = all[n] /\ d.bindings[b].priority = Priority(n - 1)
                /\ d.bindings[b].source = file.accounts[all[n]].provider
                /\ d.bindings[b].upstream = UpstreamModel(file, all[n], m)
  <2>1. PICK x \in Range(Steps(file)) : \E n \in DOMAIN all :
           /\ StepFor(file, x, i, n) /\ x.model = m /\ x.protocol = p
           /\ d.bindings[b] = StepBinding(file, x)
    BY TakenBindings
  <2>2. PICK n \in DOMAIN all :
           /\ StepFor(file, x, i, n) /\ x.model = m /\ x.protocol = p
           /\ d.bindings[b] = StepBinding(file, x)
    BY <2>1
  <2>3. x.account = all[n] /\ x.index = n - 1
    BY <2>2 DEF StepFor
  <2>4. /\ d.bindings[b].account = all[n] /\ d.bindings[b].priority = Priority(n - 1)
        /\ d.bindings[b].source = file.accounts[all[n]].provider
        /\ d.bindings[b].upstream = UpstreamModel(file, all[n], m)
        /\ d.bindings[b].enabled = file.accounts[all[n]].enabled
    BY <2>2, <2>3 DEF StepBinding
  <2>5. ASSUME NEW j \in 1..(n - 1), all[j] = all[n] PROVE FALSE
    <3>1. j \in DOMAIN all /\ j - 1 \in Nat /\ n - 1 \in Nat /\ j - 1 < n - 1
      BY <1>2
    <3>2. PICK y \in Range(Steps(file)) : /\ y.account = all[j] /\ y.index = j - 1
                                          /\ y.model = m /\ y.protocol = p
      BY <1>4, <3>1
    <3>3. PICK k \in DOMAIN d.bindings :
             /\ Identity(d.bindings[k]) = Identity(StepBinding(file, y))
             /\ d.bindings[k].priority >= Priority(j - 1)
      BY <1>5, <3>2
    <3>4. Identity(StepBinding(file, y)) = Identity(d.bindings[b])
      BY <1>7, <2>2, <2>3, <2>5, <3>2
    <3>5. k = b
      BY <1>6, <3>3, <3>4 DEF UniqueRows, Mine
    <3> QED BY <2>4, <3>1, <3>3, <3>5, PriorityFalls
  <2>6. n \in Firsts(file, all)
    BY <2>4, <2>5 DEF Firsts, Mine
  <2> QED BY <2>4, <2>6
<1>9. ASSUME NEW n \in Firsts(file, all)
      PROVE  \E b \in Mine(d, m, p) : d.bindings[b].account = all[n]
  <2>1. n \in DOMAIN all /\ file.accounts[all[n]].enabled
    BY DEF Firsts
  <2>2. PICK x \in Range(Steps(file)) : x.account = all[n] /\ x.model = m /\ x.protocol = p
    BY <1>4, <2>1
  <2>3. PICK b \in DOMAIN d.bindings : Identity(d.bindings[b]) = Identity(StepBinding(file, x))
    BY <1>5
  <2>4. d.bindings[b].model = m /\ d.bindings[b].protocol = p /\ d.bindings[b].account = all[n]
    BY <2>2, <2>3 DEF Identity, CapKey, StepBinding
  <2>5. PICK y \in Range(Steps(file)) : d.bindings[b] = StepBinding(file, y)
    BY DEF Taken, Built, BindingsBuilt
  <2>6. d.bindings[b].enabled = file.accounts[all[n]].enabled
    BY <2>4, <2>5 DEF StepBinding
  <2> QED BY <2>1, <2>4, <2>6 DEF Mine
<1>10. ASSUME NEW b \in Mine(d, m, p), NEW c \in Mine(d, m, p), d.bindings[b].account = d.bindings[c].account
       PROVE  b = c
  <2>1. PICK x, y : d.bindings[b] = StepBinding(file, x) /\ d.bindings[c] = StepBinding(file, y)
    BY DEF Mine, Taken, Built, BindingsBuilt
  <2>2. x.model = y.model /\ x.account = y.account /\ x.protocol = y.protocol
    BY <1>10, <2>1 DEF Mine, StepBinding
  <2> QED BY <1>6, <1>7, <2>1, <2>2 DEF UniqueRows, Mine
<1> QED
  BY <1>8, <1>9, <1>10, Zenon DEF PlacedBy

\* The priority decides between two places that differ in it.
LEMMA PlaceLess ==
    ASSUME NEW d, NEW b, NEW c, d.bindings[b].priority \in Int, d.bindings[c].priority \in Int,
           d.bindings[b].priority # d.bindings[c].priority
    PROVE  LexLess(Place(d, c), Place(d, b)) <=> d.bindings[c].priority > d.bindings[b].priority
<1>1. PICK x, y : x = Place(d, c) /\ y = Place(d, b)
  OBVIOUS
<1>2. /\ DOMAIN x = 1..3 /\ x[1] = -d.bindings[c].priority /\ y[1] = -d.bindings[b].priority
  BY <1>1 DEF Place
<1>3. ASSUME LexLess(x, y) PROVE d.bindings[c].priority > d.bindings[b].priority
  <2>1. PICK k \in 1..3 : x[k] < y[k] /\ \A j \in 1..(k - 1) : x[j] = y[j]
    BY <1>2, <1>3 DEF LexLess
  <2>2. k = 1
    <3>1. k # 1 => 1 \in 1..(k - 1)
      OBVIOUS
    <3> QED BY <1>2, <2>1, <3>1
  <2> QED BY <1>2, <2>1, <2>2
<1>4. ASSUME d.bindings[c].priority > d.bindings[b].priority PROVE LexLess(x, y)
  <2>1. x[1] < y[1] /\ 1 \in DOMAIN x
    BY <1>2, <1>4
  <2>2. \A j \in 1..(1 - 1) : x[j] = y[j]
    OBVIOUS
  <2> QED BY <2>1, <2>2 DEF LexLess
<1> QED
  BY <1>1, <1>3, <1>4

\* In the order of their places they are the accounts in the file's order.
Lined(d, m, p) == Ordered([b \in Mine(d, m, p) |-> Place(d, b)])

\* One route of the file covers the model on the protocol.
Only(file, m, p, i) == i \in DOMAIN file.routes /\ Covering(file, m, p) = {i}

InFileOrder(d, m, p, o, expected) ==
    /\ Cardinality(Mine(d, m, p)) \in Nat
    /\ o \in Seq(Mine(d, m, p)) /\ Len(o) = Cardinality(Mine(d, m, p))
    /\ DOMAIN expected = 1..Len(o) /\ Len(expected) = Len(o)
    /\ expected = <<>> <=> Mine(d, m, p) = {}
    /\ \A n \in 1..Len(o) : d.bindings[o[n]].account = expected[n]

LEMMA CoveredInOrder ==
    ASSUME NEW d, NEW file, Taken(d, file), NEW m, NEW p, NEW i, Only(file, m, p, i),
           NEW o, o = Lined(d, m, p),
           NEW expected, expected = Expected(file, file.routes[i])
    PROVE  InFileOrder(d, m, p, o, expected)
<1> i \in DOMAIN file.routes /\ Covering(file, m, p) = {i}
  BY DEF Only
<1>0. PICK all : all = RouteAccounts(file.routes[i])
  OBVIOUS
<1> DEFINE mine == Mine(d, m, p)
           firsts == Firsts(file, all)
           K == [b \in mine |-> Place(d, b)]
           f == [b \in mine |-> CHOOSE n \in firsts : all[n] = d.bindings[b].account]
           N == Cardinality(firsts)
           nth(n) == CHOOSE t \in firsts : Cardinality({u \in firsts : u < t}) = n - 1
<1>1. expected = [n \in 1..N |-> all[nth(n)]]
  <2>1. Expected(file, file.routes[i]) =
          [n \in 1..Cardinality(Firsts(file, RouteAccounts(file.routes[i]))) |->
             RouteAccounts(file.routes[i])[CHOOSE t \in Firsts(file, RouteAccounts(file.routes[i])) :
               Cardinality({u \in Firsts(file, RouteAccounts(file.routes[i])) : u < t}) = n - 1]]
    BY Zenon DEF Expected, Firsts
  <2> QED BY <1>0, <2>1
<1>2. DOMAIN K = mine /\ mine \subseteq DOMAIN d.bindings /\ o = Ordered(K)
  BY DEF Mine, Lined
<1>3. Keyed(K, 3)
  BY <1>2, PlacesKeyed DEF Taken
<1>4. /\ \A b \in mine : \E n \in firsts :
            d.bindings[b].account = all[n] /\ d.bindings[b].priority = Priority(n - 1)
      /\ \A n \in firsts : \E b \in mine : d.bindings[b].account = all[n]
      /\ \A b, c \in mine : d.bindings[b].account = d.bindings[c].account => b = c
  <2>1. PlacedBy(d, file, m, p, all)
    BY <1>0, CoveredBindings
  <2>2. /\ \A b \in mine : \E n \in firsts :
              d.bindings[b].account = all[n] /\ d.bindings[b].priority = Priority(n - 1)
        /\ \A n \in firsts : \E b \in mine : d.bindings[b].account = all[n]
        /\ \A b, c \in mine : d.bindings[b].account = d.bindings[c].account => b = c
    BY <2>1, Zenon DEF PlacedBy
  <2> QED BY <2>2, Zenon
<1>5. all \in Seq(DOMAIN file.accounts)
  BY <1>0, RouteAccountsAre DEF Taken
<1>6. /\ \A n \in firsts : n \in DOMAIN all /\ n \in Nat /\ n - 1 \in Nat
      /\ \A n, k \in firsts : all[n] = all[k] => n = k
  <2>1. \A n \in firsts : n \in DOMAIN all /\ n \in 1..Len(all) /\ \A j \in 1..(n - 1) : all[j] # all[n]
    BY <1>5 DEF Firsts
  <2>2. Len(all) \in Nat
    BY <1>5
  <2> HIDE DEF firsts
  <2>3. ASSUME NEW n \in firsts, NEW k \in firsts, all[n] = all[k] PROVE n = k
    <3>1. n \in Nat /\ k \in Nat /\ n >= 1 /\ k >= 1
      BY <2>1, <2>2
    <3>2. n < k => n \in 1..(k - 1)
      BY <3>1
    <3>3. k < n => k \in 1..(n - 1)
      BY <3>1
    <3> QED BY <2>1, <2>3, <3>1, <3>2, <3>3
  <2> QED BY <2>1, <2>2, <2>3
<1> HIDE DEF mine, firsts
<1>7. \A b \in mine : /\ f[b] \in firsts /\ all[f[b]] = d.bindings[b].account
                      /\ d.bindings[b].priority = Priority(f[b] - 1)
  BY <1>4, <1>6
<1>8. f \in Bijection(mine, firsts)
  <2>1. f \in [mine -> firsts]
    BY <1>7
  <2>2. \A b, c \in mine : f[b] = f[c] => b = c
    BY <1>4, <1>7
  <2>3. \A n \in firsts : \E b \in mine : f[b] = n
    BY <1>4, <1>6, <1>7
  <2> HIDE DEF f
  <2> QED BY <2>1, <2>2, <2>3 DEF Bijection, Injection, Surjection, IsInjective
<1> HIDE DEF f
<1>9. ASSUME NEW b \in mine, NEW c \in mine PROVE LexLess(K[c], K[b]) <=> f[c] < f[b]
  <2>1. K[b] = Place(d, b) /\ K[c] = Place(d, c)
    OBVIOUS
  <2>2. f[b] \in Nat /\ f[c] \in Nat /\ f[b] - 1 \in Nat /\ f[c] - 1 \in Nat
    BY <1>6, <1>7
  <2>3. CASE f[b] = f[c]
    <3>1. b = c
      BY <1>4, <1>7, <2>3
    <3>2. K[b] \in [1..3 -> Int]
      BY <1>2, <1>3 DEF Keyed
    <3>3. ~LexLess(K[b], K[b])
      <4>1. PICK x \in [1..3 -> Int] : x = K[b]
        BY <3>2
      <4>2. \A k \in 1..3 : ~(x[k] < x[k])
        OBVIOUS
      <4> QED BY <4>1, <4>2 DEF LexLess
    <3> QED BY <2>2, <2>3, <3>1, <3>3
  <2>4. CASE f[c] < f[b]
    <3>1. /\ d.bindings[c].priority > d.bindings[b].priority
          /\ d.bindings[c].priority \in Int /\ d.bindings[b].priority \in Int
      BY <1>7, <2>2, <2>4, PriorityFalls
    <3> QED BY <2>1, <2>4, <3>1, PlaceLess
  <2>5. CASE f[b] < f[c]
    <3>1. /\ d.bindings[b].priority > d.bindings[c].priority
          /\ d.bindings[c].priority \in Int /\ d.bindings[b].priority \in Int
      BY <1>7, <2>2, <2>5, PriorityFalls
    <3> QED BY <2>1, <2>2, <2>5, <3>1, PlaceLess
  <2> QED BY <2>2, <2>3, <2>4, <2>5
<1>10. firsts \in SUBSET Nat
  BY <1>6
<1> HIDE DEF K
<1>11. /\ N = Cardinality(mine)
       /\ \A n \in DOMAIN o : f[o[n]] = nth(n)
  <2> HIDE DEF N, nth
  <2>1. f \in Bijection(DOMAIN K, firsts) /\ \A b, c \in DOMAIN K : LexLess(K[c], K[b]) <=> f[c] < f[b]
    BY <1>2, <1>8, <1>9
  <2>2. /\ Cardinality(firsts) = Cardinality(DOMAIN K)
        /\ \A n \in DOMAIN Ordered(K) :
             f[Ordered(K)[n]] = CHOOSE t \in firsts : Cardinality({u \in firsts : u < t}) = n - 1
    BY <1>3, <1>10, <2>1, RanksAgree
  <2>3. /\ N = Cardinality(firsts)
        /\ \A n : nth(n) = CHOOSE t \in firsts : Cardinality({u \in firsts : u < t}) = n - 1
    BY DEF N, nth
  <2> QED BY <1>2, <2>2, <2>3, Zenon
<1>12. /\ Cardinality(mine) \in Nat /\ o \in Seq(mine) /\ DOMAIN o = 1..Cardinality(mine)
       /\ \A n \in DOMAIN o : o[n] \in mine
  BY <1>2, <1>3, OrderedIs
<1>13. Len(o) = Cardinality(mine)
  BY <1>12
<1> HIDE DEF N, nth
<1>14. DOMAIN expected = 1..N /\ Len(expected) = N /\ \A n \in 1..N : expected[n] = all[nth(n)]
  BY <1>1, <1>11, <1>12
<1>15. \A n \in 1..N : d.bindings[o[n]].account = expected[n]
  BY <1>7, <1>11, <1>12, <1>14
<1>16. expected = <<>> <=> mine = {}
  <2>1. mine = {} <=> N = 0
    BY <1>2, <1>3, <1>11, FS_EmptySet DEF Keyed
  <2>2. N = 0 => expected = <<>>
    BY <1>1
  <2>3. expected = <<>> => N = 0
    BY <1>14
  <2> QED BY <2>1, <2>2, <2>3
<1> QED
  BY <1>11, <1>12, <1>13, <1>14, <1>15, <1>16 DEF mine, InFileOrder

\* And the resolver answers with them, under the covering route.
LEMMA CoveredResolves ==
    ASSUME NEW d, NEW file, Taken(d, file), NEW m, NEW p, NEW i, Only(file, m, p, i),
           Mine(d, m, p) # {}, NEW found, found = Resolve(d, m, p)
    PROVE  /\ found.route[1] = file.routes[i].id
           /\ found.line = Lined(d, m, p)
           /\ found.line # <<>>
<1> i \in DOMAIN file.routes /\ Covering(file, m, p) = {i}
  BY DEF Only
<1>1. TablesInv(d)
  BY DEF Taken
<1>2. m \in RouteModels(file, file.routes[i]) /\ p \in file.routes[i].protocols
  BY DEF Covering
<1>3. \E r \in DOMAIN d.routes : d.routes[r].model = m /\ p \in d.routes[r].protocols
  <2>1. PICK b \in Mine(d, m, p) : TRUE
    OBVIOUS
  <2>2. PICK x \in Range(Steps(file)) : \E n \in DOMAIN RouteAccounts(file.routes[i]) :
           StepFor(file, x, i, n) /\ x.model = m /\ x.protocol = p
    BY <2>1, TakenBindings
  <2>3. x.route = file.routes[i] /\ x.model = m
    BY <2>2 DEF StepFor
  <2>4. PICK r \in DOMAIN d.routes : r = x.id
    BY DEF Taken, Built, RoutesBuilt
  <2>5. PICK y \in Range(Steps(file)) : y.id = r /\ d.routes[r] = RouteRow(y)
    BY DEF Taken, Built, RoutesBuilt
  <2>6. y.route = x.route /\ y.model = x.model
    BY <2>4, <2>5, StepId DEF Taken
  <2>7. d.routes[r].model = m /\ d.routes[r].protocols = file.routes[i].protocols
    BY <2>3, <2>5, <2>6 DEF RouteRow
  <2> QED BY <1>2, <2>7
<1>4. Candidates(d, m, p) # {}
  <2>1. PICK r \in DOMAIN d.routes : d.routes[r].model = m /\ p \in d.routes[r].protocols
    BY <1>3
  <2>2. Its(d, r, p) # {}
    BY <2>1, TakenRoutes
  <2>3. Bindings(d, r, p) # <<>>
    BY <1>1, <2>2, BindingsAre
  <2> QED BY <2>1, <2>3 DEF Candidates
<1>5. PICK s \in Candidates(d, m, p) : found = [route |-> s, line |-> Bindings(d, s, p)]
  BY <1>1, <1>4, ResolveFirst
<1>6. s \in DOMAIN d.routes /\ d.routes[s].model = m /\ Bindings(d, s, p) # <<>>
  BY DEF Candidates
<1>7. Its(d, s, p) # {}
  BY <1>1, <1>6, BindingsAre
<1>8. Its(d, s, p) = Mine(d, m, p) /\ s[1] = file.routes[i].id
  BY <1>6, <1>7, TakenRoutes
<1>9. Bindings(d, s, p) = Ordered([b \in Its(d, s, p) |-> Place(d, b)])
  BY DEF Bindings, Its
<1>10. found.route = s /\ found.line = Bindings(d, s, p)
  BY <1>5
<1> QED
  BY <1>6, <1>8, <1>9, <1>10 DEF Lined

\* A row all of the file's steps agree about says what the file says of the
\* binding's account.
LEMMA CoveredCapability ==
    ASSUME NEW d, NEW file, Taken(d, file), NEW m, NEW p, NEW b \in Mine(d, m, p),
           NEW a, a = d.bindings[b].account,
           NEW s, s = file.accounts[a].provider, Undisputed(file, CapKey(d.bindings[b]))
    PROVE  d.caps[CapKey(d.bindings[b])] =
             [status |-> "confirmed", cap |-> ProtocolCapability(file, s, a, m, p),
              features |-> FeatureCapabilities(file, s, a, m)]
<1>1. PICK key : key = CapKey(d.bindings[b])
  OBVIOUS
<1>2. key \in DOMAIN d.caps
  BY <1>1 DEF Mine, Taken, TablesInv, BindingRows, Refers
<1>3. PICK x \in Range(Steps(file)) : key \in DOMAIN StepRows(file, x) /\ d.caps[key] = StepRows(file, x)[key]
  BY <1>2 DEF Taken, Built, CapsBuilt
<1>4. PICK y \in Range(Steps(file)) : y.model = m /\ y.protocol = p /\ d.bindings[b] = StepBinding(file, y)
  BY TakenBindings
<1>5. a = y.account /\ key = <<s, UpstreamModel(file, a, m), p>>
  BY <1>1, <1>4 DEF StepBinding, CapKey
<1>6. /\ key \in DOMAIN StepRows(file, y)
      /\ StepRows(file, y)[key] =
             [status |-> "confirmed", cap |-> ProtocolCapability(file, s, a, m, p),
              features |-> FeatureCapabilities(file, s, a, m)]
  BY <1>4, <1>5 DEF StepRows, StepCapability
<1>7. StepRows(file, x)[key] = StepRows(file, y)[key]
  BY <1>1, <1>3, <1>6 DEF Undisputed
<1> QED
  BY <1>1, <1>3, <1>6, <1>7

\* An enabled primary is the first account of a route.
LEMMA PrimaryFirst ==
    ASSUME NEW file, NEW route, NEW S, RouteAccounts(route) \in Seq(S),
           file.accounts[route.primary].enabled, NEW T, route.fallbacks \in Seq(T),
           NEW expected, expected = Expected(file, route)
    PROVE  expected # <<>> /\ 1 \in DOMAIN expected /\ expected[1] = route.primary
<1>0. PICK all : all = RouteAccounts(route)
  OBVIOUS
<1> DEFINE firsts == Firsts(file, all)
           N == Cardinality(firsts)
           nth(n) == CHOOSE t \in firsts : Cardinality({u \in firsts : u < t}) = n - 1
<1>1. expected = [n \in 1..N |-> all[nth(n)]]
  <2>1. Expected(file, route) =
          [n \in 1..Cardinality(Firsts(file, RouteAccounts(route))) |->
             RouteAccounts(route)[CHOOSE t \in Firsts(file, RouteAccounts(route)) :
               Cardinality({u \in Firsts(file, RouteAccounts(route)) : u < t}) = n - 1]]
    BY Zenon DEF Expected, Firsts
  <2> QED BY <1>0, <2>1
<1>2. all \in Seq(S) /\ 1 \in 1..Len(all) /\ DOMAIN all = 1..Len(all) /\ Len(all) \in Nat
      /\ all[1] = route.primary
  BY <1>0 DEF RouteAccounts
<1>3. 1 \in firsts /\ firsts \subseteq 1..Len(all)
  <2>1. \A j \in 1..(1 - 1) : all[j] # all[1]
    OBVIOUS
  <2> QED BY <1>2, <2>1 DEF Firsts
<1> HIDE DEF firsts
<1>4. IsFiniteSet(firsts)
  <2>1. IsFiniteSet(1..Len(all))
    BY <1>2, FS_Interval
  <2> QED BY <1>3, <2>1, FS_Subset
<1>5. N \in Nat /\ N # 0
  BY <1>3, <1>4, FS_EmptySet, FS_CardinalityType
<1>6. ASSUME NEW t \in firsts PROVE Cardinality({u \in firsts : u < t}) = 0 <=> t = 1
  <2> DEFINE below == {u \in firsts : u < t}
  <2>1. IsFiniteSet(below)
    BY <1>4, FS_Subset
  <2>2. Cardinality(below) = 0 <=> below = {}
    BY <2>1, FS_EmptySet
  <2>3. /\ \A u \in firsts : u \in Nat /\ u >= 1
        /\ 1 \in firsts /\ t \in firsts
    BY <1>2, <1>3
  <2>4. ASSUME t = 1, NEW u \in below PROVE FALSE
    <3>1. u \in firsts /\ u < t
      OBVIOUS
    <3> QED BY <2>3, <2>4, <3>1
  <2>5. t # 1 => 1 \in below
    BY <2>3
  <2> HIDE DEF below
  <2>6. Cardinality(below) = 0 <=> t = 1
    BY <2>2, <2>4, <2>5
  <2> QED BY <2>6 DEF below
<1>7. nth(1) = 1
  BY <1>3, <1>6
<1> HIDE DEF N, nth
<1>8. 1 \in 1..N
  BY <1>5
<1>9. expected[1] = route.primary /\ 1 \in DOMAIN expected
  BY <1>1, <1>2, <1>7, <1>8
<1> QED
  BY <1>9

\* Where the file's own resolver looks at one route, it answers for that route.
LEMMA SelectedIs ==
    ASSUME NEW file, NEW m, NEW p, NEW i, Matching(file, m, p) = {i},
           ResolveSelected(file, m, p) # None
    PROVE  ResolveSelected(file, m, p) = ResolveCandidate(file, file.routes[i], m, p)
<1> DEFINE resolved == {k \in DOMAIN file.routes :
                          /\ p \in file.routes[k].protocols
                          /\ file.routes[k].model \in {m, AnyModel}
                          /\ ResolveCandidate(file, file.routes[k], m, p) # None}
           Ahead(x, y) == \E n \in DOMAIN x : x[n] < y[n] /\ \A k \in 1..(n - 1) : x[k] = y[k]
           first == CHOOSE k \in resolved : \A j \in resolved \ {k} :
                      Ahead(RoutePlace(file, k, m), RoutePlace(file, j, m))
<1>1. ResolveSelected(file, m, p) =
        IF resolved = {} THEN None ELSE ResolveCandidate(file, file.routes[first], m, p)
  BY Zenon DEF ResolveSelected
<1>2. resolved \subseteq {i}
  BY DEF Matching
<1> HIDE DEF resolved, Ahead
<1>3. resolved = {i}
  BY <1>1, <1>2
<1>4. first = i
  BY <1>3
<1> QED
  BY <1>1, <1>3, <1>4

\* What a candidate that resolves says of its route and its primary.
LEMMA CandidateSays ==
    ASSUME NEW file, NEW route, NEW m, NEW p, NEW meant,
           meant = ResolveCandidate(file, route, m, p), meant # None,
           NEW s, s = file.accounts[route.primary].provider,
           NEW cap, cap = ProtocolCapability(file, s, route.primary, m, p),
           NEW features, features = FeatureCapabilities(file, s, route.primary, m)
    PROVE  /\ meant.route = route.id /\ meant.primary = route.primary
           /\ meant.mode = cap.mode
           /\ meant.upstream = UpstreamProtocol([cap |-> cap], p)
           /\ meant.features = EffectiveFeatures(features, AdapterFeatures(cap))
           /\ meant.degraded = Degraded(features, AdapterFeatures(cap))
<1> DEFINE judged == CandidateMode(file, route, m, p)
           upstream == IF judged.mode = "native" THEN p ELSE judged.source
           carried == IF judged.mode = "native" THEN None ELSE Adapters[judged.adapter].features
           its == FeatureCapabilities(file, route.provider, route.primary, m)
<1>1. /\ CandidateAccounts(file, route) /\ judged # None
      /\ meant = [route |-> route.id, primary |-> route.primary, fallbacks |-> route.fallbacks,
                  mode |-> judged.mode, upstream |-> upstream,
                  features |-> EffectiveFeatures(its, carried),
                  degraded |-> Degraded(its, carried)]
  BY DEF ResolveCandidate
<1>2. route.provider = s
  BY <1>1 DEF CandidateAccounts
<1>3. its = features /\ cap = ProtocolCapability(file, route.provider, route.primary, m, p)
  BY <1>2
<1>4. \/ judged = Native /\ cap.mode = "native"
      \/ judged = cap /\ cap.mode = "adapter"
  <2>1. PICK to, adapter : to = Adapters[route.adapter].to /\ adapter = route.adapter
    OBVIOUS
  <2>2. cap = [mode |-> "adapter", source |-> to, adapter |-> adapter] => cap.mode = "adapter"
    OBVIOUS
  <2> QED BY <1>1, <1>3, <2>1, <2>2 DEF CandidateMode
<1> HIDE DEF judged, its
<1>5. judged.mode = cap.mode /\ upstream = UpstreamProtocol([cap |-> cap], p) /\ carried = AdapterFeatures(cap)
  BY <1>4 DEF Native, UpstreamProtocol, AdapterFeatures
<1> HIDE DEF upstream, carried
<1> QED
  BY <1>1, <1>3, <1>5

\* What one covering route comes to in the snapshot.
Served(d, file, m, p, i, expected, found) ==
    /\ found # NotFound
    /\ found.route[1] = file.routes[i].id
    /\ Len(found.line) = Len(expected)
    /\ DOMAIN expected = 1..Len(expected) /\ Len(expected) \in Nat
    /\ \A n \in DOMAIN expected :
         /\ found.line[n] \in Mine(d, m, p)
         /\ d.bindings[found.line[n]].account = expected[n]
         /\ d.bindings[found.line[n]].upstream = UpstreamModel(file, expected[n], m)

LEMMA CoveredServed ==
    ASSUME NEW d, NEW file, Taken(d, file), NEW m, NEW p, NEW i, Only(file, m, p, i),
           NEW expected, expected = Expected(file, file.routes[i]),
           NEW found, found = Resolve(d, m, p)
    PROVE  /\ expected = <<>> => found = NotFound
           /\ expected # <<>> => Served(d, file, m, p, i, expected, found)
<1>1. PICK o : o = Lined(d, m, p)
  OBVIOUS
<1>2. InFileOrder(d, m, p, o, expected)
  BY <1>1, CoveredInOrder
<1>2a. i \in DOMAIN file.routes /\ (expected = <<>> <=> Mine(d, m, p) = {})
  BY <1>2 DEF Only, InFileOrder
<1>3. ASSUME expected = <<>> PROVE found = NotFound
  BY <1>2a, <1>3, UncoveredNotFound
<1>4. ASSUME expected # <<>>
      PROVE  /\ found # NotFound
             /\ found.route[1] = file.routes[i].id
             /\ found.line = o
  <2>1. /\ found.route[1] = file.routes[i].id
        /\ found.line = o /\ found.line # <<>>
    BY <1>1, <1>2a, <1>4, CoveredResolves
  <2>2. NotFound.line = <<>>
    BY DEF NotFound
  <2> QED BY <2>1, <2>2
<1>5. \A n \in 1..Len(o) : o[n] \in Mine(d, m, p)
  BY <1>2 DEF InFileOrder
<1>6. ASSUME NEW b \in Mine(d, m, p)
      PROVE  d.bindings[b].upstream = UpstreamModel(file, d.bindings[b].account, m)
  <2>1. PICK y \in Range(Steps(file)) : y.model = m /\ d.bindings[b] = StepBinding(file, y)
    BY TakenBindings
  <2> QED BY <2>1 DEF StepBinding
<1> QED
  BY <1>2, <1>3, <1>4, <1>5, <1>6 DEF InFileOrder, Served

\* Where the file's own resolver looks at the same route and finds its primary
\* enabled, the snapshot's answers the same.
LEMMA CoveredAsMeant ==
    ASSUME NEW d, NEW file, Taken(d, file), NEW m, NEW p, NEW i, Only(file, m, p, i),
           Matching(file, m, p) = {i},
           NEW meant, meant = ResolveSelected(file, m, p), meant # None,
           file.accounts[meant.primary].enabled,
           NEW found, found = Resolve(d, m, p), NEW binding, binding = d.bindings[found.line[1]],
           NEW held, held = d.caps[CapKey(binding)]
    PROVE  /\ found # NotFound
           /\ found.route[1] = meant.route
           /\ binding.account = meant.primary
           /\ Undisputed(file, CapKey(binding)) =>
                /\ held.cap.mode = meant.mode
                /\ UpstreamProtocol(held, p) = meant.upstream
                /\ EffectiveFeatures(held.features, AdapterFeatures(held.cap)) = meant.features
                /\ Degraded(held.features, AdapterFeatures(held.cap)) = meant.degraded
<1>1. PICK route : route = file.routes[i]
  OBVIOUS
<1>2. PICK s, cap, features : /\ s = file.accounts[route.primary].provider
                              /\ cap = ProtocolCapability(file, s, route.primary, m, p)
                              /\ features = FeatureCapabilities(file, s, route.primary, m)
  OBVIOUS
<1>3. meant = ResolveCandidate(file, route, m, p)
  BY <1>1, SelectedIs
<1>4. /\ meant.route = route.id /\ meant.primary = route.primary
      /\ meant.mode = cap.mode
      /\ meant.upstream = UpstreamProtocol([cap |-> cap], p)
      /\ meant.features = EffectiveFeatures(features, AdapterFeatures(cap))
      /\ meant.degraded = Degraded(features, AdapterFeatures(cap))
  BY <1>2, <1>3, CandidateSays
<1>5. PICK expected : expected = Expected(file, route)
  OBVIOUS
<1>5a. i \in DOMAIN file.routes
  BY DEF Only
<1>6. RouteAccounts(route) \in Seq(DOMAIN file.accounts) /\ route.fallbacks \in Seq(Range(route.fallbacks))
  BY <1>1, <1>5a, RouteAccountsAre, FilesAssumption DEF Taken
<1>7. expected # <<>> /\ 1 \in DOMAIN expected /\ expected[1] = route.primary
  BY <1>4, <1>5, <1>6, PrimaryFirst
<1>8. Served(d, file, m, p, i, expected, found)
  BY <1>1, <1>5, <1>7, CoveredServed
<1>10. found.line[1] \in Mine(d, m, p) /\ binding.account = route.primary
  BY <1>7, <1>8 DEF Served
<1>11. ASSUME Undisputed(file, CapKey(binding))
       PROVE  held.cap = cap /\ held.features = features
  <2>1. held = [status |-> "confirmed", cap |-> cap, features |-> features]
    BY <1>2, <1>10, <1>11, CoveredCapability
  <2> QED BY <2>1
<1>12. held.cap = cap => UpstreamProtocol(held, p) = UpstreamProtocol([cap |-> cap], p)
  BY DEF UpstreamProtocol
<1> QED
  BY <1>1, <1>4, <1>8, <1>10, <1>11, <1>12 DEF Served

\* Only an import leaves a file behind.
LEMMA ImportsAlone ==
    ASSUME RoutingNext
    PROVE  imported' = None \/ \E file \in Files, force \in BOOLEAN : Import(file, force)
<1> USE DEF Commit
<1>1. ASSUME NEW s, NEW x, NEW e,
             \/ SetSourceEnabled(s, e) \/ CreateSource(s, x, e) \/ UpdateSource(s, x, e)
             \/ CreateSourceFromRequest(s, x, e) \/ DeleteSource(s)
      PROVE  imported' = None
  BY <1>1, Zenon DEF SetSourceEnabled, CreateSource, UpdateSource, CreateSourceFromRequest, DeleteSource
<1>2. ASSUME NEW s, NEW x, ApplyDiscovery(s, x) \/ ConfirmSourceModel(x)
      PROVE  imported' = None
  BY <1>2, Zenon DEF ApplyDiscovery, ConfirmSourceModel, Catalogue
<1>3. ASSUME NEW s, NEW u, NEW p, NEW x, UpsertCapability(s, u, p, x)
      PROVE  imported' = None
  BY <1>3, Zenon DEF UpsertCapability
<1>4. ASSUME NEW a, NEW x, NEW e,
             \/ DeleteAccount(a) \/ CreateAccount(a, x) \/ UpdateAccount(a, x)
             \/ SetAccountEnabled(a, e)
      PROVE  imported' = None
  BY <1>4, Zenon DEF DeleteAccount, CreateAccount, UpdateAccount, SetAccountEnabled
<1>5. ASSUME NEW m, NEW x, NEW e,
             \/ DeleteLogicalModel(m) \/ CreateLogicalModel(m, x) \/ UpdateLogicalModel(m, x)
             \/ SetLogicalModelEnabled(m, e) \/ PutModelRouting(m, x, e)
      PROVE  imported' = None
  BY <1>5, Zenon DEF DeleteLogicalModel, CreateLogicalModel, UpdateLogicalModel,
     SetLogicalModelEnabled, PutModelRouting, WriteModelRouting
<1>6. ASSUME NEW id, NEW x, NEW e,
             \/ CreateBinding(x) \/ UpdateBinding(id, x) \/ DeleteBinding(id)
             \/ SetBindingEnabled(id, e)
      PROVE  imported' = None
  BY <1>6, Zenon DEF CreateBinding, UpdateBinding, DeleteBinding, SetBindingEnabled
<1>7. ASSUME NEW r, NEW x, NEW e,
             \/ CreateRoute(r, x) \/ UpdateRoute(r, x) \/ DeleteRoute(r) \/ SetRouteEnabled(r, e)
      PROVE  imported' = None
  BY <1>7, Zenon DEF CreateRoute, UpdateRoute, DeleteRoute, SetRouteEnabled
<1> QED
  BY <1>1, <1>2, <1>3, <1>4, <1>5, <1>6, <1>7, Zenon DEF RoutingNext

\* After an import the tables are what the file's steps built.
ImportTaken == imported # None => Taken(db, imported)

LEMMA TakenStep ==
    ASSUME RoutingInv, ImportTaken, [RoutingNext]_routingVars
    PROVE  imported' # None => Taken(db', imported')
<1>1. CASE UNCHANGED routingVars
  BY <1>1 DEF ImportTaken, routingVars
<1>2. CASE RoutingNext
  <2>1. CASE imported' = None
    BY <2>1
  <2>2. CASE \E file \in Files, force \in BOOLEAN : Import(file, force)
    <3>1. PICK file \in Files, force \in BOOLEAN : Import(file, force)
      BY <2>2
    <3>2. /\ FileValid(file) /\ FileRefers(file) /\ db' = FileTables(file) /\ imported' = file
          /\ \A x \in Range(Steps(file)) : StepCapability(file, x).mode # "unsupported"
      BY <3>1, Zenon DEF Import
    <3>3. TablesInv(FileTables(file)) /\ Built(FileTables(file), file, Range(Steps(file)))
      BY <3>2, FileTablesAre DEF RoutingInv
    <3>4. Taken(FileTables(file), file)
      BY <3>2, <3>3 DEF Taken
    <3> QED BY <3>2, <3>4
  <2> QED BY <1>2, <2>1, <2>2, ImportsAlone
<1> QED
  BY <1>1, <1>2

LEMMA TakenServedAsMeant ==
    ASSUME Taken(db, imported), NEW m, NEW p, NEW i, Only(imported, m, p, i),
           Matching(imported, m, p) = {i}
    PROVE  ServedAsMeant(m, p)
<1>1. PICK meant : meant = ResolveSelected(imported, m, p)
  OBVIOUS
<1>2. PICK found : found = Resolve(db, m, p)
  OBVIOUS
<1>3. PICK binding, held : binding = db.bindings[found.line[1]] /\ held = db.caps[CapKey(binding)]
  OBVIOUS
<1>4. ASSUME meant # None, imported.accounts[meant.primary].enabled
      PROVE  /\ found # NotFound
             /\ found.route[1] = meant.route
             /\ binding.account = meant.primary
             /\ Undisputed(imported, CapKey(binding)) =>
                  /\ held.cap.mode = meant.mode
                  /\ UpstreamProtocol(held, p) = meant.upstream
                  /\ EffectiveFeatures(held.features, AdapterFeatures(held.cap)) = meant.features
                  /\ Degraded(held.features, AdapterFeatures(held.cap)) = meant.degraded
  BY <1>1, <1>2, <1>3, <1>4, CoveredAsMeant
<1> QED
  BY <1>1, <1>2, <1>3, <1>4 DEF ServedAsMeant

\* What an import promises of a model on a protocol.
RowStated(m, p, b) ==
    LET a == b.account
        s == imported.accounts[a].provider
    IN /\ b.upstream = UpstreamModel(imported, a, m)
       /\ Undisputed(imported, CapKey(b)) =>
            db.caps[CapKey(b)] = [status |-> "confirmed",
                                  cap |-> ProtocolCapability(imported, s, a, m, p),
                                  features |-> FeatureCapabilities(imported, s, a, m)]

Answers(m, p, cover, found, route, expected) ==
    /\ cover = {} => found = NotFound
    /\ Cardinality(cover) = 1 =>
         IF expected = <<>> THEN found = NotFound
         ELSE /\ found # NotFound
              /\ found.route[1] = route.id
              /\ Len(found.line) = Len(expected)
              /\ \A n \in DOMAIN expected : /\ db.bindings[found.line[n]].account = expected[n]
                                            /\ RowStated(m, p, db.bindings[found.line[n]])
    /\ Cardinality(cover) = 1 /\ Matching(imported, m, p) = cover => ServedAsMeant(m, p)

LEMMA TakenAnswers ==
    ASSUME Taken(db, imported), NEW m \in LogicalModels, NEW p \in Protocols,
           NEW cover, cover = Covering(imported, m, p),
           NEW found, found = Resolve(db, m, p),
           NEW route, route = imported.routes[CHOOSE i \in cover : TRUE],
           NEW expected, expected = Expected(imported, route)
    PROVE  Answers(m, p, cover, found, route, expected)
<1>1. cover = {} => found = NotFound
  BY UncoveredNotFound
<1>2. ASSUME Cardinality(cover) = 1
      PROVE  \E i : cover = {i} /\ route = imported.routes[i] /\ Only(imported, m, p, i)
  <2>1. cover \subseteq DOMAIN imported.routes
    BY DEF Covering
  <2>2. imported.routes \in Seq(Range(imported.routes))
    BY FilesAssumption DEF Taken
  <2>3. IsFiniteSet(DOMAIN imported.routes)
    <3>1. DOMAIN imported.routes = 1..Len(imported.routes) /\ Len(imported.routes) \in Nat
      BY <2>2
    <3> QED BY <3>1, FS_Interval
  <2>4. IsFiniteSet(cover)
    BY <2>1, <2>3, FS_Subset
  <2>5. PICK i : cover = {i}
    BY <1>2, <2>4, FS_Singleton
  <2>6. (CHOOSE k \in cover : TRUE) = i
    BY <2>5
  <2> QED BY <2>1, <2>5, <2>6 DEF Only
<1>3. ASSUME Cardinality(cover) = 1
      PROVE  /\ expected = <<>> => found = NotFound
             /\ expected # <<>> =>
                  /\ found # NotFound
                  /\ found.route[1] = route.id
                  /\ Len(found.line) = Len(expected)
                  /\ \A n \in DOMAIN expected : /\ db.bindings[found.line[n]].account = expected[n]
                                                /\ RowStated(m, p, db.bindings[found.line[n]])
  <2>1. PICK i : cover = {i} /\ route = imported.routes[i] /\ Only(imported, m, p, i)
    BY <1>2, <1>3
  <2>2. expected = Expected(imported, imported.routes[i])
    BY <2>1
  <2>3. /\ expected = <<>> => found = NotFound
        /\ expected # <<>> => Served(db, imported, m, p, i, expected, found)
    BY <2>1, <2>2, CoveredServed
  <2>4. ASSUME Served(db, imported, m, p, i, expected, found), NEW n \in DOMAIN expected
        PROVE  /\ db.bindings[found.line[n]].account = expected[n]
               /\ RowStated(m, p, db.bindings[found.line[n]])
    <3>1. PICK k, a, s : /\ k = found.line[n] /\ a = db.bindings[k].account
                         /\ s = imported.accounts[a].provider
      OBVIOUS
    <3>2. k \in Mine(db, m, p) /\ a = expected[n] /\ db.bindings[k].upstream = UpstreamModel(imported, a, m)
      BY <2>4, <3>1 DEF Served
    <3>3. ASSUME Undisputed(imported, CapKey(db.bindings[k]))
          PROVE  db.caps[CapKey(db.bindings[k])] =
                   [status |-> "confirmed", cap |-> ProtocolCapability(imported, s, a, m, p),
                    features |-> FeatureCapabilities(imported, s, a, m)]
      <4>1. PICK d, file : d = db /\ file = imported
        OBVIOUS
      <4>2. Taken(d, file) /\ k \in Mine(d, m, p) /\ Undisputed(file, CapKey(d.bindings[k]))
        BY <3>2, <3>3, <4>1
      <4>3. a = d.bindings[k].account /\ s = file.accounts[a].provider
        BY <3>1, <4>1
      <4>4. d.caps[CapKey(d.bindings[k])] =
              [status |-> "confirmed", cap |-> ProtocolCapability(file, s, a, m, p),
               features |-> FeatureCapabilities(file, s, a, m)]
        BY ONLY <4>2, <4>3, CoveredCapability
      <4> QED BY <4>1, <4>4
    <3> QED BY <3>1, <3>2, <3>3 DEF RowStated
  <2> QED BY <2>1, <2>3, <2>4 DEF Served
<1>4. ASSUME Cardinality(cover) = 1, Matching(imported, m, p) = cover PROVE ServedAsMeant(m, p)
  BY <1>2, <1>4, TakenServedAsMeant
<1> QED
  BY <1>1, <1>3, <1>4, Zenon DEF Answers

LEMMA TakenServesTheFile ==
    ASSUME Taken(db, imported)
    PROVE  ImportServesTheFile
<1>1. ASSUME NEW m \in LogicalModels, NEW p \in Protocols
      PROVE  LET cover == Covering(imported, m, p)
                 route == imported.routes[CHOOSE i \in cover : TRUE]
             IN Answers(m, p, cover, Resolve(db, m, p), route, Expected(imported, route))
  BY TakenAnswers
<1> QED
  BY <1>1, Zenon DEF Answers, RowStated, ImportServesTheFile

\* An import serves what the file says (import_gateway_config, the compiler and
\* the resolver): a model and protocol one route covers resolve to that route's
\* enabled accounts in the file's order, under their mapped names and with the
\* file's capabilities; nothing else resolves; and the file's own resolver
\* agrees, for every file and whatever the database held before.
THEOREM RoutingImportServesTheFile == RoutingSpec => []ImportServesTheFile
<1>1. RoutingInit => ImportTaken
  BY DEF RoutingInit, ImportTaken
<1>2. RoutingInv /\ ImportTaken /\ [RoutingNext]_routingVars => ImportTaken'
  <2>1. ASSUME RoutingInv, ImportTaken, [RoutingNext]_routingVars
        PROVE  imported' # None => Taken(db', imported')
    BY <2>1, TakenStep
  <2> QED BY <2>1 DEF ImportTaken
<1>3. ImportTaken => ImportServesTheFile
  <2>1. ASSUME imported = None PROVE ImportServesTheFile
    BY <2>1, Zenon DEF ImportServesTheFile
  <2> QED BY <2>1, TakenServesTheFile DEF ImportTaken
<1> QED
  BY <1>1, <1>2, <1>3, RoutingTablesSound, PTL DEF RoutingSpec

=============================================================================
