-------------------------- MODULE AutomationProofs --------------------------
(***************************************************************************)
(* Proofs about Automation, for any jobs, schedules, request keys, limits  *)
(* and any number of crashes: rows and their Agent Runs agree, a prompt is *)
(* sent once, a row that ended stays as it is, and a lease is only held by *)
(* the scheduler that has its row in hand.                                 *)
(***************************************************************************)
EXTENDS Automation, FiniteSetTheorems, WellFoundedInduction, TLAPS

\* A cursor is unset or an instant.
CursorOK == \A j \in Job : cursor[j] \in Nat \cup {NoTime}

\* A wake belongs to a Host that is up or closing; every process has an owner id
\* of its own, later than those in the rows.
WakeOK ==
    /\ pc # "idle" => host \in {"UP", "CLOSING"}
    /\ Alive => instance > 0
    /\ \A r \in Row : owner[r] <= instance

\* The jobs to materialize are due, and are neither edited nor forgotten meanwhile.
DueOK ==
    /\ asOf \in 0 .. now
    /\ pc \notin {"startup", "materialize"} => due = {}
    /\ \A j \in due : enabled[j] /\ config[j] \in Config /\ cursor[j] \in 0 .. now

InHand == {"submit", "bind", "execute", "waiting", "finish"}

\* The row in hand keeps its status and its owner, whatever happens to its lease.
HandOK ==
    /\ pc \in InHand \cup {"mark"} => cur \in Row /\ owner[cur] = instance
    /\ pc = "mark" => status[cur] = "CLAIMED"
    /\ pc \in InHand => status[cur] = "RUNNING"
    /\ lost /\ pc \in InHand => expires[cur] < now

\* A lease that is valid is that of the row in hand, unless its process crashed.
LeaseOK ==
    \A r \in Row :
        host # "CRASHED" /\ instance > 0 /\ owner[r] = instance /\ expires[r] >= now
            => cur = r /\ pc \in InHand \cup {"mark"}

\* A row that may still be submitted was not, and has no Run.
SubmissionsOK ==
    /\ \A r \in Row : submissions[r] <= 1 /\ (submissions[r] = 0 => agent[r] = "ABSENT")
    /\ \A r \in Row : status[r] \in {"ABSENT", "PENDING", "CLAIMED"} /\ ~linked[r] => submissions[r] = 0
    /\ pc = "submit" => submissions[cur] = 0
    /\ \A r \in Row : linked[r] => agent[r] # "ABSENT"
    /\ \A r \in Row : active[r] # "none" => agent[r] # "ABSENT"
    /\ pc \in {"bind", "execute", "waiting"} => agent[cur] # "ABSENT"

\* The verdict is that of the Run in hand.
VerdictOK ==
    /\ pc = "finish" => verdict \in {"SUCCEEDED", "FAILED"}
    /\ verdict = "SUCCEEDED" => pc = "finish" /\ agent[cur] = "COMPLETED"

\* A row after the present instant was reserved by a request.
ReservedOK ==
    \A r \in Row : r[2] > now /\ status[r] # "ABSENT" => \E k \in Key : request[k] = r

\* The inductive invariant.
AutomationInv ==
    /\ TypeOK /\ CursorOK /\ WakeOK /\ DueOK /\ HandOK /\ LeaseOK
    /\ SubmissionsOK /\ VerdictOK /\ SucceededIsCompleted /\ ReservedOK

\* No step deletes a row or changes one that has ended.
RowStep ==
    \A r \in Row : /\ status[r] \in TerminalRow => status'[r] = status[r]
                   /\ status[r] # "ABSENT" => status'[r] # "ABSENT"

-----------------------------------------------------------------------------
\* A set of natural numbers that is not empty has a least element.
LEMMA MinFacts ==
    ASSUME NEW S, S \subseteq Nat, S # {}
    PROVE  Min(S) \in S /\ \A y \in S : Min(S) <= y
  <1>1. PICK x \in S : \A y \in S : ~(<<y, x>> \in OpToRel(<, Nat))
    BY NatLessThanWellFounded, WFMin
  <1>2. ASSUME NEW y \in S PROVE x <= y
    <2>1. y \in Nat /\ x \in Nat /\ <<y, x>> \in Nat \X Nat
      OBVIOUS
    <2>2. <<y, x>>[1] = y /\ <<y, x>>[2] = x
      OBVIOUS
    <2>3. ~(y < x)
      BY <1>1, <2>1, <2>2, Zenon DEF OpToRel
    <2> QED BY <2>1, <2>3
  <1> QED BY <1>2 DEF Min

LEMMA Multiple == ASSUME NEW p \in Nat \ {0}, NEW a \in Int, a >= 1 PROVE p * a >= p /\ p * a \in Int
  OBVIOUS

\* Every remainder is met once in every period.
LEMMA ModUnique ==
    ASSUME NEW p \in Nat \ {0}, NEW q \in Nat, NEW m \in 0 .. (p - 1)
    PROVE  (p * q + m) % p = m
  <1> DEFINE x == p * q + m
             d == x \div p
             z == x % p
  <1>1. x \in Nat /\ d \in Int /\ z \in 0 .. (p - 1) /\ x = p * d + z
    OBVIOUS
  <1>2. p * (q - d) = z - m /\ p * (d - q) = m - z
    BY <1>1
  <1> HIDE DEF x, d, z
  <1>3. ~(q - d >= 1) /\ ~(d - q >= 1)
    BY <1>1, <1>2, Multiple
  <1>4. q = d
    BY <1>1, <1>3
  <1> QED BY <1>1, <1>4 DEF x, z

LEMMA Division ==
    ASSUME NEW e \in Nat \ {0}, NEW x \in Nat
    PROVE  x \div e \in Nat /\ x % e \in 0 .. (e - 1) /\ x = e * (x \div e) + (x % e)
  <1> DEFINE d == x \div e
             z == x % e
  <1>1. d \in Int /\ z \in 0 .. (e - 1) /\ x = e * d + z
    OBVIOUS
  <1> HIDE DEF d, z
  <1>2. e * (0 - d) = 0 - e * d /\ e * d \in Int
    BY <1>1
  <1>3. ~(0 - d >= 1)
    BY <1>1, <1>2, Multiple
  <1>4. d \in Nat
    BY <1>1, <1>3
  <1>5. d \in Nat /\ z \in 0 .. (e - 1) /\ x = e * d + z
    BY <1>1, <1>4
  <1> QED BY <1>5, Zenon DEF d, z

LEMMA PeriodMeets ==
    ASSUME NEW p \in Nat \ {0}, NEW m \in 0 .. (p - 1), NEW n \in Int, n >= -1
    PROVE  \E t \in n + 1 .. n + p : t % p = m
  <1>1. CASE n = -1
    <2>1. m % p = m
      BY ModUnique
    <2>2. m \in n + 1 .. n + p
      BY <1>1
    <2> QED BY <2>1, <2>2
  <1>2. CASE n \in Nat
    <2> DEFINE q == n \div p
               z == n % p
    <2>1. q \in Nat /\ z \in 0 .. (p - 1) /\ n = p * q + z
      BY <1>2
    <2> HIDE DEF q, z
    <2>2. (p * q + m) % p = m /\ (p * (q + 1) + m) % p = m
      BY <2>1, ModUnique
    <2>3. p * q \in Nat /\ p * (q + 1) = p * q + p
      BY <2>1
    <2>4. CASE z < m
      <3>1. p * q + m \in n + 1 .. n + p
        BY <2>1, <2>3, <2>4
      <3> QED BY <2>2, <3>1
    <2>5. CASE ~(z < m)
      <3>1. p * (q + 1) + m \in n + 1 .. n + p
        BY <2>1, <2>3, <2>5
      <3> QED BY <2>2, <3>1
    <2> QED BY <2>4, <2>5
  <1> QED BY <1>1, <1>2

\* The next occurrence of a schedule is an instant after the given one and none
\* comes before it; when there is none, the schedule has no later occurrence.
LEMMA NextFacts ==
    ASSUME NEW c \in Config, NEW after \in Int, after >= -1
    PROVE  LET n == computeNextScheduledFor(c.schedule, after)
           IN  /\ n \in Nat \cup {NoTime}
               /\ n # NoTime => n > after
               /\ \A t \in Nat : t > after /\ Occurs(c.schedule, t) => n # NoTime /\ n <= t
  <1> DEFINE s == c.schedule
             n == computeNextScheduledFor(s, after)
  <1>1. CASE s.kind = "at"
    BY <1>1, ScheduleAssumption DEF computeNextScheduledFor, Occurs, NoTime
  <1>2. CASE s.kind = "interval"
    <2>1. s.anchor \in Nat /\ s.every \in Nat \ {0}
      BY <1>2, ScheduleAssumption
    <2>2. CASE after < s.anchor
      BY <1>2, <2>1, <2>2 DEF computeNextScheduledFor, Occurs, NoTime
    <2>3. CASE ~(after < s.anchor)
      <3> DEFINE e == s.every
                 d == (after - s.anchor) \div e
                 z == (after - s.anchor) % e
      <3>1. e \in Nat \ {0} /\ d \in Nat /\ z \in 0 .. (e - 1) /\ after - s.anchor = e * d + z
        <4>1. after - s.anchor \in Nat /\ e \in Nat \ {0}
          BY <2>1, <2>3
        <4> QED BY <4>1, Division
      <3>2. n = s.anchor + (d + 1) * e
        BY <1>2, <2>1, <2>3 DEF computeNextScheduledFor
      <3> HIDE DEF d, z, e, n
      <3>3. (d + 1) * e = e * d + e /\ e * d \in Nat
        BY <3>1
      <3>4. n \in Nat /\ n > after
        BY <2>1, <3>1, <3>2, <3>3
      <3>5. ASSUME NEW t \in Nat, t > after, Occurs(s, t) PROVE n <= t
        <4> DEFINE q == (t - s.anchor) \div e
        <4>1. t >= s.anchor /\ (t - s.anchor) % e = 0
          BY <1>2, <3>5 DEF Occurs, e
        <4>2. q \in Int /\ t - s.anchor = e * q
          <5>1. t - s.anchor \in Nat
            BY <2>1, <4>1
          <5>2. q \in Nat /\ t - s.anchor = e * q + ((t - s.anchor) % e)
            BY <3>1, <5>1, Division
          <5> HIDE DEF q
          <5>3. e * q \in Nat
            BY <3>1, <5>2
          <5>4. t - s.anchor = e * q + 0
            BY <4>1, <5>2, Zenon
          <5> QED BY <5>2, <5>3, <5>4
        <4> HIDE DEF q
        <4>3. e * (q - d) = e * q - e * d /\ e * (d - q) = e * d - e * q /\ e * (q - d) > 0
          BY <2>1, <3>1, <3>5, <4>2
        <4>4. ~(d - q >= 1) /\ q # d
          BY <3>1, <4>2, <4>3, Multiple
        <4>5. e * (q - d) >= e
          BY <3>1, <4>2, <4>4, Multiple
        <4> QED BY <2>1, <3>1, <3>2, <3>3, <4>2, <4>3, <4>5
      <3> QED BY <3>4, <3>5 DEF n, NoTime
    <2> QED BY <2>2, <2>3
  <1>3. CASE s.kind = "cron"
    <2> DEFINE T == {t \in after + 1 .. after + s.period : t % s.period \in s.matches}
    <2>1. /\ s.period \in Nat \ {0} /\ s.matches # {}
          /\ s.matches \subseteq 0 .. (s.period - 1)
      BY <1>3, ScheduleAssumption
    <2>2. PICK m \in 0 .. (s.period - 1) : m \in s.matches
      BY <2>1
    <2>3. PICK t \in after + 1 .. after + s.period : t % s.period = m
      BY <2>1, <2>2, PeriodMeets
    <2>4. T # {} /\ T \subseteq Nat /\ \A u \in T : u > after /\ u <= after + s.period
      BY <2>1, <2>2, <2>3
    <2>5. n = Min(T)
      BY <1>3 DEF computeNextScheduledFor
    <2>6. \A u \in Nat : u > after /\ Occurs(s, u) /\ u <= after + s.period => u \in T
      BY <1>3, <2>1 DEF Occurs
    <2> HIDE DEF T, n
    <2>7. n \in T /\ \A u \in T : n <= u
      BY <2>4, <2>5, MinFacts
    <2>8. ASSUME NEW u \in Nat, u > after, Occurs(s, u) PROVE n <= u
      <3>1. CASE u <= after + s.period
        BY <2>6, <2>7, <2>8, <3>1
      <3>2. CASE ~(u <= after + s.period)
        <4>1. n \in Nat /\ n <= after + s.period /\ s.period \in Nat
          BY <2>1, <2>4, <2>7
        <4> QED BY <3>2, <4>1
      <3> QED BY <3>1, <3>2
    <2>9. n \in Nat /\ n > after
      BY <2>4, <2>7
    <2> QED BY <2>8, <2>9 DEF n, NoTime
  <1> QED BY <1>1, <1>2, <1>3, ScheduleAssumption

LEMMA NextTyped ==
    ASSUME NEW c \in Config, NEW after \in Nat
    PROVE  computeNextScheduledFor(c.schedule, after) \in Nat \cup {NoTime}
  BY NextFacts

LEMMA RowFacts == \A r \in Row : r[1] \in Job /\ r[2] \in Nat /\ r[2] \in Instant
  <1>1. Instant \subseteq Nat
    BY DEF Instant
  <1> QED BY <1>1 DEF Row

\* While a key is unused, the job has an instant from now on that no row holds:
\* the rows after now were reserved by other keys.
LEMMA ReservedFree ==
    ASSUME TypeOK, ReservedOK, NEW j \in Job, NEW k \in Key, request[k] = NoRow
    PROVE  /\ ReservedInstant(j) \in Instant
           /\ status[<<j, ReservedInstant(j)>>] = "ABSENT"
  <1> DEFINE n == Cardinality(Key)
             T == now + 1 .. MaxTime + n
             free == {t \in Instant : t >= now /\ status[<<j, t>>] = "ABSENT"}
             f == [t \in T |-> CHOOSE q \in Key : request[q] = <<j, t>>]
  <1>1. IsFiniteSet(Key) /\ n \in Nat /\ n > 0 /\ MaxTime \in Nat
    <2>1. IsFiniteSet(Key) /\ MaxTime \in Nat
      BY AutomationAssumption
    <2>2. n \in Nat /\ n # 0
      BY <2>1, FS_CardinalityType, FS_EmptySet
    <2> QED BY <2>1, <2>2
  <1>2. now \in 0 .. MaxTime
    BY DEF TypeOK, Time
  <1> HIDE DEF n
  <1>3. T \subseteq Instant /\ (\A t \in T : t > now) /\ free \subseteq Nat
    BY <1>1, <1>2 DEF Instant, n
  <1>4. IsFiniteSet(T) /\ Cardinality(T) >= n
    <2>1. now + 1 \in Int /\ MaxTime + n \in Int /\ ~(now + 1 > MaxTime + n)
      BY <1>1, <1>2
    <2>2. IsFiniteSet(T) /\ Cardinality(T) = (MaxTime + n) - (now + 1) + 1
      BY <2>1, FS_Interval
    <2> QED BY <2>2, <1>1, <1>2
  <1>5. IsFiniteSet(Key \ {k}) /\ Cardinality(Key \ {k}) = n - 1
    BY <1>1, FS_RemoveElement DEF n
  <1>6. free # {}
    <2> SUFFICES ASSUME free = {} PROVE FALSE
      OBVIOUS
    <2>1. ASSUME NEW t \in T PROVE \E q \in Key \ {k} : request[q] = <<j, t>>
      <3>1. status[<<j, t>>] # "ABSENT"
        BY <1>2, <1>3
      <3>2. PICK q \in Key : request[q] = <<j, t>>
        <4>1. <<j, t>> \in Row /\ <<j, t>>[2] > now
          BY <1>3 DEF Row
        <4> QED BY <3>1, <4>1 DEF ReservedOK
      <3>3. <<j, t>> # NoRow
        BY <1>3, AutomationAssumption DEF Instant
      <3> QED BY <3>2, <3>3
    <2>2. f \in [T -> Key \ {k}] /\ \A t \in T : request[f[t]] = <<j, t>>
      <3>1. \A t \in T : f[t] \in Key /\ request[f[t]] = <<j, t>>
        BY <2>1
      <3>2. \A t \in T : <<j, t>> # NoRow
        BY <1>3, AutomationAssumption DEF Instant
      <3> QED BY <3>1, <3>2
    <2> HIDE DEF f, T
    <2>3. PICK x, y \in T : x # y /\ f[x] = f[y]
      BY <2>2, <1>1, <1>4, <1>5, FS_CardinalityType, FS_PigeonHole
    <2> QED BY <2>2, <2>3
  <1>7. ReservedInstant(j) = Min(free)
    BY DEF ReservedInstant
  <1> HIDE DEF free
  <1>8. ReservedInstant(j) \in free
    BY <1>3, <1>6, <1>7, MinFacts
  <1> QED BY <1>8 DEF free


\* The plan of a job that is due concerns instants up to now.
LEMMA PlanFacts ==
    ASSUME AutomationInv, NEW j \in due
    PROVE  LET plan == IF pc = "startup" THEN startupPlan(j, asOf) ELSE regularPlan(j)
           IN  /\ plan.next \in Nat \cup {NoTime}
               /\ \A r \in Row : r[2] \in plan.pending \cup plan.skipped => r[2] <= now
  <1>1. /\ config[j] \in Config /\ cursor[j] \in Nat /\ cursor[j] <= now
        /\ now \in Nat /\ asOf \in Int /\ asOf <= now
    BY AutomationAssumption DEF AutomationInv, DueOK, TypeOK, Time
  <1>2. CASE pc # "startup"
    <2>1. /\ regularPlan(j).next \in Nat \cup {NoTime}
          /\ regularPlan(j).pending = {cursor[j]} /\ regularPlan(j).skipped = {}
      BY <1>1, NextTyped DEF regularPlan, Plan
    <2> QED BY <1>1, <1>2, <2>1
  <1>3. CASE pc = "startup"
    <2> DEFINE c == config[j]
               missed == Overdue(c.schedule, cursor[j] - 1, asOf)
               oldest == {t \in missed : Cardinality({u \in missed : u < t}) < c.limit}
               future == computeNextScheduledFor(c.schedule, asOf)
    <2>1. asOf \in Nat
      BY <1>3 DEF AutomationInv, DueOK
    <2>2. future \in Nat \cup {NoTime}
      BY <1>1, <2>1, NextTyped
    <2>3. \A t \in oldest : t \in Int /\ t <= now
      BY <1>1 DEF Overdue
    <2>4. \/ startupPlan(j, asOf) = Plan({}, {cursor[j]}, future)
          \/ startupPlan(j, asOf) = Plan({cursor[j]}, {}, future)
          \/ startupPlan(j, asOf) = Plan(oldest, {}, future)
      BY <1>1, ScheduleAssumption DEF startupPlan
    <2> HIDE DEF c, missed, oldest, future
    <2> QED BY <1>1, <1>3, <2>2, <2>3, <2>4 DEF Plan
  <1> QED BY <1>2, <1>3

\* The instant of the next wake.
LEMMA NextWakeTyped == ASSUME TypeOK, CursorOK PROVE nextWakeAt \in Int
  <1> DEFINE cursors == {cursor[j] : j \in {k \in Job : enabled[k] /\ cursor[k] # NoTime}}
  <1>1. cursors \subseteq Nat
    BY DEF CursorOK
  <1>2. nextWakeAt = IF Pending # {} THEN now ELSE IF cursors # {} THEN Min(cursors) ELSE NoTime
    BY DEF nextWakeAt
  <1>3. now \in Int
    BY DEF TypeOK, Time
  <1> HIDE DEF cursors
  <1>4. cursors # {} => Min(cursors) \in Nat
    BY <1>1, MinFacts
  <1> QED BY <1>2, <1>3, <1>4 DEF NoTime
















-----------------------------------------------------------------------------
\* One lemma per action: it keeps the invariant and the rows that have ended.
\* The parts of the invariant are taken from it, then what the step does, and each
\* part is shown to hold after it.

\* Time passes: leases end, nothing else.
LEMMA TickInv == ASSUME AutomationInv, Tick PROVE AutomationInv' /\ RowStep
  <1>1. /\ TypeOK /\ CursorOK /\ WakeOK /\ DueOK /\ HandOK /\ LeaseOK
        /\ SubmissionsOK /\ VerdictOK /\ SucceededIsCompleted /\ ReservedOK
    BY DEF AutomationInv
  <1>2. /\ now < MaxTime /\ now' = now + 1
        /\ UNCHANGED <<config, enabled, cursor, since, edits, status, owner, expires, linked,
                       request, agent, resumable, waits, submissions, host, instance, downs,
                       timer, pc, asOf, due, cur, claimed, fresh, lost, verdict, active, abort>>
    BY DEF Tick, jobVars, rowVars, runVars, hostVars, wakeVars, coordVars
  <1>3. now \in Nat /\ now' \in Time
    BY <1>1, <1>2, AutomationAssumption DEF TypeOK, Time
  <1>4. TypeOK'
    BY <1>1, <1>2, <1>3 DEF TypeOK, Time
  <1>5. CursorOK'
    BY <1>1, <1>2, <1>3 DEF CursorOK
  <1>6. WakeOK'
    BY <1>1, <1>2, <1>3 DEF WakeOK, Alive
  <1>7. DueOK'
    BY <1>1, <1>2, <1>3 DEF DueOK, TypeOK
  <1>8. HandOK'
    BY <1>1, <1>2, <1>3 DEF HandOK, InHand, TypeOK
  <1>9. LeaseOK'
    BY <1>1, <1>2, <1>3 DEF LeaseOK, InHand, TypeOK
  <1>10. SubmissionsOK'
    BY <1>1, <1>2, <1>3 DEF SubmissionsOK
  <1>11. VerdictOK'
    BY <1>1, <1>2, <1>3 DEF VerdictOK
  <1>12. SucceededIsCompleted'
    BY <1>1, <1>2, <1>3 DEF SucceededIsCompleted
  <1>13. ReservedOK'
    BY <1>1, <1>2, <1>3, RowFacts DEF ReservedOK
  <1>14. RowStep
    BY <1>1, <1>2, <1>3 DEF RowStep, TerminalRow
  <1> QED BY <1>4, <1>5, <1>6, <1>7, <1>8, <1>9, <1>10, <1>11, <1>12, <1>13, <1>14 DEF AutomationInv

\* A wake begins, or the one in progress is shared.
LEMMA TimerFiresInv == ASSUME AutomationInv, TimerFires PROVE AutomationInv' /\ RowStep
  <1>1. /\ TypeOK /\ CursorOK /\ WakeOK /\ DueOK /\ HandOK /\ LeaseOK
        /\ SubmissionsOK /\ VerdictOK /\ SucceededIsCompleted /\ ReservedOK
    BY DEF AutomationInv
  <1>2. /\ host = "UP" /\ pc \in {"idle", "waiting"}
        /\ \/ pc = "idle" /\ pc' = "list" /\ timer' = NoTime
           \/ UNCHANGED <<pc, timer>>
        /\ UNCHANGED <<now, config, enabled, cursor, since, edits, status, owner, expires,
                       linked, request, agent, resumable, waits, submissions, host, instance,
                       downs, asOf, due, cur, claimed, fresh, lost, verdict, active, abort>>
    BY DEF TimerFires, Free, Wake, jobVars, rowVars, runVars, hostVars, wakeVars, coordVars
  <1>3. TypeOK'
    BY <1>1, <1>2 DEF TypeOK, Time, NoTime
  <1>4. CursorOK'
    BY <1>1, <1>2 DEF CursorOK
  <1>5. WakeOK'
    BY <1>1, <1>2 DEF WakeOK, Alive
  <1>6. DueOK'
    BY <1>1, <1>2 DEF DueOK
  <1>7. HandOK'
    BY <1>1, <1>2 DEF HandOK, InHand
  <1>8. LeaseOK'
    BY <1>1, <1>2 DEF LeaseOK, InHand
  <1>9. SubmissionsOK'
    BY <1>1, <1>2 DEF SubmissionsOK
  <1>10. VerdictOK'
    BY <1>1, <1>2 DEF VerdictOK
  <1>11. SucceededIsCompleted'
    BY <1>1, <1>2 DEF SucceededIsCompleted
  <1>12. ReservedOK'
    BY <1>1, <1>2 DEF ReservedOK
  <1>13. RowStep
    BY <1>1, <1>2 DEF RowStep, TerminalRow
  <1> QED BY <1>3, <1>4, <1>5, <1>6, <1>7, <1>8, <1>9, <1>10, <1>11, <1>12, <1>13 DEF AutomationInv

\* The jobs that are listed are due.
LEMMA ListDueJobsInv == ASSUME AutomationInv, ListDueJobs PROVE AutomationInv' /\ RowStep
  <1>1. /\ TypeOK /\ CursorOK /\ WakeOK /\ DueOK /\ HandOK /\ LeaseOK
        /\ SubmissionsOK /\ VerdictOK /\ SucceededIsCompleted /\ ReservedOK
    BY DEF AutomationInv
  <1>2. /\ pc = "list" /\ pc' = "materialize"
        /\ due' \subseteq {j \in Job : IsDue(j)}
        /\ UNCHANGED <<now, config, enabled, cursor, since, edits, status, owner, expires,
                       linked, request, agent, resumable, waits, submissions, host, instance,
                       downs, timer, asOf, cur, claimed, fresh, lost, verdict, active, abort>>
    BY DEF ListDueJobs, ListedDue, jobVars, rowVars, runVars, hostVars, wakeVars, coordVars
  <1>3. TypeOK'
    BY <1>1, <1>2 DEF TypeOK, Time
  <1>4. CursorOK'
    BY <1>1, <1>2 DEF CursorOK
  <1>5. WakeOK'
    BY <1>1, <1>2 DEF WakeOK, Alive
  <1>6. DueOK'
    BY <1>1, <1>2 DEF DueOK, CursorOK, TypeOK, IsDue, NoTime
  <1>7. HandOK'
    BY <1>1, <1>2 DEF HandOK, InHand
  <1>8. LeaseOK'
    BY <1>1, <1>2 DEF LeaseOK, InHand
  <1>9. SubmissionsOK'
    BY <1>1, <1>2 DEF SubmissionsOK
  <1>10. VerdictOK'
    BY <1>1, <1>2 DEF VerdictOK
  <1>11. SucceededIsCompleted'
    BY <1>1, <1>2 DEF SucceededIsCompleted
  <1>12. ReservedOK'
    BY <1>1, <1>2 DEF ReservedOK
  <1>13. RowStep
    BY <1>1, <1>2 DEF RowStep, TerminalRow
  <1> QED BY <1>3, <1>4, <1>5, <1>6, <1>7, <1>8, <1>9, <1>10, <1>11, <1>12, <1>13 DEF AutomationInv

\* The jobs are materialized.
LEMMA MaterializedInv == ASSUME AutomationInv, Materialized PROVE AutomationInv' /\ RowStep
  <1>1. /\ TypeOK /\ CursorOK /\ WakeOK /\ DueOK /\ HandOK /\ LeaseOK
        /\ SubmissionsOK /\ VerdictOK /\ SucceededIsCompleted /\ ReservedOK
    BY DEF AutomationInv
  <1>2. /\ pc \in {"startup", "materialize"} /\ due = {} /\ pc' \in {"arm", "claim"}
        /\ UNCHANGED <<now, config, enabled, cursor, since, edits, status, owner, expires,
                       linked, request, agent, resumable, waits, submissions, host, instance,
                       downs, timer, asOf, due, cur, claimed, fresh, lost, verdict, active,
                       abort>>
    BY DEF Materialized, jobVars, rowVars, runVars, hostVars, wakeVars, coordVars
  <1>3. TypeOK'
    BY <1>1, <1>2 DEF TypeOK, Time
  <1>4. CursorOK'
    BY <1>1, <1>2 DEF CursorOK
  <1>5. WakeOK'
    BY <1>1, <1>2 DEF WakeOK, Alive
  <1>6. DueOK'
    BY <1>1, <1>2 DEF DueOK
  <1>7. HandOK'
    BY <1>1, <1>2 DEF HandOK, InHand
  <1>8. LeaseOK'
    BY <1>1, <1>2 DEF LeaseOK, InHand
  <1>9. SubmissionsOK'
    BY <1>1, <1>2 DEF SubmissionsOK
  <1>10. VerdictOK'
    BY <1>1, <1>2 DEF VerdictOK
  <1>11. SucceededIsCompleted'
    BY <1>1, <1>2 DEF SucceededIsCompleted
  <1>12. ReservedOK'
    BY <1>1, <1>2 DEF ReservedOK
  <1>13. RowStep
    BY <1>1, <1>2 DEF RowStep, TerminalRow
  <1> QED BY <1>3, <1>4, <1>5, <1>6, <1>7, <1>8, <1>9, <1>10, <1>11, <1>12, <1>13 DEF AutomationInv

\* A pending row is claimed: no other row is in hand.
LEMMA ClaimRunInv == ASSUME AutomationInv, ClaimRun PROVE AutomationInv' /\ RowStep
  <1>1. /\ TypeOK /\ CursorOK /\ WakeOK /\ DueOK /\ HandOK /\ LeaseOK
        /\ SubmissionsOK /\ VerdictOK /\ SucceededIsCompleted /\ ReservedOK
    BY DEF AutomationInv
  <1>2. /\ pc = "claim" /\ pc' = "mark" /\ claimed < RunLimit /\ claimed' = claimed + 1
        /\ cur' \in Row /\ status[cur'] = "PENDING"
        /\ status' = [status EXCEPT ![cur'] = "CLAIMED"]
        /\ owner' = [owner EXCEPT ![cur'] = instance]
        /\ expires' = [expires EXCEPT ![cur'] = now + Lease]
        /\ UNCHANGED <<now, config, enabled, cursor, since, edits, linked, request, agent,
                       resumable, waits, submissions, host, instance, downs, timer, asOf, due,
                       fresh, lost, verdict, active, abort>>
    BY DEF ClaimRun, Pending, jobVars, rowVars, runVars, hostVars, wakeVars, coordVars
  <1>3. /\ now \in Nat /\ instance \in Nat /\ Lease \in Nat
        /\ status' \in [Row -> RowStatus]
        /\ owner' \in [Row -> Nat]
        /\ expires' \in [Row -> Int]
        /\ \A r \in Row : /\ status'[r] = IF r = cur' THEN "CLAIMED" ELSE status[r]
                          /\ owner'[r] = IF r = cur' THEN instance ELSE owner[r]
                          /\ expires'[r] = IF r = cur' THEN now + Lease ELSE expires[r]
    BY <1>1, <1>2, AutomationAssumption DEF TypeOK, RowStatus, RunStatus, Time, NoTime
  <1>4. TypeOK'
    BY <1>1, <1>2, <1>3, AutomationAssumption DEF TypeOK
  <1>5. CursorOK'
    BY <1>1, <1>2, <1>3 DEF CursorOK
  <1>6. WakeOK'
    BY <1>1, <1>2, <1>3 DEF WakeOK, Alive
  <1>7. DueOK'
    BY <1>1, <1>2, <1>3 DEF DueOK
  <1>8. HandOK'
    BY <1>1, <1>2, <1>3 DEF HandOK, InHand
  <1>9. LeaseOK'
    BY <1>1, <1>2, <1>3 DEF LeaseOK, InHand
  <1>10. SubmissionsOK'
    BY <1>1, <1>2, <1>3 DEF SubmissionsOK
  <1>11. VerdictOK'
    BY <1>1, <1>2, <1>3 DEF VerdictOK
  <1>12. SucceededIsCompleted'
    BY <1>1, <1>2, <1>3 DEF SucceededIsCompleted
  <1>13. ReservedOK'
    BY <1>1, <1>2, <1>3 DEF ReservedOK, Row
  <1>14. RowStep
    BY <1>1, <1>2, <1>3 DEF RowStep, TerminalRow
  <1> QED BY <1>4, <1>5, <1>6, <1>7, <1>8, <1>9, <1>10, <1>11, <1>12, <1>13, <1>14 DEF AutomationInv

\* The wake has nothing more to claim.
LEMMA NothingToClaimInv == ASSUME AutomationInv, NothingToClaim PROVE AutomationInv' /\ RowStep
  <1>1. /\ TypeOK /\ CursorOK /\ WakeOK /\ DueOK /\ HandOK /\ LeaseOK
        /\ SubmissionsOK /\ VerdictOK /\ SucceededIsCompleted /\ ReservedOK
    BY DEF AutomationInv
  <1>2. /\ pc = "claim" /\ pc' = "arm"
        /\ UNCHANGED <<now, config, enabled, cursor, since, edits, status, owner, expires,
                       linked, request, agent, resumable, waits, submissions, host, instance,
                       downs, timer, asOf, due, cur, claimed, fresh, lost, verdict, active,
                       abort>>
    BY DEF NothingToClaim, jobVars, rowVars, runVars, hostVars, wakeVars, coordVars
  <1>3. TypeOK'
    BY <1>1, <1>2 DEF TypeOK, Time
  <1>4. CursorOK'
    BY <1>1, <1>2 DEF CursorOK
  <1>5. WakeOK'
    BY <1>1, <1>2 DEF WakeOK, Alive
  <1>6. DueOK'
    BY <1>1, <1>2 DEF DueOK
  <1>7. HandOK'
    BY <1>1, <1>2 DEF HandOK, InHand
  <1>8. LeaseOK'
    BY <1>1, <1>2 DEF LeaseOK, InHand
  <1>9. SubmissionsOK'
    BY <1>1, <1>2 DEF SubmissionsOK
  <1>10. VerdictOK'
    BY <1>1, <1>2 DEF VerdictOK
  <1>11. SucceededIsCompleted'
    BY <1>1, <1>2 DEF SucceededIsCompleted
  <1>12. ReservedOK'
    BY <1>1, <1>2 DEF ReservedOK
  <1>13. RowStep
    BY <1>1, <1>2 DEF RowStep, TerminalRow
  <1> QED BY <1>3, <1>4, <1>5, <1>6, <1>7, <1>8, <1>9, <1>10, <1>11, <1>12, <1>13 DEF AutomationInv

\* Rows are inserted up to now, and where there was none.
LEMMA MaterializeDueJobInv ==
    ASSUME AutomationInv, NEW j \in Job, MaterializeDueJob(j) PROVE AutomationInv' /\ RowStep
  <1>1. /\ TypeOK /\ CursorOK /\ WakeOK /\ DueOK /\ HandOK /\ LeaseOK
        /\ SubmissionsOK /\ VerdictOK /\ SucceededIsCompleted /\ ReservedOK
    BY DEF AutomationInv
  <1>2. /\ pc \in {"startup", "materialize"} /\ j \in due /\ due' = due \ {j}
        /\ status' \in [Row -> RowStatus]
        /\ \A r \in Row : \/ status'[r] = status[r]
                          \/ status[r] = "ABSENT" /\ status'[r] \in {"PENDING", "SKIPPED"} /\ r[2] <= now
        /\ \E x \in Nat \cup {NoTime} : cursor' = [cursor EXCEPT ![j] = x]
        /\ UNCHANGED <<now, config, enabled, since, edits, owner, expires, linked, request,
                       agent, resumable, waits, submissions, host, instance, downs, timer, pc,
                       asOf, cur, claimed, fresh, lost, verdict, active, abort>>
    <2> DEFINE plan == IF pc = "startup" THEN startupPlan(j, asOf) ELSE regularPlan(j)
               rows(S) == {r \in Row : r[1] = j /\ r[2] \in S /\ status[r] = "ABSENT"}
    <2>1. /\ pc \in {"startup", "materialize"} /\ j \in due /\ due' = due \ {j}
          /\ status' = [r \in Row |-> IF r \in rows(plan.pending) THEN "PENDING"
                                      ELSE IF r \in rows(plan.skipped) THEN "SKIPPED"
                                      ELSE status[r]]
          /\ cursor' = [cursor EXCEPT ![j] = plan.next]
      BY DEF MaterializeDueJob
    <2>2. /\ plan.next \in Nat \cup {NoTime}
          /\ \A r \in Row : r[2] \in plan.pending \cup plan.skipped => r[2] <= now
      BY <2>1, PlanFacts
    <2>3. status \in [Row -> RowStatus]
      BY <1>1 DEF TypeOK
    <2> HIDE DEF plan
    <2>4. /\ status' \in [Row -> RowStatus]
          /\ \A r \in Row : \/ status'[r] = status[r]
                            \/ status[r] = "ABSENT" /\ status'[r] \in {"PENDING", "SKIPPED"} /\ r[2] <= now
      <3>1. \A r \in Row : status'[r] = IF r \in rows(plan.pending) THEN "PENDING"
                                         ELSE IF r \in rows(plan.skipped) THEN "SKIPPED"
                                         ELSE status[r]
        BY <2>1
      <3>2. \A r \in Row : r \in rows(plan.pending) \/ r \in rows(plan.skipped)
                => status[r] = "ABSENT" /\ r[2] <= now
        BY <2>2
      <3>3. status' \in [Row -> RowStatus]
        BY <2>1, <2>3 DEF RowStatus
      <3> HIDE DEF rows
      <3>4. ASSUME NEW r \in Row
            PROVE  \/ status'[r] = status[r]
                   \/ status[r] = "ABSENT" /\ status'[r] \in {"PENDING", "SKIPPED"} /\ r[2] <= now
        BY <3>1, <3>2
      <3> QED BY <3>3, <3>4
    <2>5. UNCHANGED <<now, config, enabled, since, edits, owner, expires, linked, request, agent,
                      resumable, waits, submissions, host, instance, downs, timer, pc, asOf, cur,
                      claimed, fresh, lost, verdict, active, abort>>
      BY DEF MaterializeDueJob, jobVars, rowVars, runVars, hostVars, wakeVars, coordVars
    <2> QED BY <2>1, <2>2, <2>4, <2>5
  <1>3. TypeOK'
    <2>1. cursor' \in [Job -> Int] /\ due' \subseteq Job
      BY <1>1, <1>2 DEF TypeOK, NoTime
    <2>2. \A k \in Job : cursor'[k] # NoTime => enabled[k] /\ config[k] # NoConfig
      BY <1>1, <1>2, AutomationAssumption DEF TypeOK, DueOK
    <2> QED BY <1>1, <1>2, <2>1, <2>2 DEF TypeOK, Time
  <1>4. CursorOK'
    BY <1>1, <1>2 DEF CursorOK
  <1>5. WakeOK'
    BY <1>1, <1>2 DEF WakeOK, Alive
  <1>6. DueOK'
    BY <1>1, <1>2 DEF DueOK
  <1>7. HandOK'
    BY <1>1, <1>2 DEF HandOK, InHand
  <1>8. LeaseOK'
    BY <1>1, <1>2 DEF LeaseOK, InHand
  <1>9. SubmissionsOK'
    BY <1>1, <1>2 DEF SubmissionsOK
  <1>10. VerdictOK'
    BY <1>1, <1>2 DEF VerdictOK
  <1>11. SucceededIsCompleted'
    BY <1>1, <1>2 DEF SucceededIsCompleted
  <1>12. ReservedOK'
    BY <1>1, <1>2, RowFacts DEF ReservedOK, TypeOK, Time
  <1>13. RowStep
    BY <1>1, <1>2 DEF RowStep, TerminalRow
  <1> QED BY <1>3, <1>4, <1>5, <1>6, <1>7, <1>8, <1>9, <1>10, <1>11, <1>12, <1>13 DEF AutomationInv

\* The claim is turned into a lease for the execution, unless it expired.
LEMMA markRunRunningInv == ASSUME AutomationInv, markRunRunning PROVE AutomationInv' /\ RowStep
  <1>1. /\ TypeOK /\ CursorOK /\ WakeOK /\ DueOK /\ HandOK /\ LeaseOK
        /\ SubmissionsOK /\ VerdictOK /\ SucceededIsCompleted /\ ReservedOK
    BY DEF AutomationInv
  <1>2. /\ pc = "mark" /\ lost' = FALSE
        /\ \/ /\ Leased({"CLAIMED"})
              /\ status' = [status EXCEPT ![cur] = "RUNNING"]
              /\ expires' = [expires EXCEPT ![cur] = now + Lease]
              /\ fresh' = ~linked[cur]
              /\ pc' = IF linked[cur] THEN "execute" ELSE "submit"
              /\ verdict' = verdict
           \/ /\ ~Leased({"CLAIMED"})
              /\ verdict' = "LOST" /\ pc' = "arm" /\ UNCHANGED <<status, expires, fresh>>
        /\ UNCHANGED <<now, config, enabled, cursor, since, edits, owner, linked, request, agent,
                       resumable, waits, submissions, host, instance, downs, timer, asOf, due,
                       cur, claimed, active, abort>>
    BY DEF markRunRunning, jobVars, rowVars, runVars, hostVars, wakeVars, coordVars
  <1>3. /\ now \in Nat /\ instance \in Nat /\ Lease \in Nat /\ cur \in Row
        /\ status' \in [Row -> RowStatus] /\ expires' \in [Row -> Int]
        /\ \A r \in Row : r # cur => status'[r] = status[r] /\ expires'[r] = expires[r]
        /\ pc' = "arm" => UNCHANGED <<status, expires>> /\ expires[cur] < now
        /\ pc' # "arm" => status'[cur] = "RUNNING"
        /\ pc' \in {"arm", "execute", "submit"} /\ fresh' \in BOOLEAN
    <2>1. /\ now \in Nat /\ instance \in Nat /\ Lease \in Nat /\ cur \in Row
          /\ status \in [Row -> RowStatus] /\ expires \in [Row -> Int]
          /\ owner[cur] = instance /\ status[cur] = "CLAIMED"
      BY <1>1, <1>2, AutomationAssumption DEF TypeOK, HandOK, Time
    <2>2. pc' \in {"arm", "execute", "submit"}
      BY <1>2
    <2>3. fresh' \in BOOLEAN
      BY <1>1, <1>2, Zenon DEF TypeOK
    <2>4. pc' = "arm" => UNCHANGED <<status, expires>> /\ expires[cur] < now
      BY <2>1, <1>2 DEF Leased
    <2> QED BY <2>1, <2>2, <2>3, <2>4, <1>2 DEF RowStatus
  <1>4. TypeOK'
    BY <1>1, <1>2, <1>3, AutomationAssumption DEF TypeOK
  <1>5. CursorOK'
    BY <1>1, <1>2, <1>3 DEF CursorOK
  <1>6. WakeOK'
    BY <1>1, <1>2, <1>3 DEF WakeOK, Alive
  <1>7. DueOK'
    BY <1>1, <1>2, <1>3 DEF DueOK
  <1>8. HandOK'
    BY <1>1, <1>2, <1>3 DEF HandOK, InHand
  <1>9. LeaseOK'
    BY <1>1, <1>2, <1>3 DEF LeaseOK, InHand
  <1>10. SubmissionsOK'
    BY <1>1, <1>2, <1>3 DEF SubmissionsOK, HandOK, InHand
  <1>11. VerdictOK'
    BY <1>1, <1>2, <1>3 DEF VerdictOK, HandOK, InHand
  <1>12. SucceededIsCompleted'
    BY <1>1, <1>2, <1>3 DEF SucceededIsCompleted, HandOK, InHand
  <1>13. ReservedOK'
    BY <1>1, <1>2, <1>3 DEF ReservedOK, HandOK, InHand
  <1>14. RowStep
    BY <1>1, <1>2, <1>3 DEF RowStep, TerminalRow, HandOK, InHand
  <1> QED BY <1>4, <1>5, <1>6, <1>7, <1>8, <1>9, <1>10, <1>11, <1>12, <1>13, <1>14 DEF AutomationInv

\* The Run of the row in hand is the first one that is sent for it.
LEMMA SubmitInv == ASSUME AutomationInv, Submit PROVE AutomationInv' /\ RowStep
  <1>1. /\ TypeOK /\ CursorOK /\ WakeOK /\ DueOK /\ HandOK /\ LeaseOK
        /\ SubmissionsOK /\ VerdictOK /\ SucceededIsCompleted /\ ReservedOK
    BY DEF AutomationInv
  <1>2. /\ pc = "submit"
        /\ \/ /\ agent' = [agent EXCEPT ![cur] = "CREATED"]
              /\ submissions' = [submissions EXCEPT ![cur] = @ + 1]
              /\ pc' = "bind" /\ verdict' = verdict
           \/ verdict' = "FAILED" /\ pc' = "finish" /\ UNCHANGED <<agent, submissions>>
        /\ UNCHANGED <<now, config, enabled, cursor, since, edits, status, owner, expires,
                       linked, request, resumable, waits, host, instance, downs, timer, asOf,
                       due, cur, claimed, fresh, lost, active, abort>>
    BY DEF Submit, jobVars, rowVars, runVars, hostVars, wakeVars, coordVars
  <1>3. /\ now \in Nat /\ instance \in Nat /\ Lease \in Nat /\ cur \in Row
        /\ agent' \in [Row -> RunStatus] /\ submissions' \in [Row -> Nat]
        /\ \A r \in Row : r # cur => agent'[r] = agent[r] /\ submissions'[r] = submissions[r]
        /\ pc' = "bind" => agent'[cur] = "CREATED" /\ submissions'[cur] = 1
        /\ pc' = "finish" => UNCHANGED <<agent, submissions>>
    BY <1>1, <1>2, AutomationAssumption DEF TypeOK, HandOK, InHand, Time, SubmissionsOK, RunStatus
  <1>4. TypeOK'
    BY <1>1, <1>2, <1>3, AutomationAssumption DEF TypeOK
  <1>5. CursorOK'
    BY <1>1, <1>2, <1>3 DEF CursorOK
  <1>6. WakeOK'
    BY <1>1, <1>2, <1>3 DEF WakeOK, Alive
  <1>7. DueOK'
    BY <1>1, <1>2, <1>3 DEF DueOK
  <1>8. HandOK'
    BY <1>1, <1>2, <1>3 DEF HandOK, InHand
  <1>9. LeaseOK'
    BY <1>1, <1>2, <1>3 DEF LeaseOK, InHand
  <1>10. SubmissionsOK'
    BY <1>1, <1>2, <1>3 DEF SubmissionsOK, HandOK, InHand
  <1>11. VerdictOK'
    BY <1>1, <1>2, <1>3 DEF VerdictOK, HandOK, InHand
  <1>12. SucceededIsCompleted'
    BY <1>1, <1>2, <1>3 DEF SucceededIsCompleted, HandOK, InHand
  <1>13. ReservedOK'
    BY <1>1, <1>2, <1>3 DEF ReservedOK, HandOK, InHand
  <1>14. RowStep
    BY <1>1, <1>2, <1>3 DEF RowStep, TerminalRow, HandOK, InHand
  <1> QED BY <1>4, <1>5, <1>6, <1>7, <1>8, <1>9, <1>10, <1>11, <1>12, <1>13, <1>14 DEF AutomationInv

\* The Run is bound to the row in hand, or the execution fails.
LEMMA bindRunIdInv == ASSUME AutomationInv, bindRunId PROVE AutomationInv' /\ RowStep
  <1>1. /\ TypeOK /\ CursorOK /\ WakeOK /\ DueOK /\ HandOK /\ LeaseOK
        /\ SubmissionsOK /\ VerdictOK /\ SucceededIsCompleted /\ ReservedOK
    BY DEF AutomationInv
  <1>2. /\ pc = "bind"
        /\ \/ linked' = [linked EXCEPT ![cur] = TRUE] /\ pc' = "execute" /\ verdict' = verdict
           \/ linked' = linked /\ pc' = "finish" /\ verdict' = "FAILED"
        /\ UNCHANGED <<now, config, enabled, cursor, since, edits, status, owner, expires,
                       request, agent, resumable, waits, submissions, host, instance, downs,
                       timer, asOf, due, cur, claimed, fresh, lost, active, abort>>
    BY DEF bindRunId, jobVars, rowVars, runVars, hostVars, wakeVars, coordVars
  <1>3. /\ now \in Nat /\ instance \in Nat /\ Lease \in Nat /\ cur \in Row
        /\ linked' \in [Row -> BOOLEAN]
        /\ \A r \in Row : r # cur => linked'[r] = linked[r]
        /\ linked[cur] => linked'[cur]
    <2>1. /\ now \in Nat /\ instance \in Nat /\ Lease \in Nat /\ cur \in Row
          /\ linked \in [Row -> BOOLEAN]
      BY <1>1, <1>2, AutomationAssumption DEF TypeOK, HandOK, InHand, Time
    <2>2. linked' = linked \/ linked' = [linked EXCEPT ![cur] = TRUE]
      BY <1>2
    <2>3. linked' \in [Row -> BOOLEAN]
      BY <2>1, <2>2, Zenon
    <2> QED BY <2>1, <2>2, <2>3
  <1>4. TypeOK'
    BY <1>1, <1>2, <1>3, AutomationAssumption DEF TypeOK
  <1>5. CursorOK'
    BY <1>1, <1>2, <1>3 DEF CursorOK
  <1>6. WakeOK'
    BY <1>1, <1>2, <1>3 DEF WakeOK, Alive
  <1>7. DueOK'
    BY <1>1, <1>2, <1>3 DEF DueOK
  <1>8. HandOK'
    BY <1>1, <1>2, <1>3 DEF HandOK, InHand
  <1>9. LeaseOK'
    BY <1>1, <1>2, <1>3 DEF LeaseOK, InHand
  <1>10. SubmissionsOK'
    BY <1>1, <1>2, <1>3 DEF SubmissionsOK, HandOK, InHand
  <1>11. VerdictOK'
    BY <1>1, <1>2, <1>3 DEF VerdictOK, HandOK, InHand
  <1>12. SucceededIsCompleted'
    BY <1>1, <1>2, <1>3 DEF SucceededIsCompleted, HandOK, InHand
  <1>13. ReservedOK'
    BY <1>1, <1>2, <1>3 DEF ReservedOK, HandOK, InHand
  <1>14. RowStep
    BY <1>1, <1>2, <1>3 DEF RowStep, TerminalRow, HandOK, InHand
  <1> QED BY <1>4, <1>5, <1>6, <1>7, <1>8, <1>9, <1>10, <1>11, <1>12, <1>13, <1>14 DEF AutomationInv

\* The Run of the row in hand is executed.
LEMMA executeUntilTerminalInv == ASSUME AutomationInv, executeUntilTerminal PROVE AutomationInv' /\ RowStep
  <1>1. /\ TypeOK /\ CursorOK /\ WakeOK /\ DueOK /\ HandOK /\ LeaseOK
        /\ SubmissionsOK /\ VerdictOK /\ SucceededIsCompleted /\ ReservedOK
    BY DEF AutomationInv
  <1>2. /\ pc = "execute" /\ pc' = "waiting"
        /\ active' = [active EXCEPT ![cur] = IF @ = "none" THEN "starting" ELSE @]
        /\ UNCHANGED <<now, config, enabled, cursor, since, edits, status, owner, expires,
                       linked, request, agent, resumable, waits, submissions, host, instance,
                       downs, timer, asOf, due, cur, claimed, fresh, lost, verdict, abort>>
    BY DEF executeUntilTerminal, jobVars, rowVars, runVars, hostVars, wakeVars, coordVars
  <1>3. TypeOK'
    BY <1>1, <1>2 DEF TypeOK, Time
  <1>4. CursorOK'
    BY <1>1, <1>2 DEF CursorOK
  <1>5. WakeOK'
    BY <1>1, <1>2 DEF WakeOK, Alive
  <1>6. DueOK'
    BY <1>1, <1>2 DEF DueOK
  <1>7. HandOK'
    BY <1>1, <1>2 DEF HandOK, InHand
  <1>8. LeaseOK'
    BY <1>1, <1>2 DEF LeaseOK, InHand
  <1>9. SubmissionsOK'
    BY <1>1, <1>2 DEF SubmissionsOK
  <1>10. VerdictOK'
    BY <1>1, <1>2 DEF VerdictOK
  <1>11. SucceededIsCompleted'
    BY <1>1, <1>2 DEF SucceededIsCompleted
  <1>12. ReservedOK'
    BY <1>1, <1>2 DEF ReservedOK
  <1>13. RowStep
    BY <1>1, <1>2 DEF RowStep, TerminalRow
  <1> QED BY <1>3, <1>4, <1>5, <1>6, <1>7, <1>8, <1>9, <1>10, <1>11, <1>12, <1>13 DEF AutomationInv

\* The lease is renewed, or found lost.
LEMMA renewInv == ASSUME AutomationInv, renew PROVE AutomationInv' /\ RowStep
  <1>1. /\ TypeOK /\ CursorOK /\ WakeOK /\ DueOK /\ HandOK /\ LeaseOK
        /\ SubmissionsOK /\ VerdictOK /\ SucceededIsCompleted /\ ReservedOK
    BY DEF AutomationInv
  <1>2. /\ pc = "waiting"
        /\ \/ expires' = [expires EXCEPT ![cur] = now + Lease] /\ lost' = lost /\ ~lost
           \/ ~Leased({"CLAIMED", "RUNNING"}) /\ lost' = TRUE /\ expires' = expires
        /\ UNCHANGED <<now, config, enabled, cursor, since, edits, status, owner, linked,
                       request, agent, resumable, waits, submissions, host, instance, downs,
                       timer, pc, asOf, due, cur, claimed, fresh, verdict, active, abort>>
    BY DEF renew, jobVars, rowVars, runVars, hostVars, wakeVars, coordVars
  <1>3. /\ now \in Nat /\ instance \in Nat /\ Lease \in Nat /\ cur \in Row
        /\ expires' \in [Row -> Int]
        /\ \A r \in Row : r # cur => expires'[r] = expires[r]
        /\ lost' => expires'[cur] < now
        /\ lost' \in BOOLEAN
    <2>1. /\ now \in Nat /\ instance \in Nat /\ Lease \in Nat /\ cur \in Row
          /\ expires \in [Row -> Int]
          /\ owner[cur] = instance /\ status[cur] = "RUNNING"
      BY <1>1, <1>2, AutomationAssumption DEF TypeOK, HandOK, InHand, Time
    <2>2. lost' \in BOOLEAN
      BY <1>1, <1>2, Zenon DEF TypeOK
    <2> QED BY <2>1, <2>2, <1>2 DEF Leased
  <1>4. TypeOK'
    BY <1>1, <1>2, <1>3, AutomationAssumption DEF TypeOK
  <1>5. CursorOK'
    BY <1>1, <1>2, <1>3 DEF CursorOK
  <1>6. WakeOK'
    BY <1>1, <1>2, <1>3 DEF WakeOK, Alive
  <1>7. DueOK'
    BY <1>1, <1>2, <1>3 DEF DueOK
  <1>8. HandOK'
    BY <1>1, <1>2, <1>3 DEF HandOK, InHand
  <1>9. LeaseOK'
    BY <1>1, <1>2, <1>3 DEF LeaseOK, InHand
  <1>10. SubmissionsOK'
    BY <1>1, <1>2, <1>3 DEF SubmissionsOK
  <1>11. VerdictOK'
    BY <1>1, <1>2, <1>3 DEF VerdictOK
  <1>12. SucceededIsCompleted'
    BY <1>1, <1>2, <1>3 DEF SucceededIsCompleted
  <1>13. ReservedOK'
    BY <1>1, <1>2, <1>3 DEF ReservedOK
  <1>14. RowStep
    BY <1>1, <1>2, <1>3 DEF RowStep, TerminalRow
  <1> QED BY <1>4, <1>5, <1>6, <1>7, <1>8, <1>9, <1>10, <1>11, <1>12, <1>13, <1>14 DEF AutomationInv

\* The verdict of the Run becomes the status of its row, under the lease.
LEMMA finishRunInv == ASSUME AutomationInv, finishRun PROVE AutomationInv' /\ RowStep
  <1>1. /\ TypeOK /\ CursorOK /\ WakeOK /\ DueOK /\ HandOK /\ LeaseOK
        /\ SubmissionsOK /\ VerdictOK /\ SucceededIsCompleted /\ ReservedOK
    BY DEF AutomationInv
  <1>2. /\ pc = "finish" /\ cur' = NoRow /\ fresh' = FALSE /\ lost' = FALSE
        /\ \/ /\ ~lost /\ Leased({"RUNNING"})
              /\ status' = [status EXCEPT ![cur] = verdict]
              /\ linked' = [linked EXCEPT ![cur] = @ \/ agent[cur] # "ABSENT"]
              /\ owner' = [owner EXCEPT ![cur] = 0]
              /\ expires' = [expires EXCEPT ![cur] = NoTime]
              /\ pc' = "claim" /\ verdict' = "NONE"
           \/ /\ ~(~lost /\ Leased({"RUNNING"}))
              /\ verdict' = "LOST" /\ pc' = "arm" /\ UNCHANGED <<status, linked, owner, expires>>
        /\ UNCHANGED <<now, config, enabled, cursor, since, edits, request, agent, resumable,
                       waits, submissions, host, instance, downs, timer, asOf, due, claimed,
                       active, abort>>
    BY DEF finishRun, jobVars, rowVars, runVars, hostVars, wakeVars, coordVars
  <1>3. cur \in Row /\ verdict \in {"SUCCEEDED", "FAILED"} /\ (lost => expires[cur] < now)
    BY <1>1, <1>2 DEF HandOK, VerdictOK, InHand
  <1>4. /\ now \in Nat /\ instance \in Nat
        /\ status' \in [Row -> RowStatus] /\ owner' \in [Row -> Nat] /\ expires' \in [Row -> Int] /\ linked' \in [Row -> BOOLEAN]
        /\ \A r \in Row : r # cur => status'[r] = status[r] /\ owner'[r] = owner[r] /\ expires'[r] = expires[r] /\ linked'[r] = linked[r]
        /\ pc' = "arm" => UNCHANGED <<status, owner, expires, linked>> /\ expires[cur] < now
        /\ pc' = "claim" => /\ status'[cur] = verdict /\ owner'[cur] = 0 /\ expires'[cur] = NoTime
                            /\ linked'[cur] = (linked[cur] \/ agent[cur] # "ABSENT")
        /\ pc' \in {"arm", "claim"}
    <2>1. /\ now \in Nat /\ instance \in Nat
          /\ status \in [Row -> RowStatus] /\ owner \in [Row -> Nat] /\ expires \in [Row -> Int]
          /\ linked \in [Row -> BOOLEAN]
          /\ owner[cur] = instance /\ status[cur] = "RUNNING"
      BY <1>1, <1>2, AutomationAssumption DEF TypeOK, HandOK, InHand, Time
    <2>2. linked' \in [Row -> BOOLEAN]
      BY <2>1, <1>2, <1>3, Zenon
    <2>3. CASE pc' = "claim"
      BY <2>1, <2>2, <2>3, <1>2, <1>3 DEF RowStatus, NoTime
    <2>4. CASE pc' = "arm"
      BY <2>1, <2>2, <2>4, <1>2, <1>3 DEF Leased
    <2> QED BY <2>3, <2>4, <1>2
  <1>5. TypeOK'
    BY <1>1, <1>2, <1>3, <1>4, AutomationAssumption DEF TypeOK
  <1>6. CursorOK'
    BY <1>1, <1>2, <1>3, <1>4 DEF CursorOK
  <1>7. WakeOK'
    BY <1>1, <1>2, <1>3, <1>4 DEF WakeOK, Alive
  <1>8. DueOK'
    BY <1>1, <1>2, <1>3, <1>4 DEF DueOK
  <1>9. HandOK'
    BY <1>1, <1>2, <1>3, <1>4 DEF HandOK, InHand
  <1>10. LeaseOK'
    BY <1>1, <1>2, <1>3, <1>4 DEF LeaseOK, InHand, NoTime
  <1>11. SubmissionsOK'
    BY <1>1, <1>2, <1>3, <1>4 DEF SubmissionsOK, HandOK, InHand
  <1>12. VerdictOK'
    BY <1>1, <1>2, <1>3, <1>4 DEF VerdictOK, HandOK, InHand
  <1>13. SucceededIsCompleted'
    BY <1>1, <1>2, <1>3, <1>4 DEF SucceededIsCompleted, HandOK, InHand, VerdictOK
  <1>14. ReservedOK'
    BY <1>1, <1>2, <1>3, <1>4 DEF ReservedOK, HandOK, InHand
  <1>15. RowStep
    BY <1>1, <1>2, <1>3, <1>4 DEF RowStep, TerminalRow, HandOK, InHand
  <1> QED BY <1>5, <1>6, <1>7, <1>8, <1>9, <1>10, <1>11, <1>12, <1>13, <1>14, <1>15 DEF AutomationInv

\* The wake ends with no row in hand.
LEMMA armTimerInv == ASSUME AutomationInv, armTimer PROVE AutomationInv' /\ RowStep
  <1>1. /\ TypeOK /\ CursorOK /\ WakeOK /\ DueOK /\ HandOK /\ LeaseOK
        /\ SubmissionsOK /\ VerdictOK /\ SucceededIsCompleted /\ ReservedOK
    BY DEF AutomationInv
  <1>2. /\ pc = "arm" /\ pc' = "idle" /\ timer' \in {timer, nextWakeAt}
        /\ asOf' = 0 /\ cur' = NoRow /\ claimed' = 0 /\ verdict' = "NONE"
        /\ UNCHANGED <<now, config, enabled, cursor, since, edits, status, owner, expires,
                       linked, request, agent, resumable, waits, submissions, host, instance,
                       downs, due, fresh, lost, active, abort>>
    BY DEF armTimer, jobVars, rowVars, runVars, hostVars, wakeVars, coordVars
  <1>3. timer' \in Int /\ now \in Nat /\ claimed' \in 0 .. RunLimit
    <2>1. nextWakeAt \in Int /\ timer \in Int
      BY <1>1, NextWakeTyped DEF TypeOK
    <2> QED BY <1>1, <1>2, <2>1, AutomationAssumption DEF TypeOK, Time
  <1>4. TypeOK'
    BY <1>1, <1>2, <1>3, AutomationAssumption DEF TypeOK
  <1>5. CursorOK'
    BY <1>1, <1>2, <1>3 DEF CursorOK
  <1>6. WakeOK'
    BY <1>1, <1>2, <1>3 DEF WakeOK, Alive
  <1>7. DueOK'
    BY <1>1, <1>2, <1>3 DEF DueOK
  <1>8. HandOK'
    BY <1>1, <1>2, <1>3 DEF HandOK, InHand
  <1>9. LeaseOK'
    BY <1>1, <1>2, <1>3 DEF LeaseOK, InHand
  <1>10. SubmissionsOK'
    BY <1>1, <1>2, <1>3 DEF SubmissionsOK
  <1>11. VerdictOK'
    BY <1>1, <1>2, <1>3 DEF VerdictOK
  <1>12. SucceededIsCompleted'
    BY <1>1, <1>2, <1>3 DEF SucceededIsCompleted
  <1>13. ReservedOK'
    BY <1>1, <1>2, <1>3 DEF ReservedOK
  <1>14. RowStep
    BY <1>1, <1>2, <1>3 DEF RowStep, TerminalRow
  <1> QED BY <1>4, <1>5, <1>6, <1>7, <1>8, <1>9, <1>10, <1>11, <1>12, <1>13, <1>14 DEF AutomationInv

\* A configuration is written while no job is being materialized.
LEMMA WriteConfigInv ==
    ASSUME AutomationInv, NEW j \in Job, NEW c \in Config, NEW on \in BOOLEAN,
           pc \in {"idle", "waiting"}, edits' \in 0 .. MaxEdit, WriteConfig(j, c, on) PROVE AutomationInv' /\ RowStep
  <1>1. /\ TypeOK /\ CursorOK /\ WakeOK /\ DueOK /\ HandOK /\ LeaseOK
        /\ SubmissionsOK /\ VerdictOK /\ SucceededIsCompleted /\ ReservedOK
    BY DEF AutomationInv
  <1>2. /\ config' = [config EXCEPT ![j] = c] /\ enabled' = [enabled EXCEPT ![j] = on]
        /\ \E x \in Nat \cup {NoTime} : cursor' = [cursor EXCEPT ![j] = x] /\ (x # NoTime => on)
        /\ since' = [since EXCEPT ![j] = now]
        /\ UNCHANGED <<now, status, owner, expires, linked, request, agent, resumable, waits,
                       submissions, host, instance, downs, timer, pc, asOf, due, cur, claimed,
                       fresh, lost, verdict, active, abort>>
    <2> DEFINE next == IF on THEN computeNextScheduledFor(c.schedule, now) ELSE NoTime
    <2>1. /\ config' = [config EXCEPT ![j] = c] /\ enabled' = [enabled EXCEPT ![j] = on]
          /\ cursor' = [cursor EXCEPT ![j] = next] /\ since' = [since EXCEPT ![j] = now]
          /\ UNCHANGED <<now, status, owner, expires, linked, request, agent, resumable, waits,
                         submissions, host, instance, downs, timer, pc, asOf, due, cur, claimed,
                         fresh, lost, verdict, active, abort>>
      BY DEF WriteConfig, jobVars, rowVars, runVars, hostVars, wakeVars, coordVars
    <2>2. now \in Nat
      BY <1>1 DEF TypeOK, Time
    <2>3. next \in Nat \cup {NoTime} /\ (next # NoTime => on)
      BY <2>2, NextTyped
    <2> HIDE DEF next
    <2> QED BY <2>1, <2>3
  <1>3. TypeOK'
    <2>1. config' \in [Job -> Config \cup {NoConfig}] /\ since' \in [Job -> Int]
      BY <1>1, <1>2 DEF TypeOK, Time
    <2>2. enabled' \in [Job -> BOOLEAN]
      BY <1>1, <1>2, Zenon DEF TypeOK
    <2>3. cursor' \in [Job -> Int]
      BY <1>1, <1>2 DEF TypeOK, NoTime
    <2>4. \A k \in Job : cursor'[k] # NoTime => enabled'[k] /\ config'[k] # NoConfig
      BY <1>1, <1>2, AutomationAssumption DEF TypeOK
    <2> QED BY <1>1, <1>2, <2>1, <2>2, <2>3, <2>4 DEF TypeOK
  <1>4. CursorOK'
    BY <1>1, <1>2 DEF CursorOK, TypeOK
  <1>5. WakeOK'
    BY <1>1, <1>2 DEF WakeOK, Alive
  <1>6. DueOK'
    BY <1>1, <1>2 DEF DueOK
  <1>7. HandOK'
    BY <1>1, <1>2 DEF HandOK, InHand
  <1>8. LeaseOK'
    BY <1>1, <1>2 DEF LeaseOK, InHand
  <1>9. SubmissionsOK'
    BY <1>1, <1>2 DEF SubmissionsOK
  <1>10. VerdictOK'
    BY <1>1, <1>2 DEF VerdictOK
  <1>11. SucceededIsCompleted'
    BY <1>1, <1>2 DEF SucceededIsCompleted
  <1>12. ReservedOK'
    BY <1>1, <1>2 DEF ReservedOK
  <1>13. RowStep
    BY <1>1, <1>2 DEF RowStep, TerminalRow
  <1> QED BY <1>3, <1>4, <1>5, <1>6, <1>7, <1>8, <1>9, <1>10, <1>11, <1>12, <1>13 DEF AutomationInv

LEMMA createInv ==
    ASSUME AutomationInv, NEW j \in Job, NEW c \in Config, NEW on \in BOOLEAN, create(j, c, on)
    PROVE  AutomationInv' /\ RowStep
  <1>1. pc \in {"idle", "waiting"} /\ WriteConfig(j, c, on) /\ edits' = edits
    BY DEF create, Free
  <1>2. edits' \in 0 .. MaxEdit
    BY <1>1 DEF AutomationInv, TypeOK
  <1> QED BY <1>1, <1>2, WriteConfigInv

LEMMA updateInv ==
    ASSUME AutomationInv, NEW j \in Job, NEW c \in Config, NEW on \in BOOLEAN, update(j, c, on)
    PROVE  AutomationInv' /\ RowStep
  <1>1. /\ pc \in {"idle", "waiting"} /\ WriteConfig(j, c, on)
        /\ edits < MaxEdit /\ edits' = edits + 1
    BY DEF update, Free
  <1>2. edits' \in 0 .. MaxEdit
    BY <1>1, AutomationAssumption DEF AutomationInv, TypeOK
  <1> QED BY <1>1, <1>2, WriteConfigInv

\* A request reserves a row that is not there, or none.
LEMMA runNowInv == ASSUME AutomationInv, NEW j \in Job, NEW k \in Key, runNow(j, k) PROVE AutomationInv' /\ RowStep
  <1>1. /\ TypeOK /\ CursorOK /\ WakeOK /\ DueOK /\ HandOK /\ LeaseOK
        /\ SubmissionsOK /\ VerdictOK /\ SucceededIsCompleted /\ ReservedOK
    BY DEF AutomationInv
  <1>2. /\ host = "UP" /\ pc \in {"idle", "waiting"}
        /\ \/ /\ request[k] = NoRow
              /\ request' = [request EXCEPT ![k] = <<j, ReservedInstant(j)>>]
              /\ status' = [status EXCEPT ![<<j, ReservedInstant(j)>>] = "PENDING"]
           \/ UNCHANGED <<request, status>>
        /\ \/ pc = "idle" /\ pc' = "list" /\ timer' = NoTime
           \/ UNCHANGED <<pc, timer>>
        /\ UNCHANGED <<now, config, enabled, cursor, since, edits, owner, expires, linked, agent,
                       resumable, waits, submissions, host, instance, downs, asOf, due, cur,
                       claimed, fresh, lost, verdict, active, abort>>
    BY DEF runNow, Free, Wake, jobVars, rowVars, runVars, hostVars, wakeVars, coordVars
  <1>3. /\ status' \in [Row -> RowStatus] /\ request' \in [Key -> Row \cup {NoRow}]
        /\ \/ UNCHANGED <<request, status>>
           \/ \E r \in Row : /\ status[r] = "ABSENT" /\ status'[r] = "PENDING"
                             /\ request[k] = NoRow /\ request'[k] = r
                             /\ \A q \in Row \ {r} : status'[q] = status[q]
                             /\ \A q \in Key \ {k} : request'[q] = request[q]
    <2>1. status \in [Row -> RowStatus] /\ request \in [Key -> Row \cup {NoRow}]
      BY <1>1 DEF TypeOK
    <2>2. CASE UNCHANGED <<request, status>>
      BY <2>1, <2>2
    <2>3. CASE /\ request[k] = NoRow
               /\ request' = [request EXCEPT ![k] = <<j, ReservedInstant(j)>>]
               /\ status' = [status EXCEPT ![<<j, ReservedInstant(j)>>] = "PENDING"]
      <3> DEFINE r == <<j, ReservedInstant(j)>>
      <3>1. r \in Row /\ status[r] = "ABSENT"
        BY <1>1, <2>3, ReservedFree DEF Row
      <3> HIDE DEF r
      <3>2. request' = [request EXCEPT ![k] = r] /\ status' = [status EXCEPT ![r] = "PENDING"]
        BY <2>3 DEF r
      <3> QED BY <2>1, <2>3, <3>1, <3>2 DEF RowStatus
    <2> QED BY <1>2, <2>2, <2>3
  <1>4. TypeOK'
    BY <1>1, <1>2, <1>3 DEF TypeOK, Time, NoTime
  <1>5. CursorOK'
    BY <1>1, <1>2, <1>3 DEF CursorOK
  <1>6. WakeOK'
    BY <1>1, <1>2, <1>3 DEF WakeOK, Alive
  <1>7. DueOK'
    BY <1>1, <1>2, <1>3 DEF DueOK
  <1>8. HandOK'
    BY <1>1, <1>2, <1>3 DEF HandOK, InHand
  <1>9. LeaseOK'
    BY <1>1, <1>2, <1>3 DEF LeaseOK, InHand
  <1>10. SubmissionsOK'
    BY <1>1, <1>2, <1>3 DEF SubmissionsOK, HandOK, InHand
  <1>11. VerdictOK'
    BY <1>1, <1>2, <1>3 DEF VerdictOK
  <1>12. SucceededIsCompleted'
    BY <1>1, <1>2, <1>3 DEF SucceededIsCompleted
  <1>13. ReservedOK'
    <2>1. NoRow \notin Row
      BY AutomationAssumption DEF Row, Instant
    <2>2. CASE UNCHANGED <<request, status>>
      BY <1>1, <1>2, <2>2 DEF ReservedOK
    <2>3. CASE ~UNCHANGED <<request, status>>
      <3>1. PICK r \in Row : /\ status[r] = "ABSENT" /\ status'[r] = "PENDING"
                             /\ request[k] = NoRow /\ request'[k] = r
                             /\ \A q \in Row \ {r} : status'[q] = status[q]
                             /\ \A q \in Key \ {k} : request'[q] = request[q]
        BY <1>3, <2>3
      <3>2. ASSUME NEW q \in Row, q[2] > now, status'[q] # "ABSENT", q # r
            PROVE  \E x \in Key : request'[x] = q
        <4>1. PICK x \in Key : request[x] = q
          BY <1>1, <3>1, <3>2 DEF ReservedOK
        <4> QED BY <2>1, <3>1, <3>2, <4>1
      <3> QED BY <1>2, <3>1, <3>2 DEF ReservedOK
    <2> QED BY <2>2, <2>3
  <1>14. RowStep
    BY <1>1, <1>2, <1>3 DEF RowStep, TerminalRow
  <1> QED BY <1>4, <1>5, <1>6, <1>7, <1>8, <1>9, <1>10, <1>11, <1>12, <1>13, <1>14 DEF AutomationInv

\* What the steps of an Agent Run, of the coordinator and of a shutdown have in
\* common: no row changes, a Run neither appears nor takes back its completion, and
\* the wait for it ends with the verdict it has earned.
RunMove ==
    /\ UNCHANGED <<now, config, enabled, cursor, since, edits, status, owner, expires, linked,
                   request, submissions, instance, asOf, due, cur, claimed, fresh, lost>>
    /\ agent' \in [Row -> RunStatus] /\ resumable' \in [Row -> BOOLEAN]
    /\ active' \in [Row -> {"none", "starting", "running"}]
    /\ abort' \in [Row -> {"none", "cancel", "shutdown"}]
    /\ waits' \in 0 .. MaxWaits /\ downs' \in 0 .. MaxDown /\ timer' \in Int
    /\ \/ host' = host
       \/ host = "UP" /\ host' = "CLOSING"
       \/ host = "CLOSING" /\ pc = "idle" /\ host' = "DRAINING"
    /\ \A r \in Row : /\ agent'[r] = "ABSENT" <=> agent[r] = "ABSENT"
                      /\ agent[r] = "COMPLETED" => agent'[r] = "COMPLETED"
                      /\ active'[r] # "none" => agent'[r] # "ABSENT"
    /\ \/ UNCHANGED <<pc, verdict>>
       \/ /\ pc = "waiting" /\ pc' = "finish"
          /\ verdict' = "FAILED" \/ (verdict' = "SUCCEEDED" /\ agent'[cur] = "COMPLETED")


LEMMA RunMoveInv == ASSUME AutomationInv, RunMove PROVE AutomationInv' /\ RowStep
  <1>1. /\ TypeOK /\ CursorOK /\ WakeOK /\ DueOK /\ HandOK /\ LeaseOK
        /\ SubmissionsOK /\ VerdictOK /\ SucceededIsCompleted /\ ReservedOK
    BY DEF AutomationInv
  <1>2. /\ \/ host' = host
           \/ host = "UP" /\ host' = "CLOSING"
           \/ host = "CLOSING" /\ pc = "idle" /\ host' = "DRAINING"
        /\ \A r \in Row : /\ agent'[r] = "ABSENT" <=> agent[r] = "ABSENT"
                          /\ agent[r] = "COMPLETED" => agent'[r] = "COMPLETED"
                          /\ active'[r] # "none" => agent'[r] # "ABSENT"
        /\ \/ UNCHANGED <<pc, verdict>>
           \/ /\ pc = "waiting" /\ pc' = "finish"
              /\ verdict' = "FAILED" \/ (verdict' = "SUCCEEDED" /\ agent'[cur] = "COMPLETED")
        /\ UNCHANGED <<now, config, enabled, cursor, since, edits, status, owner, expires,
                       linked, request, submissions, instance, asOf, due, cur, claimed, fresh,
                       lost>>
    BY DEF RunMove, jobVars, rowVars, runVars, hostVars, wakeVars, coordVars
  <1>3. TypeOK'
    <2>1. /\ agent' \in [Row -> RunStatus] /\ resumable' \in [Row -> BOOLEAN]
          /\ active' \in [Row -> {"none", "starting", "running"}]
          /\ abort' \in [Row -> {"none", "cancel", "shutdown"}]
          /\ waits' \in 0 .. MaxWaits /\ downs' \in 0 .. MaxDown /\ timer' \in Int
      BY DEF RunMove
    <2> QED BY <1>1, <1>2, <2>1 DEF TypeOK
  <1>4. CursorOK'
    BY <1>1, <1>2 DEF CursorOK
  <1>5. WakeOK'
    BY <1>1, <1>2 DEF WakeOK, Alive
  <1>6. DueOK'
    BY <1>1, <1>2 DEF DueOK
  <1>7. HandOK'
    BY <1>1, <1>2 DEF HandOK, InHand
  <1>8. LeaseOK'
    BY <1>1, <1>2 DEF LeaseOK, InHand
  <1>9. SubmissionsOK'
    BY <1>1, <1>2 DEF SubmissionsOK, HandOK, InHand
  <1>10. VerdictOK'
    BY <1>1, <1>2 DEF VerdictOK, HandOK, InHand
  <1>11. SucceededIsCompleted'
    BY <1>1, <1>2 DEF SucceededIsCompleted
  <1>12. ReservedOK'
    BY <1>1, <1>2 DEF ReservedOK
  <1>13. RowStep
    BY <1>1, <1>2 DEF RowStep, TerminalRow
  <1> QED BY <1>3, <1>4, <1>5, <1>6, <1>7, <1>8, <1>9, <1>10, <1>11, <1>12, <1>13 DEF AutomationInv

\* A Run that starts was queued or waited.
LEMMA RunStartsMoves == ASSUME AutomationInv, NEW r \in Row, RunStarts(r) PROVE RunMove
  <1>1. /\ TypeOK /\ CursorOK /\ WakeOK /\ DueOK /\ HandOK /\ LeaseOK
        /\ SubmissionsOK /\ VerdictOK /\ SucceededIsCompleted /\ ReservedOK
    BY DEF AutomationInv
  <1>2. /\ agent \in [Row -> RunStatus] /\ resumable \in [Row -> BOOLEAN]
        /\ active \in [Row -> {"none", "starting", "running"}]
        /\ abort \in [Row -> {"none", "cancel", "shutdown"}]
        /\ waits \in 0 .. MaxWaits /\ downs \in 0 .. MaxDown /\ timer \in Int
        /\ \A q \in Row : active[q] # "none" => agent[q] # "ABSENT"
    BY <1>1 DEF TypeOK, SubmissionsOK
  <1>3. /\ active[r] # "none" /\ agent[r] \in {"CREATED", "WAITING_APPROVAL"}
        /\ agent' = [agent EXCEPT ![r] = "RUNNING"] /\ resumable' = [resumable EXCEPT ![r] = FALSE]
        /\ active' = [active EXCEPT ![r] = "running"]
        /\ UNCHANGED <<waits, abort, pc, verdict, host, downs, timer>>
        /\ UNCHANGED <<now, config, enabled, cursor, since, edits, status, owner, expires,
                       linked, request, submissions, instance, asOf, due, cur, claimed, fresh,
                       lost>>
    BY DEF RunStarts, RunStep, jobVars, rowVars, runVars, hostVars, wakeVars, coordVars
  <1>4. resumable' \in [Row -> BOOLEAN]
    BY <1>2, <1>3, Zenon
  <1>5. /\ agent' \in [Row -> RunStatus] /\ active' \in [Row -> {"none", "starting", "running"}]
        /\ abort' \in [Row -> {"none", "cancel", "shutdown"}] /\ waits' \in 0 .. MaxWaits
    BY <1>2, <1>3, AutomationAssumption DEF RunStatus, TerminalRun
  <1>6. \A q \in Row : /\ agent'[q] = "ABSENT" <=> agent[q] = "ABSENT"
                       /\ agent[q] = "COMPLETED" => agent'[q] = "COMPLETED"
                       /\ active'[q] # "none" => agent'[q] # "ABSENT"
    BY <1>2, <1>3 DEF TerminalRun
  <1> QED BY <1>2, <1>3, <1>4, <1>5, <1>6 DEF RunMove

\* A Run that does not start has failed, or stays as it is.
LEMMA RunDoesNotStartMoves == ASSUME AutomationInv, NEW r \in Row, RunDoesNotStart(r) PROVE RunMove
  <1>1. /\ TypeOK /\ CursorOK /\ WakeOK /\ DueOK /\ HandOK /\ LeaseOK
        /\ SubmissionsOK /\ VerdictOK /\ SucceededIsCompleted /\ ReservedOK
    BY DEF AutomationInv
  <1>2. /\ agent \in [Row -> RunStatus] /\ resumable \in [Row -> BOOLEAN]
        /\ active \in [Row -> {"none", "starting", "running"}]
        /\ abort \in [Row -> {"none", "cancel", "shutdown"}]
        /\ waits \in 0 .. MaxWaits /\ downs \in 0 .. MaxDown /\ timer \in Int
        /\ \A q \in Row : active[q] # "none" => agent[q] # "ABSENT"
    BY <1>1 DEF TypeOK, SubmissionsOK
  <1>3. /\ active[r] # "none"
        /\ \/ /\ agent[r] \notin TerminalRun
              /\ agent' = [agent EXCEPT ![r] = "FAILED"]
              /\ resumable' = [resumable EXCEPT ![r] = FALSE]
           \/ UNCHANGED <<agent, resumable>>
        /\ active' = [active EXCEPT ![r] = "none"] /\ abort' = [abort EXCEPT ![r] = "none"]
        /\ \/ UNCHANGED <<pc, verdict>>
           \/ pc = "waiting" /\ pc' = "finish" /\ verdict' = "FAILED"
        /\ UNCHANGED <<waits, host, downs, timer>>
        /\ UNCHANGED <<now, config, enabled, cursor, since, edits, status, owner, expires,
                       linked, request, submissions, instance, asOf, due, cur, claimed, fresh,
                       lost>>
    BY DEF RunDoesNotStart, RunStep, Left, Settle, jobVars, rowVars, runVars, hostVars, wakeVars, coordVars
  <1>4. resumable' \in [Row -> BOOLEAN]
    BY <1>2, <1>3, Zenon
  <1>5. /\ agent' \in [Row -> RunStatus] /\ active' \in [Row -> {"none", "starting", "running"}]
        /\ abort' \in [Row -> {"none", "cancel", "shutdown"}] /\ waits' \in 0 .. MaxWaits
    BY <1>2, <1>3, AutomationAssumption DEF RunStatus, TerminalRun
  <1>6. \A q \in Row : /\ agent'[q] = "ABSENT" <=> agent[q] = "ABSENT"
                       /\ agent[q] = "COMPLETED" => agent'[q] = "COMPLETED"
                       /\ active'[q] # "none" => agent'[q] # "ABSENT"
    BY <1>2, <1>3 DEF TerminalRun
  <1> QED BY <1>2, <1>3, <1>4, <1>5, <1>6 DEF RunMove

\* A Run that waits is not settled.
LEMMA RunSuspendsMoves == ASSUME AutomationInv, NEW r \in Row, RunSuspends(r) PROVE RunMove
  <1>1. /\ TypeOK /\ CursorOK /\ WakeOK /\ DueOK /\ HandOK /\ LeaseOK
        /\ SubmissionsOK /\ VerdictOK /\ SucceededIsCompleted /\ ReservedOK
    BY DEF AutomationInv
  <1>2. /\ agent \in [Row -> RunStatus] /\ resumable \in [Row -> BOOLEAN]
        /\ active \in [Row -> {"none", "starting", "running"}]
        /\ abort \in [Row -> {"none", "cancel", "shutdown"}]
        /\ waits \in 0 .. MaxWaits /\ downs \in 0 .. MaxDown /\ timer \in Int
        /\ \A q \in Row : active[q] # "none" => agent[q] # "ABSENT"
    BY <1>1 DEF TypeOK, SubmissionsOK
  <1>3. /\ active[r] # "none" /\ agent[r] = "RUNNING" /\ waits < MaxWaits
        /\ agent' = [agent EXCEPT ![r] = "WAITING_APPROVAL"] /\ waits' = waits + 1
        /\ active' = [active EXCEPT ![r] = "none"] /\ abort' = [abort EXCEPT ![r] = "none"]
        /\ UNCHANGED <<resumable, pc, verdict, host, downs, timer>>
        /\ UNCHANGED <<now, config, enabled, cursor, since, edits, status, owner, expires,
                       linked, request, submissions, instance, asOf, due, cur, claimed, fresh,
                       lost>>
    BY DEF RunSuspends, RunStep, Left, jobVars, rowVars, runVars, hostVars, wakeVars, coordVars
  <1>4. resumable' \in [Row -> BOOLEAN]
    BY <1>2, <1>3, Zenon
  <1>5. /\ agent' \in [Row -> RunStatus] /\ active' \in [Row -> {"none", "starting", "running"}]
        /\ abort' \in [Row -> {"none", "cancel", "shutdown"}] /\ waits' \in 0 .. MaxWaits
    BY <1>2, <1>3, AutomationAssumption DEF RunStatus, TerminalRun
  <1>6. \A q \in Row : /\ agent'[q] = "ABSENT" <=> agent[q] = "ABSENT"
                       /\ agent[q] = "COMPLETED" => agent'[q] = "COMPLETED"
                       /\ active'[q] # "none" => agent'[q] # "ABSENT"
    BY <1>2, <1>3 DEF TerminalRun
  <1> QED BY <1>2, <1>3, <1>4, <1>5, <1>6 DEF RunMove

\* A Run that has ended does not end otherwise.
LEMMA RunEndsMoves == ASSUME AutomationInv, NEW r \in Row, RunEnds(r) PROVE RunMove
  <1>1. /\ TypeOK /\ CursorOK /\ WakeOK /\ DueOK /\ HandOK /\ LeaseOK
        /\ SubmissionsOK /\ VerdictOK /\ SucceededIsCompleted /\ ReservedOK
    BY DEF AutomationInv
  <1>2. /\ agent \in [Row -> RunStatus] /\ resumable \in [Row -> BOOLEAN]
        /\ active \in [Row -> {"none", "starting", "running"}]
        /\ abort \in [Row -> {"none", "cancel", "shutdown"}]
        /\ waits \in 0 .. MaxWaits /\ downs \in 0 .. MaxDown /\ timer \in Int
        /\ \A q \in Row : active[q] # "none" => agent[q] # "ABSENT"
    BY <1>1 DEF TypeOK, SubmissionsOK
  <1>3. /\ active[r] # "none"
        /\ \E s \in TerminalRun :
              /\ agent[r] \in TerminalRun => s = agent[r] /\ s # "COMPLETED"
              /\ agent' = [agent EXCEPT ![r] = s]
              /\ \/ UNCHANGED <<pc, verdict>>
                 \/ /\ pc = "waiting" /\ pc' = "finish" /\ cur = r
                    /\ verdict' = IF s = "COMPLETED" THEN "SUCCEEDED" ELSE "FAILED"
        /\ active' = [active EXCEPT ![r] = "none"] /\ abort' = [abort EXCEPT ![r] = "none"]
        /\ UNCHANGED <<resumable, waits, host, downs, timer>>
        /\ UNCHANGED <<now, config, enabled, cursor, since, edits, status, owner, expires,
                       linked, request, submissions, instance, asOf, due, cur, claimed, fresh,
                       lost>>
    BY DEF RunEnds, RunStep, Left, Settle, jobVars, rowVars, runVars, hostVars, wakeVars, coordVars
  <1>4. resumable' \in [Row -> BOOLEAN]
    BY <1>2, <1>3, Zenon
  <1>5. /\ agent' \in [Row -> RunStatus] /\ active' \in [Row -> {"none", "starting", "running"}]
        /\ abort' \in [Row -> {"none", "cancel", "shutdown"}] /\ waits' \in 0 .. MaxWaits
    BY <1>2, <1>3, AutomationAssumption DEF RunStatus, TerminalRun
  <1>6. \A q \in Row : /\ agent'[q] = "ABSENT" <=> agent[q] = "ABSENT"
                       /\ agent[q] = "COMPLETED" => agent'[q] = "COMPLETED"
                       /\ active'[q] # "none" => agent'[q] # "ABSENT"
    BY <1>2, <1>3 DEF TerminalRun
  <1> QED BY <1>2, <1>3, <1>4, <1>5, <1>6 DEF RunMove

\* A Run that is interrupted is queued again or fails.
LEMMA RunIsInterruptedMoves == ASSUME AutomationInv, NEW r \in Row, RunIsInterrupted(r) PROVE RunMove
  <1>1. /\ TypeOK /\ CursorOK /\ WakeOK /\ DueOK /\ HandOK /\ LeaseOK
        /\ SubmissionsOK /\ VerdictOK /\ SucceededIsCompleted /\ ReservedOK
    BY DEF AutomationInv
  <1>2. /\ agent \in [Row -> RunStatus] /\ resumable \in [Row -> BOOLEAN]
        /\ active \in [Row -> {"none", "starting", "running"}]
        /\ abort \in [Row -> {"none", "cancel", "shutdown"}]
        /\ waits \in 0 .. MaxWaits /\ downs \in 0 .. MaxDown /\ timer \in Int
        /\ \A q \in Row : active[q] # "none" => agent[q] # "ABSENT"
    BY <1>1 DEF TypeOK, SubmissionsOK
  <1>3. /\ active[r] # "none" /\ agent[r] = "RUNNING"
        /\ \E s \in {"CREATED", "FAILED"} : /\ agent' = [agent EXCEPT ![r] = s]
                                            /\ resumable' = [resumable EXCEPT ![r] = (s = "CREATED")]
        /\ active' = [active EXCEPT ![r] = "none"] /\ abort' = [abort EXCEPT ![r] = "none"]
        /\ UNCHANGED <<waits, pc, verdict, host, downs, timer>>
        /\ UNCHANGED <<now, config, enabled, cursor, since, edits, status, owner, expires,
                       linked, request, submissions, instance, asOf, due, cur, claimed, fresh,
                       lost>>
    BY DEF RunIsInterrupted, RunStep, Left, jobVars, rowVars, runVars, hostVars, wakeVars, coordVars
  <1>4. resumable' \in [Row -> BOOLEAN]
    BY <1>2, <1>3, Zenon
  <1>5. /\ agent' \in [Row -> RunStatus] /\ active' \in [Row -> {"none", "starting", "running"}]
        /\ abort' \in [Row -> {"none", "cancel", "shutdown"}] /\ waits' \in 0 .. MaxWaits
    BY <1>2, <1>3, AutomationAssumption DEF RunStatus, TerminalRun
  <1>6. \A q \in Row : /\ agent'[q] = "ABSENT" <=> agent[q] = "ABSENT"
                       /\ agent[q] = "COMPLETED" => agent'[q] = "COMPLETED"
                       /\ active'[q] # "none" => agent'[q] # "ABSENT"
    BY <1>2, <1>3 DEF TerminalRun
  <1> QED BY <1>2, <1>3, <1>4, <1>5, <1>6 DEF RunMove

\* A decision starts a Run that waits.
LEMMA DecideMoves == ASSUME AutomationInv, NEW r \in Row, Decide(r) PROVE RunMove
  <1>1. /\ TypeOK /\ CursorOK /\ WakeOK /\ DueOK /\ HandOK /\ LeaseOK
        /\ SubmissionsOK /\ VerdictOK /\ SucceededIsCompleted /\ ReservedOK
    BY DEF AutomationInv
  <1>2. /\ agent \in [Row -> RunStatus] /\ resumable \in [Row -> BOOLEAN]
        /\ active \in [Row -> {"none", "starting", "running"}]
        /\ abort \in [Row -> {"none", "cancel", "shutdown"}]
        /\ waits \in 0 .. MaxWaits /\ downs \in 0 .. MaxDown /\ timer \in Int
        /\ \A q \in Row : active[q] # "none" => agent[q] # "ABSENT"
    BY <1>1 DEF TypeOK, SubmissionsOK
  <1>3. /\ agent[r] = "WAITING_APPROVAL" /\ active' = [active EXCEPT ![r] = "starting"]
        /\ UNCHANGED <<agent, resumable, waits, abort, pc, verdict, host, downs, timer>>
        /\ UNCHANGED <<now, config, enabled, cursor, since, edits, status, owner, expires,
                       linked, request, submissions, instance, asOf, due, cur, claimed, fresh,
                       lost>>
    BY DEF Decide, RunStep, jobVars, rowVars, runVars, hostVars, wakeVars, coordVars
  <1>4. resumable' \in [Row -> BOOLEAN]
    BY <1>2, <1>3, Zenon
  <1>5. /\ agent' \in [Row -> RunStatus] /\ active' \in [Row -> {"none", "starting", "running"}]
        /\ abort' \in [Row -> {"none", "cancel", "shutdown"}] /\ waits' \in 0 .. MaxWaits
    BY <1>2, <1>3, AutomationAssumption DEF RunStatus, TerminalRun
  <1>6. \A q \in Row : /\ agent'[q] = "ABSENT" <=> agent[q] = "ABSENT"
                       /\ agent[q] = "COMPLETED" => agent'[q] = "COMPLETED"
                       /\ active'[q] # "none" => agent'[q] # "ABSENT"
    BY <1>2, <1>3 DEF TerminalRun
  <1> QED BY <1>2, <1>3, <1>4, <1>5, <1>6 DEF RunMove

\* A cancellation does not touch a Run that has ended.
LEMMA CancelRunMoves == ASSUME AutomationInv, NEW r \in Row, CancelRun(r) PROVE RunMove
  <1>1. /\ TypeOK /\ CursorOK /\ WakeOK /\ DueOK /\ HandOK /\ LeaseOK
        /\ SubmissionsOK /\ VerdictOK /\ SucceededIsCompleted /\ ReservedOK
    BY DEF AutomationInv
  <1>2. /\ agent \in [Row -> RunStatus] /\ resumable \in [Row -> BOOLEAN]
        /\ active \in [Row -> {"none", "starting", "running"}]
        /\ abort \in [Row -> {"none", "cancel", "shutdown"}]
        /\ waits \in 0 .. MaxWaits /\ downs \in 0 .. MaxDown /\ timer \in Int
        /\ \A q \in Row : active[q] # "none" => agent[q] # "ABSENT"
    BY <1>1 DEF TypeOK, SubmissionsOK
  <1>3. /\ agent[r] \notin TerminalRun \cup {"ABSENT"}
        /\ agent' = [agent EXCEPT ![r] = "CANCELLED"] /\ resumable' = [resumable EXCEPT ![r] = FALSE]
        /\ \E a \in {abort[r], "cancel"} : abort' = [abort EXCEPT ![r] = a]
        /\ \/ UNCHANGED <<pc, verdict>>
           \/ pc = "waiting" /\ pc' = "finish" /\ verdict' = "FAILED"
        /\ UNCHANGED <<active, waits, host, downs, timer>>
        /\ UNCHANGED <<now, config, enabled, cursor, since, edits, status, owner, expires,
                       linked, request, submissions, instance, asOf, due, cur, claimed, fresh,
                       lost>>
    BY DEF CancelRun, CoordinatorCancel, Settle, TerminalRun, jobVars, rowVars, runVars, hostVars, wakeVars, coordVars
  <1>4. resumable' \in [Row -> BOOLEAN]
    BY <1>2, <1>3, Zenon
  <1>5. /\ agent' \in [Row -> RunStatus] /\ active' \in [Row -> {"none", "starting", "running"}]
        /\ abort' \in [Row -> {"none", "cancel", "shutdown"}] /\ waits' \in 0 .. MaxWaits
    BY <1>2, <1>3, AutomationAssumption DEF RunStatus, TerminalRun
  <1>6. \A q \in Row : /\ agent'[q] = "ABSENT" <=> agent[q] = "ABSENT"
                       /\ agent[q] = "COMPLETED" => agent'[q] = "COMPLETED"
                       /\ active'[q] # "none" => agent'[q] # "ABSENT"
    BY <1>2, <1>3 DEF TerminalRun
  <1> QED BY <1>2, <1>3, <1>4, <1>5, <1>6 DEF RunMove

\* A shutdown aborts the Run in hand.
LEMMA closeMoves == ASSUME AutomationInv, close PROVE RunMove
  <1>1. /\ TypeOK /\ CursorOK /\ WakeOK /\ DueOK /\ HandOK /\ LeaseOK
        /\ SubmissionsOK /\ VerdictOK /\ SucceededIsCompleted /\ ReservedOK
    BY DEF AutomationInv
  <1>2. /\ agent \in [Row -> RunStatus] /\ resumable \in [Row -> BOOLEAN]
        /\ active \in [Row -> {"none", "starting", "running"}]
        /\ abort \in [Row -> {"none", "cancel", "shutdown"}]
        /\ waits \in 0 .. MaxWaits /\ downs \in 0 .. MaxDown /\ timer \in Int
        /\ \A q \in Row : active[q] # "none" => agent[q] # "ABSENT"
    BY <1>1 DEF TypeOK, SubmissionsOK
  <1>3. /\ host = "UP" /\ host' = "CLOSING" /\ downs < MaxDown /\ downs' = downs + 1
        /\ timer' = NoTime /\ UNCHANGED <<active, waits>>
        /\ \/ UNCHANGED <<agent, resumable, abort, pc, verdict>>
           \/ /\ pc = "waiting"
              /\ \E a \in {abort[cur], "cancel"} : abort' = [abort EXCEPT ![cur] = a]
              /\ \/ UNCHANGED <<agent, resumable>>
                 \/ /\ agent[cur] \notin TerminalRun
                    /\ agent' = [agent EXCEPT ![cur] = "CANCELLED"]
                    /\ resumable' = [resumable EXCEPT ![cur] = FALSE]
              /\ \/ UNCHANGED <<pc, verdict>>
                 \/ /\ pc' = "finish" /\ agent[cur] \in TerminalRun /\ UNCHANGED <<agent, resumable>>
                    /\ verdict' = IF agent[cur] = "COMPLETED" THEN "SUCCEEDED" ELSE "FAILED"
        /\ UNCHANGED <<now, config, enabled, cursor, since, edits, status, owner, expires,
                       linked, request, submissions, instance, asOf, due, cur, claimed, fresh,
                       lost>>
    BY DEF close, CoordinatorCancel, Settle, jobVars, rowVars, runVars, hostVars, wakeVars, coordVars
  <1>4. pc = "waiting" => cur \in Row /\ agent[cur] # "ABSENT"
    BY <1>1 DEF HandOK, SubmissionsOK, InHand
  <1>5. resumable' \in [Row -> BOOLEAN]
    BY <1>2, <1>3, <1>4, Zenon
  <1>6. /\ agent' \in [Row -> RunStatus] /\ active' \in [Row -> {"none", "starting", "running"}]
        /\ abort' \in [Row -> {"none", "cancel", "shutdown"}] /\ waits' \in 0 .. MaxWaits
        /\ downs' \in 0 .. MaxDown /\ timer' \in Int
    BY <1>2, <1>3, <1>4, AutomationAssumption DEF RunStatus, TerminalRun, NoTime
  <1>7. \A q \in Row : /\ agent'[q] = "ABSENT" <=> agent[q] = "ABSENT"
                       /\ agent[q] = "COMPLETED" => agent'[q] = "COMPLETED"
                       /\ active'[q] # "none" => agent'[q] # "ABSENT"
    BY <1>2, <1>3, <1>4 DEF TerminalRun
  <1> QED BY <1>2, <1>3, <1>4, <1>5, <1>6, <1>7 DEF RunMove

\* The coordinator closes after the last wake.
LEMMA CoordinatorCloseMoves == ASSUME AutomationInv, CoordinatorClose PROVE RunMove
  <1>1. /\ TypeOK /\ CursorOK /\ WakeOK /\ DueOK /\ HandOK /\ LeaseOK
        /\ SubmissionsOK /\ VerdictOK /\ SucceededIsCompleted /\ ReservedOK
    BY DEF AutomationInv
  <1>2. /\ agent \in [Row -> RunStatus] /\ resumable \in [Row -> BOOLEAN]
        /\ active \in [Row -> {"none", "starting", "running"}]
        /\ abort \in [Row -> {"none", "cancel", "shutdown"}]
        /\ waits \in 0 .. MaxWaits /\ downs \in 0 .. MaxDown /\ timer \in Int
        /\ \A q \in Row : active[q] # "none" => agent[q] # "ABSENT"
    BY <1>1 DEF TypeOK, SubmissionsOK
  <1>3. /\ host = "CLOSING" /\ pc = "idle" /\ host' = "DRAINING"
        /\ abort' = [r \in Row |-> IF active[r] # "none" /\ abort[r] = "none" THEN "shutdown"
                                   ELSE abort[r]]
        /\ UNCHANGED <<agent, resumable, active, waits, pc, verdict, downs, timer>>
        /\ UNCHANGED <<now, config, enabled, cursor, since, edits, status, owner, expires,
                       linked, request, submissions, instance, asOf, due, cur, claimed, fresh,
                       lost>>
    BY DEF CoordinatorClose, jobVars, rowVars, runVars, hostVars, wakeVars, coordVars
  <1>4. abort' \in [Row -> {"none", "cancel", "shutdown"}]
    BY <1>2, <1>3
  <1> QED BY <1>2, <1>3, <1>4 DEF RunMove

\* The process ends in order: no row is in hand.
LEMMA StopInv == ASSUME AutomationInv, Stop PROVE AutomationInv' /\ RowStep
  <1>1. /\ TypeOK /\ CursorOK /\ WakeOK /\ DueOK /\ HandOK /\ LeaseOK
        /\ SubmissionsOK /\ VerdictOK /\ SucceededIsCompleted /\ ReservedOK
    BY DEF AutomationInv
  <1>2. /\ \/ host = "DRAINING"
           \/ host = "CLOSING" /\ pc = "arm"
        /\ host' = "STOPPED" /\ downs' = downs
        /\ timer' = NoTime /\ pc' = "idle" /\ asOf' = 0 /\ due' = {} /\ cur' = NoRow /\ claimed' = 0
        /\ fresh' = FALSE /\ lost' = FALSE /\ verdict' = "NONE"
        /\ active' = [r \in Row |-> "none"] /\ abort' = [r \in Row |-> "none"]
        /\ UNCHANGED <<now, config, enabled, cursor, since, edits, status, owner, expires,
                       linked, request, agent, resumable, waits, submissions, instance>>
    BY DEF Stop, LoseMemory, jobVars, rowVars, runVars, hostVars, wakeVars, coordVars
  <1>3. now \in Nat
    BY <1>1 DEF TypeOK, Time
  <1>4. TypeOK'
    <2>1. downs' \in 0 .. MaxDown /\ claimed' \in 0 .. RunLimit /\ timer' \in Int
      BY <1>1, <1>2, AutomationAssumption DEF TypeOK, NoTime
    <2>2. /\ active' \in [Row -> {"none", "starting", "running"}]
          /\ abort' \in [Row -> {"none", "cancel", "shutdown"}]
      BY <1>2
    <2>3. /\ pc' = "idle" /\ asOf' = 0 /\ due' = {} /\ cur' = NoRow /\ host' \in {"STOPPED", "CRASHED"}
          /\ fresh' = FALSE /\ lost' = FALSE /\ verdict' = "NONE"
          /\ UNCHANGED <<now, config, enabled, cursor, since, edits, status, owner, expires,
                         linked, request, agent, resumable, waits, submissions, instance>>
      BY <1>2
    <2>4. /\ now' \in Time /\ edits' \in 0 .. MaxEdit
          /\ config' \in [Job -> Config \cup {NoConfig}] /\ enabled' \in [Job -> BOOLEAN]
          /\ cursor' \in [Job -> Int] /\ since' \in [Job -> Int]
          /\ \A j \in Job : cursor'[j] # NoTime => enabled'[j] /\ config'[j] # NoConfig
          /\ status' \in [Row -> RowStatus] /\ owner' \in [Row -> Nat] /\ expires' \in [Row -> Int]
          /\ linked' \in [Row -> BOOLEAN] /\ request' \in [Key -> Row \cup {NoRow}]
          /\ agent' \in [Row -> RunStatus] /\ resumable' \in [Row -> BOOLEAN]
          /\ waits' \in 0 .. MaxWaits /\ submissions' \in [Row -> Nat] /\ instance' \in Nat
      BY <1>1, <2>3 DEF TypeOK, Time
    <2>5. fresh' \in BOOLEAN /\ lost' \in BOOLEAN
      BY <2>3, Zenon
    <2>6. /\ host' \in {"STOPPED", "CRASHED", "BOOTING", "UP", "CLOSING", "DRAINING"}
          /\ pc' \in {"idle", "list", "startup", "materialize", "claim", "mark", "submit", "bind",
                       "execute", "waiting", "finish", "arm"}
          /\ due' \subseteq Job /\ cur' \in Row \cup {NoRow} /\ asOf' \in Int
          /\ verdict' \in {"NONE", "SUCCEEDED", "FAILED", "LOST"}
      BY <2>3
    <2> QED BY <2>1, <2>2, <2>4, <2>5, <2>6 DEF TypeOK
  <1>5. CursorOK'
    BY <1>1, <1>2, <1>3 DEF CursorOK
  <1>6. WakeOK'
    BY <1>1, <1>2, <1>3 DEF WakeOK, Alive
  <1>7. DueOK'
    BY <1>1, <1>2, <1>3 DEF DueOK
  <1>8. HandOK'
    BY <1>1, <1>2, <1>3 DEF HandOK, InHand
  <1>9. LeaseOK'
    BY <1>1, <1>2, <1>3 DEF LeaseOK, InHand, WakeOK, InHand
  <1>10. SubmissionsOK'
    BY <1>1, <1>2, <1>3 DEF SubmissionsOK
  <1>11. VerdictOK'
    BY <1>1, <1>2, <1>3 DEF VerdictOK
  <1>12. SucceededIsCompleted'
    BY <1>1, <1>2, <1>3 DEF SucceededIsCompleted
  <1>13. ReservedOK'
    BY <1>1, <1>2, <1>3 DEF ReservedOK
  <1>14. RowStep
    BY <1>1, <1>2, <1>3 DEF RowStep, TerminalRow
  <1> QED BY <1>4, <1>5, <1>6, <1>7, <1>8, <1>9, <1>10, <1>11, <1>12, <1>13, <1>14 DEF AutomationInv

\* The process dies: its lease outlives it.
LEMMA CrashInv == ASSUME AutomationInv, Crash PROVE AutomationInv' /\ RowStep
  <1>1. /\ TypeOK /\ CursorOK /\ WakeOK /\ DueOK /\ HandOK /\ LeaseOK
        /\ SubmissionsOK /\ VerdictOK /\ SucceededIsCompleted /\ ReservedOK
    BY DEF AutomationInv
  <1>2. /\ Alive /\ downs < MaxDown /\ host' = "CRASHED" /\ downs' = downs + 1
        /\ timer' = NoTime /\ pc' = "idle" /\ asOf' = 0 /\ due' = {} /\ cur' = NoRow /\ claimed' = 0
        /\ fresh' = FALSE /\ lost' = FALSE /\ verdict' = "NONE"
        /\ active' = [r \in Row |-> "none"] /\ abort' = [r \in Row |-> "none"]
        /\ UNCHANGED <<now, config, enabled, cursor, since, edits, status, owner, expires,
                       linked, request, agent, resumable, waits, submissions, instance>>
    BY DEF Crash, LoseMemory, jobVars, rowVars, runVars, hostVars, wakeVars, coordVars
  <1>3. now \in Nat
    BY <1>1 DEF TypeOK, Time
  <1>4. TypeOK'
    <2>1. downs' \in 0 .. MaxDown /\ claimed' \in 0 .. RunLimit /\ timer' \in Int
      BY <1>1, <1>2, AutomationAssumption DEF TypeOK, NoTime
    <2>2. /\ active' \in [Row -> {"none", "starting", "running"}]
          /\ abort' \in [Row -> {"none", "cancel", "shutdown"}]
      BY <1>2
    <2>3. /\ pc' = "idle" /\ asOf' = 0 /\ due' = {} /\ cur' = NoRow /\ host' \in {"STOPPED", "CRASHED"}
          /\ fresh' = FALSE /\ lost' = FALSE /\ verdict' = "NONE"
          /\ UNCHANGED <<now, config, enabled, cursor, since, edits, status, owner, expires,
                         linked, request, agent, resumable, waits, submissions, instance>>
      BY <1>2
    <2>4. /\ now' \in Time /\ edits' \in 0 .. MaxEdit
          /\ config' \in [Job -> Config \cup {NoConfig}] /\ enabled' \in [Job -> BOOLEAN]
          /\ cursor' \in [Job -> Int] /\ since' \in [Job -> Int]
          /\ \A j \in Job : cursor'[j] # NoTime => enabled'[j] /\ config'[j] # NoConfig
          /\ status' \in [Row -> RowStatus] /\ owner' \in [Row -> Nat] /\ expires' \in [Row -> Int]
          /\ linked' \in [Row -> BOOLEAN] /\ request' \in [Key -> Row \cup {NoRow}]
          /\ agent' \in [Row -> RunStatus] /\ resumable' \in [Row -> BOOLEAN]
          /\ waits' \in 0 .. MaxWaits /\ submissions' \in [Row -> Nat] /\ instance' \in Nat
      BY <1>1, <2>3 DEF TypeOK, Time
    <2>5. fresh' \in BOOLEAN /\ lost' \in BOOLEAN
      BY <2>3, Zenon
    <2>6. /\ host' \in {"STOPPED", "CRASHED", "BOOTING", "UP", "CLOSING", "DRAINING"}
          /\ pc' \in {"idle", "list", "startup", "materialize", "claim", "mark", "submit", "bind",
                       "execute", "waiting", "finish", "arm"}
          /\ due' \subseteq Job /\ cur' \in Row \cup {NoRow} /\ asOf' \in Int
          /\ verdict' \in {"NONE", "SUCCEEDED", "FAILED", "LOST"}
      BY <2>3
    <2> QED BY <2>1, <2>2, <2>4, <2>5, <2>6 DEF TypeOK
  <1>5. CursorOK'
    BY <1>1, <1>2, <1>3 DEF CursorOK
  <1>6. WakeOK'
    BY <1>1, <1>2, <1>3 DEF WakeOK, Alive
  <1>7. DueOK'
    BY <1>1, <1>2, <1>3 DEF DueOK
  <1>8. HandOK'
    BY <1>1, <1>2, <1>3 DEF HandOK, InHand
  <1>9. LeaseOK'
    BY <1>1, <1>2, <1>3 DEF LeaseOK, InHand
  <1>10. SubmissionsOK'
    BY <1>1, <1>2, <1>3 DEF SubmissionsOK
  <1>11. VerdictOK'
    BY <1>1, <1>2, <1>3 DEF VerdictOK
  <1>12. SucceededIsCompleted'
    BY <1>1, <1>2, <1>3 DEF SucceededIsCompleted
  <1>13. ReservedOK'
    BY <1>1, <1>2, <1>3 DEF ReservedOK
  <1>14. RowStep
    BY <1>1, <1>2, <1>3 DEF RowStep, TerminalRow
  <1> QED BY <1>4, <1>5, <1>6, <1>7, <1>8, <1>9, <1>10, <1>11, <1>12, <1>13, <1>14 DEF AutomationInv

\* A new process has an owner id that no row has.
LEMMA BootInv == ASSUME AutomationInv, Boot PROVE AutomationInv' /\ RowStep
  <1>1. /\ TypeOK /\ CursorOK /\ WakeOK /\ DueOK /\ HandOK /\ LeaseOK
        /\ SubmissionsOK /\ VerdictOK /\ SucceededIsCompleted /\ ReservedOK
    BY DEF AutomationInv
  <1>2. /\ host \in {"STOPPED", "CRASHED"} /\ host' = "BOOTING" /\ instance' = instance + 1
        /\ \E safe \in SUBSET {r \in Row : agent[r] = "RUNNING"} :
              /\ agent' = [r \in Row |-> IF r \in safe THEN "CREATED"
                                         ELSE IF r \in {q \in Row : agent[q] = "RUNNING"} THEN "FAILED"
                                         ELSE agent[r]]
              /\ resumable' = [r \in Row |-> r \in safe \/ agent[r] = "WAITING_APPROVAL"
                                  \/ (r \notin {q \in Row : agent[q] = "RUNNING"} /\ resumable[r])]
        /\ active' = [r \in Row |-> IF agent'[r] = "CREATED" THEN "starting" ELSE "none"]
        /\ UNCHANGED <<now, config, enabled, cursor, since, edits, status, owner, expires,
                       linked, request, waits, submissions, downs, timer, pc, asOf, due, cur,
                       claimed, fresh, lost, verdict, abort>>
    BY DEF Boot, jobVars, rowVars, runVars, hostVars, wakeVars, coordVars
  <1>3. /\ agent' \in [Row -> RunStatus] /\ active' \in [Row -> {"none", "starting", "running"}]
        /\ \A r \in Row : /\ agent'[r] = "ABSENT" <=> agent[r] = "ABSENT"
                          /\ agent[r] = "COMPLETED" => agent'[r] = "COMPLETED"
                          /\ active'[r] # "none" => agent'[r] # "ABSENT"
    <2> DEFINE running == {r \in Row : agent[r] = "RUNNING"}
    <2>1. PICK safe \in SUBSET running :
              agent' = [r \in Row |-> IF r \in safe THEN "CREATED"
                                      ELSE IF r \in running THEN "FAILED" ELSE agent[r]]
      BY <1>2
    <2>2. agent \in [Row -> RunStatus]
      BY <1>1 DEF TypeOK
    <2>3. ASSUME NEW r \in Row
          PROVE  /\ agent'[r] \in RunStatus
                 /\ agent'[r] = "ABSENT" <=> agent[r] = "ABSENT"
                 /\ agent[r] = "COMPLETED" => agent'[r] = "COMPLETED"
      <3>1. agent'[r] = IF r \in safe THEN "CREATED"
                        ELSE IF agent[r] = "RUNNING" THEN "FAILED" ELSE agent[r]
        BY <2>1
      <3>2. r \in safe => agent[r] = "RUNNING"
        BY <2>1
      <3>3. agent[r] \in RunStatus
        BY <2>2
      <3> QED BY <3>1, <3>2, <3>3 DEF RunStatus, TerminalRun
    <2>4. active' \in [Row -> {"none", "starting", "running"}]
      BY <1>2
    <2>5. \A r \in Row : active'[r] # "none" => agent'[r] # "ABSENT"
      BY <1>2
    <2>6. agent' \in [Row -> RunStatus]
      BY <2>1, <2>3
    <2> QED BY <2>3, <2>4, <2>5, <2>6
  <1>4. resumable' \in [Row -> BOOLEAN]
    BY <1>1, <1>2, Zenon DEF TypeOK
  <1>5. /\ instance \in Nat /\ owner \in [Row -> Nat] /\ pc = "idle" /\ verdict # "SUCCEEDED"
        /\ \A r \in Row : owner'[r] # instance'
    BY <1>1, <1>2 DEF TypeOK, WakeOK, VerdictOK
  <1>6. TypeOK'
    BY <1>1, <1>2, <1>3, <1>4, <1>5 DEF TypeOK
  <1>7. CursorOK'
    BY <1>1, <1>2, <1>3, <1>4, <1>5 DEF CursorOK
  <1>8. WakeOK'
    BY <1>1, <1>2, <1>3, <1>4, <1>5 DEF WakeOK, Alive
  <1>9. DueOK'
    BY <1>1, <1>2, <1>3, <1>4, <1>5 DEF DueOK
  <1>10. HandOK'
    BY <1>1, <1>2, <1>3, <1>4, <1>5 DEF HandOK, InHand
  <1>11. LeaseOK'
    BY <1>1, <1>2, <1>3, <1>4, <1>5 DEF LeaseOK, InHand
  <1>12. SubmissionsOK'
    BY <1>1, <1>2, <1>3, <1>4, <1>5 DEF SubmissionsOK
  <1>13. VerdictOK'
    BY <1>1, <1>2, <1>3, <1>4, <1>5 DEF VerdictOK
  <1>14. SucceededIsCompleted'
    BY <1>1, <1>2, <1>3, <1>4, <1>5 DEF SucceededIsCompleted
  <1>15. ReservedOK'
    BY <1>1, <1>2, <1>3, <1>4, <1>5 DEF ReservedOK
  <1>16. RowStep
    BY <1>1, <1>2, <1>3, <1>4, <1>5 DEF RowStep, TerminalRow
  <1> QED BY <1>6, <1>7, <1>8, <1>9, <1>10, <1>11, <1>12, <1>13, <1>14, <1>15, <1>16 DEF AutomationInv

\* Expired rows are recovered, and a row is queued again only with its Run.
LEMMA startInv == ASSUME AutomationInv, start PROVE AutomationInv' /\ RowStep
  <1>1. /\ TypeOK /\ CursorOK /\ WakeOK /\ DueOK /\ HandOK /\ LeaseOK
        /\ SubmissionsOK /\ VerdictOK /\ SucceededIsCompleted /\ ReservedOK
    BY DEF AutomationInv
  <1>2. /\ host = "BOOTING" /\ host' = "UP" /\ pc' = "startup" /\ asOf' = now
        /\ status' = [r \in Row |-> IF status[r] \in {"CLAIMED", "RUNNING"} /\ expires[r] <= now
                                    THEN Recovered(r) ELSE status[r]]
        /\ owner' = [r \in Row |-> IF status[r] \in {"CLAIMED", "RUNNING"} /\ expires[r] <= now
                                   THEN 0 ELSE owner[r]]
        /\ expires' = [r \in Row |-> IF status[r] \in {"CLAIMED", "RUNNING"} /\ expires[r] <= now
                                     THEN NoTime ELSE expires[r]]
        /\ due' \subseteq {j \in Job : IsDue(j)}
        /\ UNCHANGED <<now, config, enabled, cursor, since, edits, linked, request, agent,
                       resumable, waits, submissions, instance, downs, timer, cur, claimed,
                       fresh, lost, verdict, active, abort>>
    BY DEF start, ListedDue, jobVars, rowVars, runVars, hostVars, wakeVars, coordVars
  <1>3. /\ now \in Nat /\ instance \in Nat /\ instance > 0 /\ pc = "idle" /\ verdict # "SUCCEEDED" /\ due' \subseteq Job
        /\ status' \in [Row -> RowStatus] /\ owner' \in [Row -> Nat] /\ expires' \in [Row -> Int]
    BY <1>1, <1>2 DEF TypeOK, WakeOK, VerdictOK, RowStatus, Recovered, NoTime, Time, Alive
  <1>4. \A r \in Row : /\ (owner'[r] = owner[r] /\ expires'[r] = expires[r]) \/ owner'[r] = 0
                       /\ \/ status'[r] = status[r]
                          \/ status[r] = "CLAIMED" /\ status'[r] = "PENDING"
                          \/ status[r] = "RUNNING" /\ (status'[r] = "FAILED" \/ (status'[r] = "PENDING" /\ linked[r]))
    BY <1>2 DEF Recovered
  <1>5. TypeOK'
    BY <1>1, <1>2, <1>3 DEF TypeOK
  <1>6. CursorOK'
    BY <1>1, <1>2, <1>3, <1>4 DEF CursorOK
  <1>7. WakeOK'
    BY <1>1, <1>2, <1>3, <1>4 DEF WakeOK, Alive
  <1>8. DueOK'
    BY <1>1, <1>2, <1>3, <1>4 DEF DueOK, CursorOK, TypeOK, IsDue, NoTime
  <1>9. HandOK'
    BY <1>1, <1>2, <1>3, <1>4 DEF HandOK, InHand
  <1>10. LeaseOK'
    BY <1>1, <1>2, <1>3, <1>4 DEF LeaseOK, InHand
  <1>11. SubmissionsOK'
    BY <1>1, <1>2, <1>3, <1>4 DEF SubmissionsOK
  <1>12. VerdictOK'
    BY <1>1, <1>2, <1>3, <1>4 DEF VerdictOK
  <1>13. SucceededIsCompleted'
    BY <1>1, <1>2, <1>3, <1>4 DEF SucceededIsCompleted
  <1>14. ReservedOK'
    BY <1>1, <1>2, <1>3, <1>4 DEF ReservedOK
  <1>15. RowStep
    BY <1>1, <1>2, <1>3, <1>4 DEF RowStep, TerminalRow
  <1> QED BY <1>5, <1>6, <1>7, <1>8, <1>9, <1>10, <1>11, <1>12, <1>13, <1>14, <1>15 DEF AutomationInv

-----------------------------------------------------------------------------
LEMMA StutterInv == ASSUME AutomationInv, UNCHANGED vars PROVE AutomationInv' /\ RowStep
  <1>1. /\ TypeOK /\ CursorOK /\ WakeOK /\ DueOK /\ HandOK /\ LeaseOK
        /\ SubmissionsOK /\ VerdictOK /\ SucceededIsCompleted /\ ReservedOK
    BY DEF AutomationInv
  <1>2. UNCHANGED <<now, config, enabled, cursor, since, edits, status, owner, expires, linked,
                    request, agent, resumable, waits, submissions, host, instance, downs, timer,
                    pc, asOf, due, cur, claimed, fresh, lost, verdict, active, abort>>
    BY DEF vars, jobVars, rowVars, runVars, hostVars, wakeVars, coordVars
  <1>3. TypeOK'
    BY <1>1, <1>2 DEF TypeOK, Time
  <1>4. CursorOK'
    BY <1>1, <1>2 DEF CursorOK
  <1>5. WakeOK'
    BY <1>1, <1>2 DEF WakeOK, Alive
  <1>6. DueOK'
    BY <1>1, <1>2 DEF DueOK
  <1>7. HandOK'
    BY <1>1, <1>2 DEF HandOK, InHand
  <1>8. LeaseOK'
    BY <1>1, <1>2 DEF LeaseOK, InHand
  <1>9. SubmissionsOK'
    BY <1>1, <1>2 DEF SubmissionsOK
  <1>10. VerdictOK'
    BY <1>1, <1>2 DEF VerdictOK
  <1>11. SucceededIsCompleted'
    BY <1>1, <1>2 DEF SucceededIsCompleted
  <1>12. ReservedOK'
    BY <1>1, <1>2 DEF ReservedOK
  <1>13. RowStep
    BY <1>1, <1>2 DEF RowStep, TerminalRow
  <1> QED BY <1>3, <1>4, <1>5, <1>6, <1>7, <1>8, <1>9, <1>10, <1>11, <1>12, <1>13 DEF AutomationInv

\* Every step keeps the invariant and the rows that have ended.
LEMMA StepInv == ASSUME AutomationInv, [Next]_vars PROVE AutomationInv' /\ RowStep
  <1>1. CASE Tick
    BY <1>1, TickInv
  <1>2. CASE Definitions
    BY <1>2, createInv, updateInv, runNowInv DEF Definitions
  <1>3. CASE TimerFires
    BY <1>3, TimerFiresInv
  <1>4. CASE renew
    BY <1>4, renewInv
  <1>5. CASE Scheduler
    <2>1. ASSUME NEW j \in Job, MaterializeDueJob(j) PROVE AutomationInv' /\ RowStep
      BY <2>1, MaterializeDueJobInv
    <2>2. \/ ListDueJobs \/ Materialized \/ ClaimRun \/ NothingToClaim \/ markRunRunning
          \/ Submit \/ bindRunId \/ executeUntilTerminal \/ finishRun \/ armTimer
          \/ \E j \in Job : MaterializeDueJob(j)
      BY <1>5 DEF Scheduler
    <2> QED BY <2>1, <2>2, ListDueJobsInv, MaterializedInv, ClaimRunInv, NothingToClaimInv,
               markRunRunningInv, SubmitInv, bindRunIdInv, executeUntilTerminalInv,
               finishRunInv, armTimerInv
  <1>6. CASE Execution
    <2>1. PICK r \in Row : Executes(r)
      BY <1>6 DEF Execution
    <2>2. RunMove
      BY <2>1, RunStartsMoves, RunDoesNotStartMoves, RunSuspendsMoves, RunEndsMoves,
         RunIsInterruptedMoves DEF Executes
    <2> QED BY <2>2, RunMoveInv
  <1>7. CASE Decision \/ \E r \in Row : CancelRun(r)
    <2>1. RunMove
      BY <1>7, DecideMoves, CancelRunMoves DEF Decision
    <2> QED BY <2>1, RunMoveInv
  <1>8. CASE close \/ CoordinatorClose
    BY <1>8, closeMoves, CoordinatorCloseMoves, RunMoveInv
  <1>9. CASE Stop \/ Crash \/ Boot \/ start
    BY <1>9, StopInv, CrashInv, BootInv, startInv
  <1>10. CASE UNCHANGED vars
    BY <1>10, StutterInv
  <1> QED BY <1>1, <1>2, <1>3, <1>4, <1>5, <1>6, <1>7, <1>8, <1>9, <1>10 DEF Next

\* Nothing has been written when the database is created.
LEMMA InitInv == ASSUME Init PROVE AutomationInv
  <1>1. /\ now = 0 /\ edits = 0 /\ waits = 0 /\ downs = 0 /\ instance = 0 /\ claimed = 0
        /\ asOf = 0 /\ timer = NoTime /\ due = {} /\ cur = NoRow /\ pc = "idle"
        /\ host = "STOPPED" /\ verdict = "NONE"
        /\ \A j \in Job : config[j] = NoConfig /\ cursor[j] = NoTime
        /\ \A r \in Row : /\ status[r] = "ABSENT" /\ owner[r] = 0 /\ expires[r] = NoTime
                          /\ linked[r] = FALSE /\ agent[r] = "ABSENT" /\ submissions[r] = 0
                          /\ active[r] = "none"
    BY DEF Init
  <1>2. /\ config \in [Job -> Config \cup {NoConfig}] /\ cursor \in [Job -> Int]
        /\ since \in [Job -> Int] /\ status \in [Row -> RowStatus] /\ owner \in [Row -> Nat]
        /\ expires \in [Row -> Int] /\ request \in [Key -> Row \cup {NoRow}]
        /\ agent \in [Row -> RunStatus] /\ submissions \in [Row -> Nat]
        /\ active \in [Row -> {"none", "starting", "running"}]
        /\ abort \in [Row -> {"none", "cancel", "shutdown"}]
    BY DEF Init, RowStatus, RunStatus, NoTime
  <1>3. /\ enabled \in [Job -> BOOLEAN] /\ linked \in [Row -> BOOLEAN]
        /\ resumable \in [Row -> BOOLEAN] /\ fresh \in BOOLEAN /\ lost \in BOOLEAN
    BY Zenon DEF Init
  <1>4. TypeOK
    BY <1>1, <1>2, <1>3, AutomationAssumption DEF TypeOK, Time, NoTime
  <1>5. CursorOK /\ DueOK
    BY <1>1 DEF CursorOK, DueOK
  <1>6. WakeOK /\ HandOK /\ LeaseOK
    BY <1>1 DEF WakeOK, HandOK, LeaseOK, Alive, InHand
  <1>7. SubmissionsOK /\ VerdictOK /\ SucceededIsCompleted /\ ReservedOK
    BY <1>1 DEF SubmissionsOK, VerdictOK, SucceededIsCompleted, ReservedOK
  <1> QED BY <1>4, <1>5, <1>6, <1>7 DEF AutomationInv

LEMMA AutomationInductive == Spec => []AutomationInv
  <1>1. ASSUME AutomationInv, [Next]_vars PROVE AutomationInv'
    BY <1>1, StepInv
  <1> QED BY <1>1, InitInv, PTL DEF Spec

-----------------------------------------------------------------------------
\* A plan with room for everything covers each occurrence from the cursor up to the
\* next cursor.
LEMMA PlanCovers ==
    ASSUME AutomationInv, NEW j \in due, NEW t \in Time,
           config[j].policy = "BOUNDED", config[j].limit > MaxTime,
           Occurs(config[j].schedule, t), t >= cursor[j]
    PROVE  LET plan == IF pc = "startup" THEN startupPlan(j, asOf) ELSE regularPlan(j)
           IN  plan.next = NoTime \/ t < plan.next => t \in plan.pending
  <1> DEFINE c == config[j]
  <1>1. /\ c \in Config /\ cursor[j] \in Nat /\ now \in Nat /\ asOf \in Nat
        /\ asOf <= MaxTime /\ MaxTime \in Nat /\ t \in Nat /\ c.limit \in Nat
    <2>1. DueOK /\ now \in 0 .. MaxTime
      BY DEF AutomationInv, TypeOK, Time
    <2>2. c \in Config
      BY <2>1 DEF DueOK
    <2>3. c.limit \in Nat
      BY <2>2, ScheduleAssumption
    <2> QED BY <2>1, <2>2, <2>3, AutomationAssumption DEF DueOK, Time
  <1>2. CASE pc # "startup"
    <2> DEFINE n == computeNextScheduledFor(c.schedule, cursor[j])
    <2>1. regularPlan(j).pending = {cursor[j]} /\ regularPlan(j).next = n
      BY DEF regularPlan, Plan
    <2>2. t > cursor[j] => n # NoTime /\ n <= t
      BY <1>1, NextFacts
    <2>3. n \in Nat \cup {NoTime}
      BY <1>1, NextFacts
    <2> HIDE DEF n
    <2> QED BY <1>1, <1>2, <2>1, <2>2, <2>3
  <1>3. CASE pc = "startup"
    <2> DEFINE missed == Overdue(c.schedule, cursor[j] - 1, asOf)
               oldest == {u \in missed : Cardinality({w \in missed : w < u}) < c.limit}
               n == computeNextScheduledFor(c.schedule, asOf)
    <2>1. startupPlan(j, asOf).pending = oldest /\ startupPlan(j, asOf).next = n
      BY DEF startupPlan, Plan
    <2>2. n \in Nat \cup {NoTime} /\ (t > asOf => n # NoTime /\ n <= t)
      BY <1>1, NextFacts
    <2>3. ASSUME t <= asOf PROVE t \in oldest
      <3> DEFINE m == computeNextScheduledFor(c.schedule, t - 1)
      <3>1. m \in Nat \cup {NoTime} /\ (m # NoTime => m > t - 1) /\ m # NoTime /\ m <= t
        <4>1. t - 1 \in Int /\ t - 1 >= -1 /\ t > t - 1
          BY <1>1
        <4> QED BY <1>1, <4>1, NextFacts
      <3> HIDE DEF m
      <3>2. m = t
        BY <1>1, <3>1
      <3>3. t \in missed
        BY <1>1, <2>3, <3>2 DEF Overdue, m
      <3> DEFINE before == {w \in missed : w < t}
      <3>4. before \subseteq 0 .. t - 1
        BY <1>1 DEF Overdue
      <3> HIDE DEF before, missed
      <3>5. IsFiniteSet(0 .. t - 1) /\ Cardinality(0 .. t - 1) <= t
        <4>1. 0 \in Int /\ t - 1 \in Int
          BY <1>1
        <4>2. IsFiniteSet(0 .. t - 1) /\ Cardinality(0 .. t - 1) = IF 0 > t - 1 THEN 0 ELSE (t - 1) - 0 + 1
          BY <4>1, FS_Interval
        <4> QED BY <1>1, <4>2
      <3>6. Cardinality(before) \in Nat /\ Cardinality(before) <= t
        <4>1. IsFiniteSet(before) /\ Cardinality(before) <= Cardinality(0 .. t - 1)
          BY <3>4, <3>5, FS_Subset
        <4>2. Cardinality(before) \in Nat /\ Cardinality(0 .. t - 1) \in Nat
          BY <3>5, <4>1, FS_CardinalityType
        <4> QED BY <1>1, <3>5, <4>1, <4>2
      <3>7. Cardinality(before) < c.limit
        BY <1>1, <2>3, <3>6
      <3> QED BY <3>3, <3>7 DEF before
    <2> HIDE DEF missed, oldest, n
    <2> QED BY <1>1, <1>3, <2>1, <2>2, <2>3
  <1> QED BY <1>2, <1>3

\* A step that leaves the jobs alone loses nothing, since no row is deleted.
LEMMA KeptOccurrences ==
    ASSUME NoOccurrenceLost, RowStep, UNCHANGED jobVars PROVE NoOccurrenceLost'
  <1>1. \A j \in Job, t \in Time : <<j, t>> \in Row
    <2>1. Time \subseteq Instant
      <3>1. Cardinality(Key) \in Nat /\ MaxTime \in Nat
        BY AutomationAssumption, FS_CardinalityType
      <3> QED BY <3>1 DEF Time, Instant
    <2> QED BY <2>1 DEF Row
  <1>2. UNCHANGED <<config, enabled, cursor, since>>
    BY DEF jobVars
  <1> QED BY <1>1, <1>2 DEF NoOccurrenceLost, RowStep

\* A new configuration begins with its next occurrence.
LEMMA WrittenOccurrences ==
    ASSUME AutomationInv, NoOccurrenceLost, RowStep, NEW j \in Job, NEW c \in Config,
           NEW on \in BOOLEAN, WriteConfig(j, c, on)
    PROVE  NoOccurrenceLost'
  <1> DEFINE next == IF on THEN computeNextScheduledFor(c.schedule, now) ELSE NoTime
  <1>1. /\ on => next # NoTime
        /\ config' = [config EXCEPT ![j] = c] /\ enabled' = [enabled EXCEPT ![j] = on]
        /\ cursor' = [cursor EXCEPT ![j] = next] /\ since' = [since EXCEPT ![j] = now]
        /\ status' = status
    BY DEF WriteConfig, rowVars
  <1>2. /\ config \in [Job -> Config \cup {NoConfig}] /\ enabled \in [Job -> BOOLEAN]
        /\ cursor \in [Job -> Int] /\ since \in [Job -> Int] /\ now \in Nat
    BY DEF AutomationInv, TypeOK, Time
  <1>3. ASSUME on, NEW t \in Time, Occurs(c.schedule, t), now < t PROVE next <= t /\ next \in Nat
    <2>1. t \in Nat
      BY DEF Time
    <2> QED BY <1>2, <1>3, <2>1, NextFacts
  <1> HIDE DEF next
  <1>4. ASSUME NEW i \in Job, NEW t \in Time,
               enabled'[i] /\ config'[i].policy = "BOUNDED" /\ config'[i].limit > MaxTime,
               Occurs(config'[i].schedule, t), since'[i] < t, t < cursor'[i] \/ cursor'[i] = NoTime
        PROVE  status'[<<i, t>>] # "ABSENT"
    <2>1. CASE i = j
      <3>1. enabled'[j] = on /\ config'[j] = c /\ cursor'[j] = next /\ since'[j] = now
        BY <1>1, <1>2
      <3>2. on /\ t \in Nat
        BY <1>4, <2>1, <3>1 DEF Time
      <3>3. next <= t /\ next \in Nat
        BY <1>3, <1>4, <2>1, <3>1, <3>2
      <3> QED BY <1>4, <2>1, <3>1, <3>2, <3>3 DEF NoTime
    <2>2. CASE i # j
      <3>1. enabled'[i] = enabled[i] /\ config'[i] = config[i] /\ cursor'[i] = cursor[i] /\ since'[i] = since[i]
        BY <1>1, <1>2, <2>2
      <3> QED BY <1>1, <1>4, <3>1 DEF NoOccurrenceLost
    <2> QED BY <2>1, <2>2
  <1> QED BY <1>4 DEF NoOccurrenceLost

\* A job that is materialized has a row for what it passes over.
LEMMA MaterializedOccurrences ==
    ASSUME AutomationInv, NoOccurrenceLost, RowStep, NEW j \in Job, MaterializeDueJob(j)
    PROVE  NoOccurrenceLost'
  <1> DEFINE plan == IF pc = "startup" THEN startupPlan(j, asOf) ELSE regularPlan(j)
             rows(S) == {r \in Row : r[1] = j /\ r[2] \in S /\ status[r] = "ABSENT"}
  <1>1. /\ j \in due /\ cursor' = [cursor EXCEPT ![j] = plan.next]
        /\ status' = [r \in Row |-> IF r \in rows(plan.pending) THEN "PENDING"
                                    ELSE IF r \in rows(plan.skipped) THEN "SKIPPED"
                                    ELSE status[r]]
        /\ UNCHANGED <<config, enabled, since>>
    BY DEF MaterializeDueJob
  <1>2. cursor \in [Job -> Int] /\ cursor[j] \in Nat
    <2>1. cursor \in [Job -> Int] /\ DueOK /\ now \in Nat
      BY DEF AutomationInv, TypeOK, Time
    <2>2. cursor[j] \in 0 .. now
      BY <1>1, <2>1 DEF DueOK
    <2> QED BY <2>1, <2>2
  <1>3. \A i \in Job, t \in Time : <<i, t>> \in Row /\ t \in Nat
    <2>1. Time \subseteq Instant /\ Time \subseteq Nat
      <3>1. Cardinality(Key) \in Nat /\ MaxTime \in Nat
        BY AutomationAssumption, FS_CardinalityType
      <3> QED BY <3>1 DEF Time, Instant
    <2> QED BY <2>1 DEF Row
  <1>4. ASSUME NEW t \in Time, config[j].policy = "BOUNDED", config[j].limit > MaxTime,
               Occurs(config[j].schedule, t), t >= cursor[j], plan.next = NoTime \/ t < plan.next
        PROVE  t \in plan.pending
    BY <1>1, <1>4, PlanCovers
  <1> HIDE DEF plan
  <1>5. ASSUME NEW t \in plan.pending, <<j, t>> \in Row PROVE status'[<<j, t>>] # "ABSENT"
    <2> DEFINE r == <<j, t>>
    <2>1. r \in Row /\ r[1] = j /\ r[2] = t
      BY <1>5
    <2> HIDE DEF r
    <2>2. status[r] = "ABSENT" => r \in rows(plan.pending)
      BY <2>1
    <2>3. status'[r] = IF r \in rows(plan.pending) THEN "PENDING"
                       ELSE IF r \in rows(plan.skipped) THEN "SKIPPED" ELSE status[r]
      BY <1>1, <2>1
    <2> HIDE DEF rows
    <2>4. status'[r] # "ABSENT"
      BY <2>2, <2>3
    <2> QED BY <2>4 DEF r
  <1>6. ASSUME NEW i \in Job, NEW t \in Time,
               enabled[i] /\ config[i].policy = "BOUNDED" /\ config[i].limit > MaxTime,
               Occurs(config[i].schedule, t), since[i] < t, t < cursor'[i] \/ cursor'[i] = NoTime
        PROVE  status'[<<i, t>>] # "ABSENT"
    <2>1. CASE i = j /\ t >= cursor[j]
      <3>1. cursor'[j] = plan.next
        BY <1>1, <1>2
      <3> QED BY <1>3, <1>4, <1>5, <1>6, <2>1, <3>1
    <2>2. CASE i # j
      <3>1. cursor'[i] = cursor[i]
        BY <1>1, <1>2, <2>2
      <3> QED BY <1>3, <1>6, <3>1 DEF NoOccurrenceLost, RowStep
    <2>3. CASE i = j /\ ~(t >= cursor[j])
      <3>1. t < cursor[j]
        <4>1. t \in Int /\ cursor[j] \in Int /\ ~(t >= cursor[j])
          BY <1>2, <2>3 DEF Time
        <4> QED BY <4>1
      <3>2. status[<<i, t>>] # "ABSENT"
        BY <1>6, <2>3, <3>1 DEF NoOccurrenceLost
      <3> QED BY <1>3, <3>2 DEF RowStep
    <2> QED BY <2>1, <2>2, <2>3
  <1> QED BY <1>1, <1>6 DEF NoOccurrenceLost

LEMMA OccurrencesStep ==
    ASSUME AutomationInv, NoOccurrenceLost, [Next]_vars PROVE NoOccurrenceLost'
  <1>1. RowStep
    BY StepInv
  <1>2. CASE UNCHANGED jobVars
    BY <1>1, <1>2, KeptOccurrences
  <1>3. CASE \E j \in Job : MaterializeDueJob(j)
    BY <1>1, <1>3, MaterializedOccurrences
  <1>4. CASE Definitions
    <2>1. PICK j \in Job : \/ \E c \in Config, on \in BOOLEAN : WriteConfig(j, c, on)
                           \/ UNCHANGED jobVars
      BY <1>4 DEF Definitions, create, update, runNow
    <2> QED BY <1>1, <2>1, WrittenOccurrences, KeptOccurrences
  <1>5. ASSUME Next, ~UNCHANGED jobVars PROVE Definitions \/ \E j \in Job : MaterializeDueJob(j)
    <2>1. ~(Tick \/ TimerFires \/ renew \/ ListDueJobs \/ Materialized \/ ClaimRun \/ NothingToClaim)
      BY <1>5 DEF Tick, TimerFires, renew, ListDueJobs, Materialized, ClaimRun, NothingToClaim
    <2>2. ~(markRunRunning \/ Submit \/ bindRunId \/ executeUntilTerminal \/ finishRun \/ armTimer)
      BY <1>5 DEF markRunRunning, Submit, bindRunId, executeUntilTerminal, finishRun, armTimer
    <2>3. ~(Execution \/ Decision \/ \E r \in Row : CancelRun(r))
      BY <1>5 DEF Execution, Executes, RunStarts, RunDoesNotStart, RunSuspends, RunEnds,
                  RunIsInterrupted, Decision, Decide, CancelRun, RunStep
    <2>4. ~(close \/ CoordinatorClose \/ Stop \/ Crash \/ Boot \/ start)
      BY <1>5 DEF close, CoordinatorClose, Stop, Crash, LoseMemory, Boot, start
    <2> QED BY <1>5, <2>1, <2>2, <2>3, <2>4 DEF Next, Scheduler
  <1>6. UNCHANGED vars => UNCHANGED jobVars
    BY DEF vars
  <1> QED BY <1>2, <1>3, <1>4, <1>5, <1>6

LEMMA InitOccurrences == ASSUME Init PROVE NoOccurrenceLost
  BY DEF Init, NoOccurrenceLost

-----------------------------------------------------------------------------
\* What a wake, its executor and the Agent Run do with the rows, across crashes, lost
\* leases, cancellations and restarts: a prompt is submitted once at most
\* (Submit and bindRunId), a row succeeds only with the Run it is linked to
\* (finishRun), a lease that is valid belongs to the row in hand, and after an
\* orderly shutdown, which awaits the wake, none is (close).
THEOREM AutomationRows == Spec => []RowsAgree
  <1>1. ASSUME AutomationInv PROVE RowsAgree
    <2>1. TypeOK /\ WakeOK /\ LeaseOK /\ SubmissionsOK /\ SucceededIsCompleted
      BY <1>1 DEF AutomationInv
    <2>2. SubmittedOnce
      BY <2>1 DEF SubmissionsOK, SubmittedOnce
    <2>3. LeaseInHand
      BY <2>1 DEF WakeOK, LeaseOK, LeaseInHand, Alive, InHand
    <2>4. StopQuiesces
      BY <2>1 DEF WakeOK, LeaseOK, StopQuiesces, InHand, TypeOK, Time
    <2> QED BY <2>1, <2>2, <2>3, <2>4 DEF RowsAgree
  <1> QED BY <1>1, AutomationInductive, PTL

\* No request in the same instant, no late executor, no recovery and no catch-up
\* changes a row that has ended (reserveManualRun, finishRun, recoverExpiredRuns and
\* materializeDueJob).
THEOREM AutomationEnded == Spec => EndedStays
  <1>1. ASSUME AutomationInv, [Next]_vars
        PROVE  [\A r \in Row : status[r] \in TerminalRow => status'[r] = status[r]]_vars
    BY <1>1, StepInv DEF RowStep
  <1> QED BY <1>1, AutomationInductive, PTL DEF Spec, EndedStays

\* The jobs of a wake, the catch-up of a start and the edits in between never pass
\* over an occurrence of a job that may catch up with everything: materializeDueJob
\* moves the cursor only behind rows it has inserted (computeNextScheduledFor and
\* startupPlan), for any schedule and any number of crashes.
THEOREM AutomationOccurrences == Spec => []NoOccurrenceLost
  <1>1. ASSUME AutomationInv, NoOccurrenceLost, [Next]_vars PROVE NoOccurrenceLost'
    BY <1>1, OccurrencesStep
  <1> QED BY <1>1, InitOccurrences, AutomationInductive, PTL DEF Spec
=============================================================================
