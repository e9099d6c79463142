--------------------------- MODULE MailOtpProofs ---------------------------
(***************************************************************************)
(* Theorems about MailOtp for any step, any window and any number of       *)
(* workers, jobs and crashes, and for queries of any duration.             *)
(***************************************************************************)
EXTENDS MailOtp, Lemmas

-----------------------------------------------------------------------------
(* Time steps *)

\* A step number bounds the milliseconds of its step.
LEMMA StepBounds ==
    ASSUME NEW t \in Nat
    PROVE  /\ StepOf(t) \in Nat
           /\ StepOf(t) * Step <= t
           /\ t <= (StepOf(t) + 1) * Step - 1
BY StepAssumption DEF StepOf

\* Steps are in the order of their milliseconds.
LEMMA StepBelow ==
    ASSUME NEW t \in Nat, NEW n \in Nat, t <= (n + 1) * Step - 1
    PROVE  StepOf(t) <= n
<1> DEFINE q == StepOf(t)
<1>1. q \in Nat /\ q * Step <= t
  BY StepBounds
<1> HIDE DEF q
<1>2. ASSUME q >= n + 1 PROVE FALSE
  <2>1. q * Step >= (n + 1) * Step
    BY <1>1, <1>2, StepAssumption
  <2>2. QED
    BY <1>1, <2>1, StepAssumption
<1>3. q <= n
  BY <1>1, <1>2
<1>4. QED
  BY <1>3 DEF q

-----------------------------------------------------------------------------
(* The inductive invariant *)

\* A worker that is about to SET holds the code of a step that has begun.
JobReady(w) == working[w].code <= StepOf(now)

JobsInv == \A w \in DOMAIN working : working[w].phase = "setKey" => JobReady(w)

\* The step of the key's code has begun, and the key lives for the ttl at most.
KeyInv ==
    /\ key.code <= StepOf(now)
    /\ key.expires <= key.set + TTL

IInv == TypeOK /\ JobsInv /\ KeyInv /\ LiveKeyIsAccountedFor

LEMMA TTLType == TTL \in Nat
BY StepAssumption, WindowAssumption DEF TTL

\* What a worker that has taken a job may become.
LEMMA WorkingStep ==
    ASSUME TypeOK, NEW w \in Workers, NEW job \in Job, Continue(w, job)
    PROVE  /\ IsTable(working', Workers, Job)
           /\ DOMAIN working' = DOMAIN working \cup {w}
           /\ working'[w] = job
           /\ \A v \in DOMAIN working : v # w => working'[v] = working[v]
BY PutRow DEF TypeOK, Continue

LEMMA WorkingDone ==
    ASSUME TypeOK, NEW w \in Workers, Done(w)
    PROVE  /\ IsTable(working', Workers, Job)
           /\ DOMAIN working' = DOMAIN working \ {w}
           /\ \A v \in DOMAIN working' : working'[v] = working[v]
BY DropRow DEF TypeOK, Done

\* The job of a worker at a phase is a job.
LEMMA AtJob ==
    ASSUME TypeOK, NEW w, NEW phase, At(w, phase)
    PROVE  w \in Workers /\ working[w] \in Job /\ working[w].phase = phase
BY DEF TypeOK, At, IsTable

\* The steps that leave the clock and the key alone and only move jobs keep
\* the bound on the key.
LEMMA KeyInvFrame ==
    ASSUME KeyInv, UNCHANGED <<now, key>>
    PROVE  KeyInv'
BY DEF KeyInv, TTL

-----------------------------------------------------------------------------
(* Types *)

LEMMA TypeInit == Init => TypeOK
BY DEF Init, TypeOK, IsTable, EmptyTable, Code

LEMMA CrashCount ==
    ASSUME TypeOK
    PROVE  Cardinality({w \in DOMAIN working : working[w].stalled = 0}) \in Nat
<1> DEFINE S == {w \in DOMAIN working : working[w].stalled = 0}
<1>1. S \subseteq Workers
  BY DEF TypeOK, IsTable
<1>2. IsFiniteSet(S)
  BY <1>1, WorkersAssumption, FS_Subset
<1>3. QED
  BY <1>2, FS_CardinalityType

LEMMA TypeStep == TypeOK /\ [Next]_vars => TypeOK'
<1> SUFFICES ASSUME TypeOK, [Next]_vars PROVE TypeOK'
  OBVIOUS
<1>1. CASE Request
  BY <1>1 DEF TypeOK, Request
<1>2. CASE Crash
  <2>1. IsTable(working', Workers, Job)
    BY <1>2 DEF Crash, IsTable, EmptyTable
  <2>2. waiting' \in [{0, 1} -> Nat]
    BY <1>2, CrashCount DEF Crash, TypeOK
  <2>3. CodesAt("sendMail") \subseteq Code
    BY DEF TypeOK, CodesAt, IsTable, Job
  <2>4. QED
    BY <1>2, <2>1, <2>2, <2>3 DEF Crash, TypeOK
<1>3. CASE Tick
  BY <1>3 DEF TypeOK, Tick, queue
<1>4. ASSUME NEW w \in Workers, NEW n \in {0, 1}, Take(w, n) PROVE TypeOK'
  <2>1. [phase |-> "getKey", stalled |-> n, code |-> 0] \in Job
    BY DEF Job, Code
  <2>2. IsTable(working', Workers, Job)
    BY <1>4, <2>1, WorkingStep DEF Take
  <2>3. QED
    BY <1>4, <2>2 DEF Take, TypeOK
<1>5. ASSUME NEW w \in Workers, Swallow(w) PROVE TypeOK'
  BY <1>5, WorkingDone DEF Swallow, TypeOK
<1>6. ASSUME NEW w \in Workers, Generate(w) PROVE TypeOK'
  <2>1. working[w] \in Job /\ generateOTP \in Nat
    BY <1>6, AtJob, StepBounds DEF Generate, generateOTP, TypeOK
  <2>2. [working[w] EXCEPT !.phase = "setKey", !.code = generateOTP] \in Job
    BY <2>1 DEF Job, Code
  <2>3. QED
    BY <1>6, <2>2, WorkingStep DEF Generate, TypeOK
<1>7. ASSUME NEW w \in Workers, SetKey(w) PROVE TypeOK'
  <2>1. working[w] \in Job
    BY <1>7, AtJob DEF SetKey
  <2>2. [working[w] EXCEPT !.phase = "sendMail"] \in Job /\ working[w].code \in Code
    BY <2>1 DEF Job
  <2>3. IsTable(working', Workers, Job)
    BY <1>7, <2>2, WorkingStep DEF SetKey
  <2>4. key' \in [code: Code, expires: Nat, set: Nat]
    BY <1>7, <2>2, TTLType DEF SetKey, KeyHolding, TypeOK
  <2>5. QED
    BY <1>7, <2>3, <2>4 DEF SetKey, TypeOK
<1>8. ASSUME NEW w \in Workers, SendMail(w) PROVE TypeOK'
  <2>1. working[w] \in Job
    BY <1>8, AtJob DEF SendMail
  <2>2. [working[w] EXCEPT !.phase = "complete"] \in Job /\ working[w].code \in Code
    BY <2>1 DEF Job
  <2>3. QED
    BY <1>8, <2>2, WorkingStep DEF SendMail, TypeOK
<1>9. ASSUME NEW w \in Workers, Complete(w) PROVE TypeOK'
  BY <1>9, WorkingDone DEF Complete, TypeOK
<1>10. ASSUME NEW w \in Workers, Fail(w) PROVE TypeOK'
  <2>1. working[w] \in Job
    BY <1>10, AtJob DEF Fail
  <2>2. lost' \subseteq Code
    BY <1>10, <2>1 DEF Fail, TypeOK, Job
  <2>3. QED
    BY <1>10, <2>2, WorkingDone DEF Fail, TypeOK
<1>11. CASE UNCHANGED vars
  BY <1>11 DEF TypeOK, vars, queue
<1>12. QED
  BY <1>1, <1>2, <1>3, <1>4, <1>5, <1>6, <1>7, <1>8, <1>9, <1>10, <1>11 DEF Next, Work

\* The clock, the key and the queue always hold values of their types.
THEOREM TypeCorrect == Spec => []TypeOK
BY TypeInit, TypeStep, PTL DEF Spec

-----------------------------------------------------------------------------
(* The key *)

LEMMA InvInit == Init => IInv
<1> SUFFICES ASSUME Init PROVE IInv
  OBVIOUS
<1>1. TypeOK
  BY TypeInit
<1>2. JobsInv
  BY DEF Init, JobsInv, EmptyTable
<1>3. KeyInv
  <2>1. now = 0 /\ key.code = 0 /\ key.expires = 0 /\ key.set = 0
    BY DEF Init
  <2>2. 0 <= StepOf(now) /\ TTL \in Nat
    BY <2>1, StepBounds, TTLType
  <2>3. QED
    BY <2>1, <2>2 DEF KeyInv
<1>4. LiveKeyIsAccountedFor
  BY DEF Init, LiveKeyIsAccountedFor, KeyLive
<1>5. QED
  BY <1>1, <1>2, <1>3, <1>4 DEF IInv

\* The clock only moves on to the same step or a later one.
LEMMA StepsGrow ==
    ASSUME NEW t \in Nat, NEW u \in Nat, t <= u
    PROVE  StepOf(t) <= StepOf(u)
<1> DEFINE n == StepOf(u)
<1>1. n \in Nat /\ u <= (n + 1) * Step - 1
  BY StepBounds
<1> HIDE DEF n
<1>2. t <= (n + 1) * Step - 1
  BY <1>1, StepAssumption
<1>3. StepOf(t) <= n
  BY <1>1, <1>2, StepBelow
<1>4. QED
  BY <1>3 DEF n

LEMMA ClockGrows ==
    ASSUME TypeOK, Tick
    PROVE  StepOf(now) <= StepOf(now') /\ StepOf(now) \in Nat /\ StepOf(now') \in Nat
<1>1. now \in Nat /\ now' = now + 1 /\ now' \in Nat
  BY DEF TypeOK, Tick
<1>2. QED
  BY <1>1, StepsGrow, StepBounds

\* Only Generate brings a worker to its SET, with the code of the present step.
LEMMA JobsStep == TypeOK /\ JobsInv /\ [Next]_vars => JobsInv'
<1> SUFFICES ASSUME TypeOK, JobsInv, [Next]_vars,
                    NEW v \in DOMAIN working', working'[v].phase = "setKey"
             PROVE  JobReady(v)'
  BY DEF JobsInv
<1> DEFINE Kept == v \in DOMAIN working /\ working'[v] = working[v] /\ now' = now
<1>1. ASSUME Kept PROVE JobReady(v)'
  BY <1>1 DEF JobsInv, JobReady, StepOf
<1>2. CASE Request
  BY <1>1, <1>2 DEF Request
<1>3. CASE Crash
  BY <1>3 DEF Crash, EmptyTable
<1>4. CASE Tick
  <2>1. working' = working /\ now' = now + 1 /\ v \in DOMAIN working
    BY <1>4 DEF Tick, queue
  <2>2. working[v].code <= StepOf(now) /\ working[v].code \in Nat
    BY <2>1 DEF JobsInv, JobReady, TypeOK, IsTable, Job, Code
  <2>3. working[v].code <= StepOf(now')
    BY <1>4, <2>2, ClockGrows
  <2>4. QED
    BY <2>1, <2>3 DEF JobReady, StepOf
<1>5. ASSUME NEW w \in Workers, NEW n \in {0, 1}, Take(w, n) PROVE JobReady(v)'
  <2> DEFINE job == [phase |-> "getKey", stalled |-> n, code |-> 0]
  <2>1. job \in Job /\ job.phase = "getKey"
    BY DEF Job, Code
  <2>2. Continue(w, job) /\ now' = now
    BY <1>5 DEF Take
  <2> HIDE DEF job
  <2>3. Kept
    BY <2>1, <2>2, WorkingStep
  <2>4. QED
    BY <1>1, <2>3
<1>6. ASSUME NEW w \in Workers, Swallow(w) PROVE JobReady(v)'
  BY <1>1, <1>6, WorkingDone DEF Swallow
<1>7. ASSUME NEW w \in Workers, Generate(w) PROVE JobReady(v)'
  <2> DEFINE job == [working[w] EXCEPT !.phase = "setKey", !.code = generateOTP]
  <2>1. working[w] \in Job /\ generateOTP \in Nat
    BY <1>7, AtJob, StepBounds DEF Generate, generateOTP, TypeOK
  <2>2. job \in Job /\ job.code = StepOf(now)
    BY <2>1 DEF Job, Code, generateOTP
  <2>3. Continue(w, job) /\ now' = now
    BY <1>7 DEF Generate
  <2> HIDE DEF job
  <2>4. /\ v = w => working'[v] = job
        /\ v # w => v \in DOMAIN working /\ working'[v] = working[v]
    BY <2>2, <2>3, WorkingStep
  <2>5. CASE v = w
    BY <2>1, <2>2, <2>3, <2>4, <2>5 DEF JobReady, StepOf, generateOTP
  <2>6. CASE v # w
    BY <1>1, <2>3, <2>4, <2>6
  <2>7. QED
    BY <2>5, <2>6
<1>8. ASSUME NEW w \in Workers, SetKey(w) PROVE JobReady(v)'
  <2>1. working[w] \in Job
    BY <1>8, AtJob DEF SetKey
  <2>2. /\ [working[w] EXCEPT !.phase = "sendMail"] \in Job
        /\ [working[w] EXCEPT !.phase = "sendMail"].phase = "sendMail"
    BY <2>1 DEF Job
  <2>3. Kept
    BY <1>8, <2>2, WorkingStep DEF SetKey
  <2>4. QED
    BY <1>1, <2>3
<1>9. ASSUME NEW w \in Workers, SendMail(w) PROVE JobReady(v)'
  <2>1. working[w] \in Job
    BY <1>9, AtJob DEF SendMail
  <2>2. /\ [working[w] EXCEPT !.phase = "complete"] \in Job
        /\ [working[w] EXCEPT !.phase = "complete"].phase = "complete"
    BY <2>1 DEF Job
  <2>3. Kept
    BY <1>9, <2>2, WorkingStep DEF SendMail
  <2>4. QED
    BY <1>1, <2>3
<1>10. ASSUME NEW w \in Workers, Complete(w) PROVE JobReady(v)'
  BY <1>1, <1>10, WorkingDone DEF Complete
<1>11. ASSUME NEW w \in Workers, Fail(w) PROVE JobReady(v)'
  BY <1>1, <1>11, WorkingDone DEF Fail
<1>12. CASE UNCHANGED vars
  BY <1>1, <1>12 DEF vars, queue
<1>13. QED
  BY <1>2, <1>3, <1>4, <1>5, <1>6, <1>7, <1>8, <1>9, <1>10, <1>11, <1>12 DEF Next, Work

\* Only SetKey writes the key, and only Tick moves the clock.
LEMMA KeyWrites ==
    ASSUME [Next]_vars
    PROVE  \/ UNCHANGED <<now, key>>
           \/ Tick
           \/ \E w \in Workers : SetKey(w)
<1>1. ASSUME NEW w \in Workers, Work(w) \/ Fail(w)
      PROVE  UNCHANGED <<now, key>> \/ SetKey(w)
  BY <1>1 DEF Work, Take, Swallow, Generate, SendMail, Complete, Fail
<1>2. QED
  BY <1>1 DEF Next, Request, Crash, vars

LEMMA KeyStep == TypeOK /\ JobsInv /\ KeyInv /\ [Next]_vars => KeyInv'
<1> SUFFICES ASSUME TypeOK, JobsInv, KeyInv, [Next]_vars PROVE KeyInv'
  OBVIOUS
<1>1. CASE UNCHANGED <<now, key>>
  BY <1>1, KeyInvFrame
<1>2. CASE Tick
  <2>1. key' = key /\ key.code \in Nat
    BY <1>2 DEF Tick, TypeOK, Code
  <2>2. key.code <= StepOf(now')
    BY <1>2, <2>1, ClockGrows DEF KeyInv
  <2>3. QED
    BY <2>1, <2>2 DEF KeyInv, TTL, StepOf
<1>3. ASSUME NEW w \in Workers, SetKey(w) PROVE KeyInv'
  <2>1. w \in DOMAIN working /\ working[w].phase = "setKey" /\ now \in Nat
    BY <1>3 DEF SetKey, At, TypeOK
  <2>2. working[w].code <= StepOf(now)
    BY <2>1 DEF JobsInv, JobReady
  <2>3. /\ key'.code = working[w].code /\ key'.expires = now + TTL /\ key'.set = now
        /\ now' = now
    BY <1>3 DEF SetKey, KeyHolding
  <2>4. key'.expires <= key'.set + TTL
    BY <2>1, <2>3, TTLType
  <2>5. QED
    BY <2>2, <2>3, <2>4 DEF KeyInv, TTL, StepOf
<1>4. QED
  BY <1>1, <1>2, <1>3, KeyWrites

\* What is left of the key's life, its lateness taken off, ends with the window.
LEMMA KeyInvVerifies == TypeOK /\ KeyInv => LiveKeyVerifies
<1> SUFFICES ASSUME TypeOK, KeyInv, now < key.expires - Late PROVE verifyOTP(key.code)
  BY DEF LiveKeyVerifies
<1> DEFINE n == key.code + Window
           end == StepEnd(key.code)
<1>1. /\ now \in Nat /\ key.code \in Nat /\ n \in Nat
      /\ key.set \in Nat /\ key.expires \in Nat
  BY WindowAssumption DEF TypeOK, Code
<1>2. end \in Nat /\ TTL \in Nat
  BY <1>1, StepAssumption, TTLType DEF StepEnd
<1>3. end + TTL = (n + 1) * Step
  BY <1>1, StepAssumption, WindowAssumption DEF StepEnd, TTL
<1>4. Late = (IF key.set < end THEN 0 ELSE key.set - end)
  BY DEF Late
<1> HIDE DEF end
<1>5. now <= end + TTL - 1
  BY <1>1, <1>2, <1>4 DEF KeyInv
<1>6. now <= (n + 1) * Step - 1
  <2> DEFINE past == (n + 1) * Step
  <2>1. end + TTL = past
    BY <1>3
  <2> HIDE DEF past
  <2>2. now <= past - 1
    BY <1>1, <1>2, <1>5, <2>1
  <2>3. QED
    BY <2>2 DEF past
<1>7. StepOf(now) <= n /\ StepOf(now) \in Nat
  BY <1>1, <1>6, StepBelow, StepBounds
<1>8. key.code <= StepOf(now)
  BY DEF KeyInv
<1>9. StepOf(now) - key.code \in -Window..Window
  BY <1>1, <1>7, <1>8, WindowAssumption
<1>10. QED
  BY <1>9 DEF verifyOTP

\* A key that lives after a step lived before it, and its code stays with the
\* worker that is to mail it until it is mailed or lost.
LEMMA AccountedStep ==
    TypeOK /\ LiveKeyIsAccountedFor /\ [Next]_vars => LiveKeyIsAccountedFor'
<1> SUFFICES ASSUME TypeOK, LiveKeyIsAccountedFor, [Next]_vars, KeyLive'
             PROVE  key'.code \in mailed' \cup CodesAt("sendMail")' \cup lost'
  BY DEF LiveKeyIsAccountedFor
<1> DEFINE Accounted == mailed \cup CodesAt("sendMail") \cup lost
<1>1. ASSUME key' = key, KeyLive, Accounted \subseteq Accounted' PROVE key'.code \in Accounted'
  BY <1>1 DEF LiveKeyIsAccountedFor
<1>2. CASE Request
  BY <1>1, <1>2 DEF Request, KeyLive, CodesAt
<1>3. CASE Crash
  <2>1. lost' = lost \cup CodesAt("sendMail") /\ mailed' = mailed
    BY <1>3 DEF Crash
  <2>2. Accounted \subseteq Accounted'
    BY <2>1
  <2>3. key' = key /\ KeyLive
    BY <1>3 DEF Crash, KeyLive
  <2>4. QED
    BY <1>1, <2>2, <2>3
<1>4. CASE Tick
  <2>1. KeyLive
    BY <1>4 DEF Tick, KeyLive, TypeOK
  <2>2. QED
    BY <1>1, <1>4, <2>1 DEF Tick, CodesAt, queue
<1>5. ASSUME NEW w \in Workers, NEW job \in Job, Continue(w, job),
             w \notin DOMAIN working \/ working[w].phase # "sendMail"
      PROVE  CodesAt("sendMail") \subseteq CodesAt("sendMail")'
  BY <1>5, WorkingStep DEF CodesAt
<1>6. ASSUME NEW w \in Workers, Done(w),
             working[w].phase # "sendMail" \/ working[w].code \in lost'
      PROVE  CodesAt("sendMail") \subseteq CodesAt("sendMail")' \cup lost'
  BY <1>6, WorkingDone DEF CodesAt
<1>7. ASSUME NEW w \in Workers, NEW n \in {0, 1}, Take(w, n) PROVE key'.code \in Accounted'
  <2>1. [phase |-> "getKey", stalled |-> n, code |-> 0] \in Job
    BY DEF Job, Code
  <2>2. QED
    BY <1>1, <1>5, <1>7, <2>1 DEF Take, KeyLive
<1>8. ASSUME NEW w \in Workers, Swallow(w) PROVE key'.code \in Accounted'
  BY <1>1, <1>6, <1>8 DEF Swallow, KeyLive, At
<1>9. ASSUME NEW w \in Workers, Generate(w) PROVE key'.code \in Accounted'
  <2>1. working[w] \in Job /\ generateOTP \in Nat
    BY <1>9, AtJob, StepBounds DEF Generate, generateOTP, TypeOK
  <2>2. [working[w] EXCEPT !.phase = "setKey", !.code = generateOTP] \in Job
    BY <2>1 DEF Job, Code
  <2>3. QED
    BY <1>1, <1>5, <1>9, <2>2 DEF Generate, KeyLive, At
<1>10. ASSUME NEW w \in Workers, SetKey(w) PROVE key'.code \in Accounted'
  <2> DEFINE job == [working[w] EXCEPT !.phase = "sendMail"]
  <2>1. working[w] \in Job
    BY <1>10, AtJob DEF SetKey
  <2>2. job \in Job /\ job.phase = "sendMail" /\ job.code = working[w].code
    BY <2>1 DEF Job
  <2>3. Continue(w, job) /\ key'.code = job.code
    BY <1>10, <2>2 DEF SetKey, KeyHolding
  <2> HIDE DEF job
  <2>4. w \in DOMAIN working' /\ working'[w] = job
    BY <2>2, <2>3, WorkingStep
  <2>5. QED
    BY <2>2, <2>3, <2>4 DEF CodesAt
<1>11. ASSUME NEW w \in Workers, SendMail(w) PROVE key'.code \in Accounted'
  <2> DEFINE job == [working[w] EXCEPT !.phase = "complete"]
  <2>1. working[w] \in Job
    BY <1>11, AtJob DEF SendMail
  <2>2. job \in Job
    BY <2>1 DEF Job
  <2>3. Continue(w, job)
    BY <1>11 DEF SendMail
  <2> HIDE DEF job
  <2>4. CodesAt("sendMail") \subseteq CodesAt("sendMail")' \cup {working[w].code}
    BY <2>2, <2>3, WorkingStep DEF CodesAt
  <2>5. QED
    BY <1>1, <1>11, <2>4 DEF SendMail, KeyLive
<1>12. ASSUME NEW w \in Workers, Complete(w) PROVE key'.code \in Accounted'
  BY <1>1, <1>6, <1>12 DEF Complete, KeyLive, At
<1>13. ASSUME NEW w \in Workers, Fail(w) PROVE key'.code \in Accounted'
  <2>1. Done(w) /\ (working[w].phase # "sendMail" \/ working[w].code \in lost')
    BY <1>13 DEF Fail, At
  <2>2. lost \subseteq lost' /\ mailed' = mailed /\ key' = key /\ now' = now
    BY <1>13 DEF Fail
  <2>3. QED
    BY <1>1, <1>6, <2>1, <2>2 DEF KeyLive
<1>14. CASE UNCHANGED vars
  BY <1>1, <1>14 DEF vars, queue, KeyLive, CodesAt
<1>15. QED
  BY <1>2, <1>3, <1>4, <1>7, <1>8, <1>9, <1>10, <1>11, <1>12, <1>13, <1>14 DEF Next, Work

-----------------------------------------------------------------------------
(* Theorems *)

LEMMA InvStep == IInv /\ [Next]_vars => IInv'
BY TypeStep, JobsStep, KeyStep, AccountedStep DEF IInv

\* While the Redis key makes SendMailConsumer swallow further jobs, verifyOTP
\* accepts the code it holds, but for as long at the end of the key's life as
\* its SET came after the end of the code's time step.
THEOREM LiveKeyAccepted == Spec => []LiveKeyVerifies
<1>1. IInv => LiveKeyVerifies
  BY KeyInvVerifies DEF IInv
<1>2. QED
  BY <1>1, InvInit, InvStep, PTL DEF Spec

\* The code of a live key has been mailed, is about to be, or was lost to a
\* failure of the mail server or of the process.
THEOREM LiveKeyAccounted == Spec => []LiveKeyIsAccountedFor
<1>1. IInv => LiveKeyIsAccountedFor
  BY DEF IInv
<1>2. QED
  BY <1>1, InvInit, InvStep, PTL DEF Spec
=============================================================================
