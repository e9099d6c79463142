------------------------------ MODULE MailOtp ------------------------------
(***************************************************************************)
(* The one-time codes mailed to one address: the jobs that register,       *)
(* resendEmail and forgotPassword of AuthService put into the send-mail    *)
(* queue, the consumer that turns a job into a mail, the Redis key that    *)
(* keeps it from mailing twice, and the TOTP codes of OtpService.          *)
(*                                                                         *)
(* A code is a function of the secret of the address and of the number of  *)
(* the time step it was generated in, so a code is modelled as that        *)
(* number.  Addresses share neither keys nor secrets: one is enough.       *)
(* The process and Redis read one clock, in milliseconds, which runs on    *)
(* between any two steps: a GET, a SET or a mail may take any time.        *)
(***************************************************************************)
EXTENDS Integers, FiniteSets, Tables

CONSTANTS
    Step,     \* OTP_OPTION.step: milliseconds in a time step
    Window,   \* OTP_OPTION.window: steps a code is accepted before and after
    Workers,  \* jobs processed at a time: one per @Process method
    MaxTime,  \* bound of the model on the clock
    MaxJobs   \* bound of the model on the jobs ever added

ASSUME StepAssumption == Step \in Nat \ {0}
ASSUME WindowAssumption == Window \in Nat \ {0}
ASSUME WorkersAssumption == IsFiniteSet(Workers)

VARIABLES
    now,       \* milliseconds
    key,       \* global:sendMail:<email>: the code it holds, when it expires
               \* (history: when it was SET)
    waiting,   \* jobs in the queue, by how often they have stalled before
    working,   \* worker -> the job it has taken and what it knows
    added,     \* jobs ever added
    mailed,    \* history: codes that have reached the address
    lost       \* history: codes whose mail failed or was cut off by a crash

queue == <<waiting, working, added>>
vars == <<now, key, queue, mailed, lost>>

Code == Nat

\* getKey: about to GET; setKey: has found none and generated a code; sendMail:
\* SET is done; complete: the mail is out, the queue does not know yet.
Job == [phase: {"getKey", "setKey", "sendMail", "complete"},
        stalled: {0, 1}, code: Code]

-----------------------------------------------------------------------------
(* OtpService *)

StepOf(t) == t \div Step

\* Mutant: the code of the step before.
GenerateOTPPrevious == StepOf(now) - 1

generateOTP == StepOf(now)

\* authenticator.verify accepts window steps on both sides of the present one.
verifyOTP(code) == StepOf(now) - code \in -Window..Window

\* Mutant: the key lives as many steps as the code can be accepted in.
TTLWholeSteps == Step * (Window + 1)

\* The ttl of the key.
TTL == Step * Window

KeyLive == now < key.expires

\* What a SET with this ttl leaves in Redis.
KeyHolding(code) == [code |-> code, expires |-> now + TTL, set |-> now]

-----------------------------------------------------------------------------
Init ==
    /\ now = 0
    /\ key = [code |-> 0, expires |-> 0, set |-> 0]
    /\ waiting = [n \in {0, 1} |-> 0]
    /\ working = EmptyTable
    /\ added = 0
    /\ mailed = {}
    /\ lost = {}

At(w, phase) == w \in DOMAIN working /\ working[w].phase = phase
Continue(w, job) == working' = Put(working, w, job)
Done(w) == working' = Drop(working, w)

\* register, resendEmail or forgotPassword adds a job.
Request ==
    /\ added < MaxJobs
    /\ added' = added + 1
    /\ waiting' = [waiting EXCEPT ![0] = @ + 1]
    /\ UNCHANGED <<now, key, working, mailed, lost>>

\* The queue gives worker w a job that has stalled n times before.
Take(w, n) ==
    /\ w \notin DOMAIN working
    /\ waiting[n] > 0
    /\ waiting' = [waiting EXCEPT ![n] = @ - 1]
    /\ Continue(w, [phase |-> "getKey", stalled |-> n, code |-> 0])
    /\ UNCHANGED <<now, key, added, mailed, lost>>

\* Mutant: the early return leaves the job unanswered.
SwallowUnanswered(w) ==
    /\ At(w, "getKey")
    /\ KeyLive
    /\ Continue(w, [working[w] EXCEPT !.phase = "unanswered"])
    /\ UNCHANGED <<now, key, waiting, added, mailed, lost>>

\* 'Email: ... has been sent'
Swallow(w) ==
    /\ At(w, "getKey")
    /\ KeyLive
    /\ Done(w)
    /\ UNCHANGED <<now, key, waiting, added, mailed, lost>>

Generate(w) ==
    /\ At(w, "getKey")
    /\ ~KeyLive
    /\ Continue(w, [working[w] EXCEPT !.phase = "setKey", !.code = generateOTP])
    /\ UNCHANGED <<now, key, waiting, added, mailed, lost>>

\* Mutant: the key is given a code of its own.
SetKeyFresh(w) ==
    /\ At(w, "setKey")
    /\ key' = KeyHolding(generateOTP)
    /\ Continue(w, [working[w] EXCEPT !.phase = "sendMail"])
    /\ UNCHANGED <<now, waiting, added, mailed, lost>>

SetKey(w) ==
    /\ At(w, "setKey")
    /\ key' = KeyHolding(working[w].code)
    /\ Continue(w, [working[w] EXCEPT !.phase = "sendMail"])
    /\ UNCHANGED <<now, waiting, added, mailed, lost>>

SendMail(w) ==
    /\ At(w, "sendMail")
    /\ mailed' = mailed \cup {working[w].code}
    /\ Continue(w, [working[w] EXCEPT !.phase = "complete"])
    /\ UNCHANGED <<now, key, waiting, added, lost>>

Complete(w) ==
    /\ At(w, "complete")
    /\ Done(w)
    /\ UNCHANGED <<now, key, waiting, added, mailed, lost>>

CodesAt(phase) == {working[w].code : w \in {v \in DOMAIN working : working[v].phase = phase}}

\* A query or the mail server fails: a job has one attempt, the queue drops it.
Fail(w) ==
    /\ At(w, "getKey") \/ At(w, "setKey") \/ At(w, "sendMail")
    /\ lost' = IF At(w, "sendMail") THEN lost \cup {working[w].code} ELSE lost
    /\ Done(w)
    /\ UNCHANGED <<now, key, waiting, added, mailed>>

\* The process dies and comes back: the queue finds the jobs it had taken
\* stalled and gives them out again, unless they have stalled before.
Crash ==
    /\ working # EmptyTable
    /\ waiting' = [waiting EXCEPT ![1] = @ +
            Cardinality({w \in DOMAIN working : working[w].stalled = 0})]
    /\ working' = EmptyTable
    /\ lost' = lost \cup CodesAt("sendMail")
    /\ UNCHANGED <<now, key, added, mailed>>

Tick ==
    /\ now < MaxTime
    /\ now' = now + 1
    /\ UNCHANGED <<key, queue, mailed, lost>>

Work(w) ==
    \/ \E n \in {0, 1} : Take(w, n)
    \/ Swallow(w) \/ Generate(w) \/ SetKey(w) \/ SendMail(w) \/ Complete(w)

Next ==
    \/ Request \/ Crash \/ Tick
    \/ \E w \in Workers : Work(w) \/ Fail(w)

\* The event loop goes on: a worker that can take its next step takes it.
Fairness == \A w \in Workers : WF_vars(Work(w))

Spec == Init /\ [][Next]_vars /\ Fairness

-----------------------------------------------------------------------------
(* Properties *)

\* Clock, key, queue and workers hold values of their types.
TypeOK ==
    /\ now \in Nat
    /\ key \in [code: Code, expires: Nat, set: Nat]
    /\ waiting \in [{0, 1} -> Nat]
    /\ IsTable(working, Workers, Job)
    /\ added \in Nat
    /\ mailed \subseteq Code
    /\ lost \subseteq Code

\* The instant at which the time step of a code is over.
StepEnd(code) == (code + 1) * Step

\* How long after the end of the step its code was generated in the key was SET.
Late == IF key.set < StepEnd(key.code) THEN 0 ELSE key.set - StepEnd(key.code)

\* While the key keeps the consumer from mailing another code, the code it holds
\* is still accepted, but for the last Late milliseconds of its life: the ttl
\* counts from the SET and the window from the end of the code's step, so a
\* user is left with a dead code and no new one for no longer than the SET came
\* after that end, and not at all when it came within the step
\* (SendMailConsumer, OtpService.verifyOTP).
LiveKeyVerifies == now < key.expires - Late => verifyOTP(key.code)

\* The code of a live key has been mailed, or a worker is about to mail it,
\* or its mail failed: no other way leads to a key that swallows requests
\* without a code in the inbox.
LiveKeyIsAccountedFor ==
    KeyLive => key.code \in mailed \cup CodesAt("sendMail") \cup lost

Idle == working = EmptyTable /\ \A n \in {0, 1} : waiting[n] = 0

\* Every job is done, dropped or given up in the end, however often the process
\* crashes: one that has stalled twice is not given out again.
QueueDrains == ~Idle ~> Idle
=============================================================================
