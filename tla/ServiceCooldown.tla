--------------------------- MODULE ServiceCooldown ---------------------------
(***************************************************************************)
(* The pauses between calls of a service that limits its rate: the wrapper *)
(* of utils/service_cooldown.py over the service's row of                  *)
(* service_cooldowns (database/service_cooldowns.py), which the processes  *)
(* share.  A call reads the row once, sleeps, tries; a rate limit error    *)
(* makes it write a longer pause and try again.                            *)
(*                                                                         *)
(* Pauses are whole numbers of a unit in which a tick of time lasts Second *)
(* units: a process then sleeps off Second units, and the row recovers     *)
(* Recovery of them.  No row has no pause (0); a row never holds 0.        *)
(***************************************************************************)
EXTENDS Naturals

CONSTANTS
    Callers,        \* threads of control
    Second,
    Recovery,       \* recovery_factor * Second
    InitialPause,   \* initial_seconds
    ExpBase,        \* 10 * exp_base
    MaxAttempts

ASSUME ServiceCooldownAssumption ==
    /\ Second \in Nat \ {0}
    /\ Recovery \in 1..Second
    /\ InitialPause \in Nat \ {0}
    /\ ExpBase \in Nat /\ ExpBase >= 10
    /\ MaxAttempts \in Nat \ {0}

VARIABLES
    cooldown,   \* cooldown_seconds of the row, or 0
    age,        \* ticks since its updated_at, as long as they matter
    attempt,    \* of the call of each caller
    pause,      \* its pause_seconds
    asleep,     \* what is left of its sleep
    loaded,     \* cooldown_seconds as its transaction has read it
    author      \* history: the caller whose last pause is the one on record

cooldownRow == <<cooldown, age, author>>
cooldownVars == <<cooldownRow, attempt, pause, asleep, loaded>>

Longer(m, n) == IF m > n THEN m ELSE n
Minus(m, n) == IF m > n THEN m - n ELSE 0

CooldownInit ==
    /\ cooldown = 0 /\ age = 0 /\ author = {}
    /\ attempt = [p \in Callers |-> 0]
    /\ pause = [p \in Callers |-> 0]
    /\ asleep = [p \in Callers |-> 0]
    /\ loaded = [p \in Callers |-> 0]

-----------------------------------------------------------------------------
PauseFromStateMut == Minus(cooldown, 2 * Second * age)   \* wrong: recovers too fast

\* __pause_seconds_from_state: a negative pause is none, and grows like none.
PauseFromState == Minus(cooldown, Recovery * age)

\* __next_pause_seconds.
NextPause(n) == Longer((n * ExpBase) \div 10, InitialPause)

\* The wrapper is called: the row is read once.
EnterCall(p) ==
    /\ attempt' = [attempt EXCEPT ![p] = 1]
    /\ pause' = [pause EXCEPT ![p] = PauseFromState]
    /\ asleep' = [asleep EXCEPT ![p] = PauseFromState]
    /\ UNCHANGED <<cooldownRow, loaded>>

\* The sleep is over.
Awake(p) == asleep[p] = 0

MayTryAgainMut(p) == attempt[p] <= MaxAttempts      \* wrong: once too often

MayTryAgain(p) == attempt[p] < MaxAttempts

SelectedMut == 0    \* wrong: the filter on service_key finds nothing

\* What the SELECT of write() finds.
Selected == cooldown

\* A rate limit error and attempts left, and the SELECT of write().
BackOff(p) ==
    /\ attempt' = [attempt EXCEPT ![p] = @ + 1]
    /\ pause' = [pause EXCEPT ![p] = NextPause(@)]
    /\ loaded' = [loaded EXCEPT ![p] = Selected]
    /\ UNCHANGED <<cooldownRow, asleep>>

\* service_key is unique: the INSERT of a row another has inserted meanwhile
\* raises IntegrityError, into the caller.
Beaten(p) == loaded[p] = 0 /\ cooldown # 0

\* The INSERT or UPDATE of write(); the ORM emits no UPDATE, and leaves
\* updated_at alone, when the value is the one it has loaded.
Record(p) ==
    /\ ~Beaten(p)
    /\ IF loaded[p] = pause[p]
         THEN author' = author \ {p} /\ UNCHANGED <<cooldown, age>>
         ELSE author' = {p} /\ cooldown' = pause[p] /\ age' = 0
    /\ asleep' = [asleep EXCEPT ![p] = pause[p]]
    /\ loaded' = [loaded EXCEPT ![p] = 0]
    /\ UNCHANGED <<attempt, pause>>

\* The call has returned or raised.
LeaveCall(p) ==
    /\ attempt' = [attempt EXCEPT ![p] = 0]
    /\ pause' = [pause EXCEPT ![p] = 0]
    /\ asleep' = [asleep EXCEPT ![p] = 0]
    /\ loaded' = [loaded EXCEPT ![p] = 0]
    /\ UNCHANGED cooldownRow

\* Time passes.
Elapse ==
    /\ age' = IF PauseFromState > 0 THEN age + 1 ELSE age
    /\ asleep' = [p \in Callers |-> Minus(asleep[p], Second)]
    /\ UNCHANGED <<cooldown, author, attempt, pause, loaded>>

-----------------------------------------------------------------------------
CooldownTypeOK ==
    /\ cooldown \in Nat
    /\ age \in Nat
    /\ author \subseteq Callers
    /\ attempt \in [Callers -> 0..MaxAttempts]
    /\ pause \in [Callers -> Nat]
    /\ asleep \in [Callers -> Nat]
    /\ loaded \in [Callers -> Nat]

\* A pause on record reaches everybody: while the caller that wrote it sleeps,
\* whoever calls now is made to sleep at least as long.  (A caller
\* whose pause is not on record may be overtaken: the last writer wins, also with
\* a shorter pause, and the same pause as last time is not written at all.)
PauseIsShared == \A p \in author : PauseFromState >= asleep[p]

=============================================================================
