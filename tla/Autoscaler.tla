----------------------------- MODULE Autoscaler -----------------------------
(* autoscaler.py: a loop that measures the backlog, computes how many        *)
(* workers it needs and starts or stops clones of the compose worker.  Every *)
(* step is one call to the database, Redis or Docker, and any of them may    *)
(* fail: main() catches the exception and tries again at the next tick.      *)
EXTENDS Integers

CONSTANTS
    MinWorkers, MaxWorkers, BacklogPerWorker,   \* AUTOSCALE_*
    Cooldown,       \* AUTOSCALE_SCALE_DOWN_COOLDOWN_SECONDS, in ticks of time
    MaxBacklog,     \* bound: waiting jobs
    MaxFaults,      \* bound: failed calls, crashed clones and restarts
    MaxOutages,     \* bound: stops of the compose worker
    FaultPoints     \* calls that may fail

ASSUME WorkersAssumption ==
    MinWorkers \in Nat \ {0} /\ MaxWorkers \in Nat /\ BacklogPerWorker \in Nat \ {0}
ASSUME ScalerBoundsAssumption ==
    /\ Cooldown \in Nat /\ MaxBacklog \in Nat
    /\ MaxFaults \in Nat /\ MaxOutages \in Nat

VARIABLES
    backlog,    \* PENDING jobs and undelivered messages
    template,   \* is the compose worker running?
    clones,     \* running clones that the loop is not about to stop
    doomed,     \* running clones that the loop is about to stop
    pc,         \* the next call of the loop
    desired,    \* compute_desired_workers(...) of this tick
    left,       \* iterations that remain of the loop in scale_to
    below,      \* time since _below_since, at most Cooldown; -1 for None
    quiet,      \* history: time since a tick last wanted all workers or more
    faults, outages

loopVars == <<pc, desired, left, below>>
vars == <<backlog, template, clones, doomed, loopVars, quiet, faults, outages>>

None == -1
ScalerPoints == {"idle", "count", "up", "down", "start", "choose", "stop"}

ScalerTypeOK ==
    /\ backlog \in 0..MaxBacklog
    /\ template \in BOOLEAN
    /\ clones \in Nat /\ doomed \in Nat
    /\ pc \in ScalerPoints
    /\ desired \in Nat /\ left \in Nat
    /\ below \in {None} \cup 0..Cooldown
    /\ quiet \in 0..Cooldown
    /\ faults \in 0..MaxFaults /\ outages \in 0..MaxOutages

ScalerInit ==
    /\ backlog = 0
    /\ template = TRUE
    /\ clones = 0 /\ doomed = 0
    /\ pc = "idle"
    /\ desired = 0 /\ left = 0
    /\ below = None
    /\ quiet = 0
    /\ faults = 0 /\ outages = 0

-----------------------------------------------------------------------------
(* compute_desired_workers *)

AtMost(n, hi)  == IF n <= hi THEN n ELSE hi
AtLeast(n, lo) == IF lo <= n THEN n ELSE lo

Unclamped(b) ==     \* mutant: no maximum
    IF b = 0 THEN MinWorkers
    ELSE AtLeast((b + BacklogPerWorker - 1) \div BacklogPerWorker, MinWorkers)

Desired(b) ==
    IF b = 0 THEN MinWorkers
    ELSE AtLeast(AtMost((b + BacklogPerWorker - 1) \div BacklogPerWorker, MaxWorkers),
                 MinWorkers)

Fleet == (IF template THEN 1 ELSE 0) + clones + doomed

-----------------------------------------------------------------------------
(* Autoscaler.step *)

Measure ==
    /\ pc = "idle"
    /\ pc' = "count"
    /\ desired' = Desired(backlog)
    /\ UNCHANGED <<backlog, template, clones, doomed, left, below, quiet, faults, outages>>

WantMore ==
    /\ pc = "count"
    /\ desired > Fleet
    /\ pc' = "up"
    /\ quiet' = 0
    /\ UNCHANGED <<backlog, template, clones, doomed, desired, left, below, faults, outages>>

KeepWaiting ==      \* mutant: a tick that wants the same number is no interruption
    /\ pc = "count"
    /\ desired = Fleet
    /\ pc' = "idle"
    /\ quiet' = 0
    /\ UNCHANGED <<backlog, template, clones, doomed, desired, left, below, faults, outages>>

WantSame ==
    /\ pc = "count"
    /\ desired = Fleet
    /\ pc' = "idle"
    /\ below' = None
    /\ quiet' = 0
    /\ UNCHANGED <<backlog, template, clones, doomed, desired, left, faults, outages>>

WantFewer ==
    /\ pc = "count"
    /\ desired < Fleet
    /\ \/ /\ below = None
          /\ below' = 0
          /\ pc' = "idle"
       \/ /\ below \in 0 .. Cooldown - 1
          /\ pc' = "idle"
          /\ UNCHANGED below
       \/ /\ below = Cooldown
          /\ pc' = "down"
          /\ UNCHANGED below
    /\ UNCHANGED <<backlog, template, clones, doomed, desired, left, quiet, faults, outages>>

(* scale_to counts again and does what the new count asks for.               *)
Recount ==
    /\ pc \in {"up", "down"}
    /\ \/ /\ desired > Fleet
          /\ pc' = "start"
          /\ left' = desired - Fleet
          /\ UNCHANGED below
       \/ /\ desired < Fleet
          /\ pc' = "choose"
          /\ left' = Fleet - desired
          /\ UNCHANGED below
       \/ /\ desired = Fleet
          /\ pc' = "idle"
          /\ below' = None
          /\ UNCHANGED left
    /\ UNCHANGED <<backlog, template, clones, doomed, desired, quiet, faults, outages>>

(* _start_clone: without a running template it logs an error and returns.    *)
StartClone ==
    /\ pc = "start"
    /\ left > 0
    /\ left' = left - 1
    /\ clones' = IF template THEN clones + 1 ELSE clones
    /\ UNCHANGED <<backlog, template, doomed, pc, desired, below, quiet, faults, outages>>

(* The newest clones of a fresh listing; the template is never among them.   *)
ChooseVictims ==
    /\ pc = "choose"
    /\ doomed' = AtMost(left, clones)
    /\ clones' = clones - doomed'
    /\ left' = 0
    /\ pc' = "stop"
    /\ UNCHANGED <<backlog, template, desired, below, quiet, faults, outages>>

StopNothing == FALSE    \* mutant: the clones are listed but not stopped

StopClone ==
    /\ pc = "stop"
    /\ doomed > 0
    /\ doomed' = doomed - 1
    /\ UNCHANGED <<backlog, template, clones, loopVars, quiet, faults, outages>>

ScaledTo ==
    /\ \/ pc = "start" /\ left = 0
       \/ pc = "stop" /\ doomed = 0
    /\ pc' = "idle"
    /\ below' = None
    /\ UNCHANGED <<backlog, template, clones, doomed, desired, left, quiet, faults, outages>>

-----------------------------------------------------------------------------
(* What goes wrong *)

Abandon ==      \* the running victims are ordinary clones again
    /\ pc' = "idle"
    /\ left' = 0
    /\ clones' = clones + doomed
    /\ doomed' = 0
    /\ faults < MaxFaults /\ faults' = faults + 1
    /\ UNCHANGED <<backlog, template, desired, quiet, outages>>

(* An exception: _below_since keeps its value.                               *)
TickFails ==
    /\ pc \in FaultPoints
    /\ Abandon
    /\ UNCHANGED below

(* The autoscaler's container is restarted.                                  *)
Restart ==
    /\ Abandon
    /\ below' = None

CloneCrashes ==
    /\ faults < MaxFaults /\ faults' = faults + 1
    /\ \/ clones > 0 /\ clones' = clones - 1 /\ UNCHANGED doomed
       \/ doomed > 0 /\ doomed' = doomed - 1 /\ UNCHANGED clones
    /\ UNCHANGED <<backlog, template, loopVars, quiet, outages>>

-----------------------------------------------------------------------------
(* What goes on outside *)

BacklogChanges ==
    /\ backlog' \in 0..MaxBacklog
    /\ UNCHANGED <<template, clones, doomed, loopVars, quiet, faults, outages>>

TemplateStops ==
    /\ template
    /\ outages < MaxOutages /\ outages' = outages + 1
    /\ template' = FALSE
    /\ UNCHANGED <<backlog, clones, doomed, loopVars, quiet, faults>>

TemplateReturns ==
    /\ ~template
    /\ template' = TRUE
    /\ UNCHANGED <<backlog, clones, doomed, loopVars, quiet, faults, outages>>

TimePasses ==
    /\ below' = IF below = None THEN None ELSE AtMost(below + 1, Cooldown)
    /\ quiet' = AtMost(quiet + 1, Cooldown)
    /\ UNCHANGED <<backlog, template, clones, doomed, pc, desired, left, faults, outages>>

LoopStep ==
    \/ Measure \/ WantMore \/ WantSame \/ WantFewer
    \/ Recount \/ StartClone \/ ChooseVictims \/ StopClone \/ ScaledTo

ScalerNext ==
    \/ LoopStep
    \/ TickFails \/ Restart \/ CloneCrashes
    \/ BacklogChanges \/ TemplateStops \/ TemplateReturns \/ TimePasses

ScalerSpec == ScalerInit /\ [][ScalerNext]_vars

(* main() never ends its loop, and time passes.                              *)
FairScalerSpec == ScalerSpec /\ WF_vars(LoopStep) /\ WF_vars(TimePasses)

-----------------------------------------------------------------------------
(* Properties *)

Highest == AtLeast(MaxWorkers, MinWorkers)

(* The clones never exceed AUTOSCALE_MAX_WORKERS, and do not reach it while  *)
(* the compose worker has been up all along, although scale_to starts them   *)
(* on a count taken earlier (autoscaler.py:84-88).                           *)
FleetBounded ==
    clones + doomed + (IF outages = 0 THEN 1 ELSE 0) <= Highest

(* Up fast, down slow (autoscaler.py:118): clones are only chosen to be      *)
(* stopped when no tick has wanted all the workers for Cooldown.             *)
DownIsSlow == [][doomed' > doomed => quiet = Cooldown]_vars

(* With a steady backlog and a running compose worker the fleet settles at   *)
(* the number compute_desired_workers asks for (autoscaler.py:126-149).      *)
SettlesAtDesired ==
    \A b \in 0..MaxBacklog :
        <>[](backlog = b /\ template) => <>[](Fleet = Desired(b))
=============================================================================
