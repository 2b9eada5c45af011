-------------------------- MODULE AutoscalerProofs --------------------------
(* The fleet keeps within its limits and shrinks slowly, whatever the        *)
(* limits, the backlog and the failures are.                                 *)
EXTENDS Autoscaler, TLAPS

(* The compose worker, counted for as long as it has never stopped.          *)
Constant == IF outages = 0 THEN 1 ELSE 0

(* A scale-up has room for the clones it is still going to start, and no     *)
(* clone is chosen outside the loop that stops them.                         *)
ScaleUpFits ==
    /\ pc = "start" => clones + left + Constant <= Highest
    /\ pc # "stop" => doomed = 0

DesiredInRange ==
    /\ desired <= Highest
    /\ outages = 0 => template

ScalerInv == ScalerTypeOK /\ ScaleUpFits /\ DesiredInRange /\ FleetBounded

LEMMA HighestFits == Highest \in Nat /\ Highest >= 1 /\ MaxWorkers <= Highest
                         /\ MinWorkers <= Highest
BY WorkersAssumption DEF Highest, AtLeast

(* compute_desired_workers stays between its limits.                         *)
LEMMA DesiredFits ==
    ASSUME NEW b \in Nat
    PROVE  Desired(b) \in Nat /\ Desired(b) <= Highest
<1> DEFINE n == (b + BacklogPerWorker - 1) \div BacklogPerWorker
<1>1. CASE b = 0
  BY <1>1, HighestFits, WorkersAssumption DEF Desired
<1>2. CASE b # 0
  <2>1. n \in Int
    BY WorkersAssumption
  <2>2. Desired(b) = AtLeast(AtMost(n, MaxWorkers), MinWorkers)
    BY <1>2 DEF Desired
  <2> HIDE DEF n
  <2> QED BY <2>1, <2>2, HighestFits, WorkersAssumption DEF AtLeast, AtMost
<1> QED BY <1>1, <1>2

LEMMA ScalerInitInv == ScalerInit => ScalerInv
BY HighestFits, ScalerBoundsAssumption
   DEF ScalerInit, ScalerInv, ScalerTypeOK, ScaleUpFits, DesiredInRange, FleetBounded,
       ScalerPoints, Constant

LEMMA ScalerNextInv ==
    ASSUME ScalerInv, [ScalerNext]_vars
    PROVE  ScalerInv'
<1> USE HighestFits, ScalerBoundsAssumption
    DEF ScalerInv, ScalerTypeOK, ScaleUpFits, DesiredInRange, FleetBounded, ScalerPoints,
        Constant, Fleet, None
<1> HIDE DEF Highest
<1>0. CASE UNCHANGED vars
  BY <1>0 DEF vars, loopVars
<1>1. CASE Measure
  BY <1>1, DesiredFits DEF Measure
<1>2. CASE WantMore
  BY <1>2 DEF WantMore
<1>3. CASE WantSame
  BY <1>3 DEF WantSame
<1>4. CASE WantFewer
  BY <1>4 DEF WantFewer
<1>5. CASE Recount
  <2>1. CASE desired > Fleet
    BY <1>5, <2>1 DEF Recount
  <2>2. CASE ~(desired > Fleet)
    BY <1>5, <2>2 DEF Recount
  <2> QED BY <2>1, <2>2
<1>6. CASE StartClone
  BY <1>6 DEF StartClone
<1>7. CASE ChooseVictims
  BY <1>7 DEF ChooseVictims, AtMost
<1>8. CASE StopClone
  BY <1>8 DEF StopClone, loopVars
<1>9. CASE ScaledTo
  BY <1>9 DEF ScaledTo
<1>10. CASE TickFails \/ Restart
  BY <1>10 DEF TickFails, Restart, Abandon
<1>11. CASE CloneCrashes
  BY <1>11 DEF CloneCrashes, loopVars
<1>12. CASE BacklogChanges
  BY <1>12 DEF BacklogChanges, loopVars
<1>13. CASE TemplateStops
  <2>1. outages' \in 0..MaxOutages /\ outages' # 0
    BY <1>13 DEF TemplateStops
  <2>2. UNCHANGED <<backlog, clones, doomed, pc, desired, left, below, quiet, faults>>
    BY <1>13 DEF TemplateStops, loopVars
  <2>3. template' = FALSE
    BY <1>13 DEF TemplateStops
  <2>4. Constant' = 0
    BY <2>1
  <2>5. ScaleUpFits' /\ FleetBounded'
    BY <2>1, <2>2, <2>4
  <2>6. ScalerTypeOK' /\ DesiredInRange'
    BY <2>1, <2>2, <2>3
  <2> QED BY <2>5, <2>6
<1>15. CASE TemplateReturns
  <2>1. outages # 0
    BY <1>15 DEF TemplateReturns
  <2>2. UNCHANGED <<backlog, clones, doomed, pc, desired, left, below, quiet, faults, outages>>
    BY <1>15 DEF TemplateReturns, loopVars
  <2>3. template' = TRUE
    BY <1>15 DEF TemplateReturns
  <2> QED BY <2>1, <2>2, <2>3
<1>14. CASE TimePasses
  BY <1>14 DEF TimePasses, AtMost
<1> QED BY <1>0, <1>1, <1>2, <1>3, <1>4, <1>5, <1>6, <1>7, <1>8, <1>9, <1>10, <1>11, <1>12,
           <1>13, <1>14, <1>15 DEF ScalerNext, LoopStep

(* Types, and FleetBounded (autoscaler.py:84-95), for all values of the      *)
(* AUTOSCALE_ settings, including a maximum below the minimum.               *)
THEOREM FleetStaysBounded == ScalerSpec => [](ScalerTypeOK /\ FleetBounded)
<1>1. ScalerInv => ScalerTypeOK /\ FleetBounded
  BY DEF ScalerInv
<1> QED BY <1>1, ScalerInitInv, ScalerNextInv, PTL DEF ScalerSpec

-----------------------------------------------------------------------------
(* Down slow.  A call that fails in the middle of a scale-up leaves          *)
(* _below_since at a time before the scale-up, and the next tick that wants  *)
(* fewer workers counts from there (autoscaler.py:130-149); the theorem is   *)
(* about the executions in which that does not happen.                       *)
NoScaleUpFails == [][TickFails => pc \notin {"up", "start"}]_vars

(* _below_since is at most as long ago as the last tick that wanted all the  *)
(* workers, except between the decision to scale up and its end.             *)
BelowIsRecent ==
    pc \in {"idle", "count"} /\ below # None => below <= quiet

(* scale_to counts again, but the count it finds after a decision to scale   *)
(* up is never too large: only the compose worker can have started since.    *)
UpWasWanted == pc = "up" => desired >= clones + doomed + 1
DownWasSlow == pc \in {"down", "choose", "stop"} => quiet = Cooldown

SlowInv == BelowIsRecent /\ UpWasWanted /\ DownWasSlow

LEMMA SlowInvStep ==
    ASSUME ScalerTypeOK, SlowInv, [ScalerNext]_vars,
           TickFails => pc \notin {"up", "start"}
    PROVE  SlowInv'
<1> USE WorkersAssumption, ScalerBoundsAssumption
    DEF ScalerTypeOK, SlowInv, BelowIsRecent, UpWasWanted, DownWasSlow, ScalerPoints,
        Fleet, None
<1>0. CASE UNCHANGED vars
  BY <1>0 DEF vars, loopVars
<1>1. CASE Measure \/ WantSame \/ StartClone \/ ChooseVictims \/ ScaledTo
  BY <1>1 DEF Measure, WantSame, StartClone, ChooseVictims, ScaledTo
<1>2. CASE WantMore
  BY <1>2 DEF WantMore
<1>3. CASE WantFewer
  BY <1>3 DEF WantFewer
<1>4. CASE Recount
  <2>1. CASE pc = "up"
    <3>1. desired >= Fleet
      BY <2>1
    <3> QED BY <1>4, <2>1, <3>1 DEF Recount
  <2>2. CASE pc = "down"
    BY <1>4, <2>2 DEF Recount
  <2> QED BY <1>4, <2>1, <2>2 DEF Recount
<1>5. CASE TickFails
  <2>1. pc' = "idle" /\ below' = below /\ quiet' = quiet
    BY <1>5 DEF TickFails, Abandon
  <2>2. pc \in {"idle", "count"} \/ quiet = Cooldown
    BY <1>5
  <2> QED BY <2>1, <2>2
<1>6. CASE Restart
  BY <1>6 DEF Restart, Abandon
<1>7. CASE StopClone \/ CloneCrashes \/ BacklogChanges \/ TemplateStops \/ TemplateReturns
  BY <1>7 DEF StopClone, CloneCrashes, BacklogChanges, TemplateStops, TemplateReturns, loopVars
<1>8. CASE TimePasses
  BY <1>8 DEF TimePasses, AtMost
<1> QED BY <1>0, <1>1, <1>2, <1>3, <1>4, <1>5, <1>6, <1>7, <1>8 DEF ScalerNext, LoopStep

(* Clones are only chosen to be stopped when no tick has wanted all the      *)
(* workers for Cooldown (autoscaler.py:118-149), whatever the backlog does   *)
(* and however often clones, the compose worker and the loop itself fail.    *)
THEOREM DownStaysSlow == ScalerSpec /\ NoScaleUpFails => DownIsSlow
<1>1. ScalerInit => SlowInv
  BY DEF ScalerInit, SlowInv, BelowIsRecent, UpWasWanted, DownWasSlow
<1>2. ASSUME ScalerTypeOK, SlowInv, [ScalerNext]_vars,
             [TickFails => pc \notin {"up", "start"}]_vars
      PROVE  SlowInv'
  <2>1. CASE UNCHANGED vars
    BY <1>2, <2>1 DEF vars, loopVars, SlowInv, BelowIsRecent, UpWasWanted, DownWasSlow
  <2>2. CASE ~UNCHANGED vars
    BY <1>2, <2>2, SlowInvStep
  <2> QED BY <2>1, <2>2
<1>3. ASSUME ScalerTypeOK, SlowInv, [ScalerNext]_vars
      PROVE  [doomed' > doomed => quiet = Cooldown]_vars
  <2>1. SUFFICES ASSUME ScalerNext, doomed' > doomed PROVE pc = "choose"
    BY <1>3 DEF SlowInv, DownWasSlow
  <2>2. doomed \in Nat
    BY <1>3 DEF ScalerTypeOK
  <2> QED
    BY <2>1, <2>2 DEF ScalerNext, LoopStep, Measure, WantMore, WantSame, WantFewer, Recount,
       StartClone, ChooseVictims, StopClone, ScaledTo, TickFails, Restart, Abandon,
       CloneCrashes, BacklogChanges, TemplateStops, TemplateReturns, TimePasses
<1>4. ScalerSpec => []ScalerTypeOK
  BY FleetStaysBounded, PTL
<1> QED
  BY <1>1, <1>2, <1>3, <1>4, PTL DEF ScalerSpec, NoScaleUpFails, DownIsSlow
=============================================================================
