-------------------------- MODULE FailureTimelineProofs --------------------------
(***************************************************************************)
(* The timeline's throttle cannot jam, for any number of hub threads, of   *)
(* refreshes in flight and of results.                                     *)
(***************************************************************************)
EXTENDS FailureTimeline, TLAPS

(* A queued or running load never carries more than is stored. *)
TimelineInv ==
  /\ TypeOK
  /\ FlagHasRefresh
  /\ \A k \in Refreshes : refresh[k].read <= saved
  /\ reload.read <= saved

LEMMA InvInit == Init => TimelineInv
<1> SUFFICES ASSUME Init PROVE TimelineInv
  OBVIOUS
<1>1. refreshQueued = FALSE
  BY Zenon DEF Init
<1>2. refreshQueued \in BOOLEAN
  BY <1>1, Zenon
<1>3. QED
  BY <1>1, <1>2, TimelineAssumption
  DEF Init, TimelineInv, TypeOK, FlagHasRefresh, NoLoad, Loads, Stages

LEMMA InvStep == TimelineInv /\ [Next]_vars => TimelineInv'
<1> SUFFICES ASSUME TimelineInv, [Next]_vars PROVE TimelineInv'
  OBVIOUS
<1> USE TimelineAssumption
    DEF TimelineInv, TypeOK, FlagHasRefresh, Loads, Stages, NoLoad
<1>1. CASE StoreResult
  BY <1>1 DEF StoreResult, pageVars
<1>2. ASSUME OpenPage \/ ClosePage PROVE TimelineInv'
  <2>1. /\ refreshQueued' = FALSE
        /\ told' = 0 /\ chart' = 0
        /\ handler' = [t \in Threads |-> "idle"]
        /\ refresh' = [k \in Refreshes |-> NoLoad]
        /\ page' \in {"open", "closed"}
        /\ reload' \in Loads /\ reload'.read = 0
        /\ UNCHANGED <<saved, notices>>
    BY <1>2 DEF OpenPage, ClosePage, FreshPage
  <2>2. refreshQueued' \in BOOLEAN
    BY <2>1, Zenon
  <2>3. QED
    BY <2>1, <2>2
<1>3. ASSUME NEW t \in Threads, ReadFlag(t) PROVE TimelineInv'
  BY <1>3 DEF ReadFlag
<1>4. ASSUME NEW t \in Threads, QueueRefresh(t) PROVE TimelineInv'
  <2>1. PICK k \in Refreshes :
          refresh' = [refresh EXCEPT ![k].stage = "delaying"]
    BY <1>4 DEF QueueRefresh
  <2>2. refreshQueued' = TRUE
    BY <1>4 DEF QueueRefresh
  <2>3. refreshQueued' \in BOOLEAN
    BY <2>2, Zenon
  <2>4. refresh' \in [Refreshes -> Loads] /\ refresh'[k].stage = "delaying"
    BY <2>1
  <2>5. QED
    BY <1>4, <2>1, <2>3, <2>4 DEF QueueRefresh
<1>5. ASSUME NEW k \in Refreshes, RefreshStep(k) PROVE TimelineInv'
  <2>1. CASE RefreshReads(k)
    BY <2>1 DEF RefreshReads, Reads
  <2>2. CASE RefreshShows(k)
    BY <2>2 DEF RefreshShows
  <2>3. CASE RefreshFaults(k)
    BY <2>3 DEF RefreshFaults, AfterFault
  <2>4. CASE RefreshFinally(k)
    <3>1. refreshQueued' = FALSE
      BY <2>4 DEF RefreshFinally
    <3>2. refreshQueued' \in BOOLEAN
      BY <3>1, Zenon
    <3>3. QED
      BY <2>4, <3>1, <3>2 DEF RefreshFinally
  <2>5. QED
    BY <1>5, <2>1, <2>2, <2>3, <2>4 DEF RefreshStep
<1>6. ASSUME Reload \/ InitialLoad PROVE TimelineInv'
  <2>1. /\ reload' = [stage |-> "loading", read |-> saved]
        /\ UNCHANGED <<saved, notices, page, told, handler, refreshQueued, refresh,
                       chart>>
    BY <1>6 DEF Reload, InitialLoad, Reads
  <2>2. reload' \in Loads /\ reload'.read <= saved'
    BY <2>1
  <2>3. QED
    BY <2>1, <2>2
<1>7. CASE ReloadShows
  BY <1>7 DEF ReloadShows
<1>8. CASE UNCHANGED vars
  BY <1>8 DEF vars, pageVars
<1>9. QED
  BY <1>1, <1>2, <1>3, <1>4, <1>5, <1>6, <1>7, <1>8 DEF Next

LEMMA Invariance == Spec => []TimelineInv
<1>1. QED
  BY InvInit, InvStep, PTL DEF Spec

(* Every variable keeps its type, and the chart never shows more than is stored. *)
THEOREM TypeCorrect == Spec => []TypeOK
<1>1. TimelineInv => TypeOK
  BY DEF TimelineInv
<1>2. QED
  BY <1>1, Invariance, PTL

(* A raised flag always has a refresh that will lower it. *)
THEOREM ThrottleCannotJam == Spec => []FlagHasRefresh
<1>1. TimelineInv => FlagHasRefresh
  BY DEF TimelineInv
<1>2. QED
  BY <1>1, Invariance, PTL

-----------------------------------------------------------------------------
(* Progress.  The provers do not know ENABLED, so the fairness of a refresh is written out
   with its guard: RefreshStep(k) is possible exactly while the refresh is under way. *)
Served(k) == []<>(refresh[k].stage = "none") \/ []<><<RefreshStep(k)>>_vars

(* Whoever else acts leaves a refresh alone, except the notice that queues it and the
   closing and opening of the page, which start afresh. *)
LEMMA OthersKeepIt ==
  ASSUME TimelineInv, [Next]_vars, NEW k \in Refreshes, ~RefreshStep(k)
  PROVE  \/ UNCHANGED refresh[k]
         \/ refresh[k].stage = "none" /\ refresh'[k].stage = "delaying"
         \/ /\ refresh'[k].stage = "none" /\ refreshQueued' = FALSE
            /\ page = "closed" \/ page' = "closed"
<1> USE DEF TimelineInv, TypeOK, Loads
<1>1. ASSUME NEW t \in Threads, QueueRefresh(t)
      PROVE  \/ UNCHANGED refresh[k]
             \/ refresh[k].stage = "none" /\ refresh'[k].stage = "delaying"
  <2>1. PICK j \in Refreshes :
          /\ refresh[j].stage = "none"
          /\ refresh' = [refresh EXCEPT ![j].stage = "delaying"]
    BY <1>1 DEF QueueRefresh
  <2>2. QED
    BY <2>1
<1>2. ASSUME NEW j \in Refreshes, RefreshStep(j)
      PROVE  UNCHANGED refresh[k]
  <2>1. j # k
    BY <1>2
  <2>2. QED
    BY <1>2, <2>1 DEF RefreshStep, RefreshReads, RefreshShows, RefreshFaults, RefreshFinally
<1>3. ASSUME OpenPage \/ ClosePage
      PROVE  /\ refresh'[k].stage = "none" /\ refreshQueued' = FALSE
             /\ page = "closed" \/ page' = "closed"
  BY <1>3 DEF OpenPage, ClosePage, FreshPage, NoLoad
<1>4. ASSUME \A t \in Threads : ~QueueRefresh(t), \A j \in Refreshes : ~RefreshStep(j),
             ~(OpenPage \/ ClosePage)
      PROVE  UNCHANGED refresh[k]
  BY <1>4 DEF Next, StoreResult, ReadFlag, Reload, InitialLoad, ReloadShows, vars, pageVars
<1>5. QED
  BY <1>1, <1>2, <1>3, <1>4

(* The refresh itself waits, loads, and ends by way of its finally block. *)
LEMMA RefreshGoesOn ==
  ASSUME TimelineInv, NEW k \in Refreshes, RefreshStep(k)
  PROVE  \/ /\ refresh[k].stage = "delaying" /\ refresh'[k].stage = "loading"
            /\ refresh'[k].read = saved /\ UNCHANGED chart
         \/ /\ refresh[k].stage = "loading" /\ refresh'[k].stage = "finally"
            /\ chart' = refresh[k].read
         \/ /\ refresh[k].stage \in {"delaying", "loading"} /\ Faulted(k)'
            /\ UNCHANGED chart
         \/ /\ refresh[k].stage = "finally" /\ refresh'[k].stage = "none"
            /\ refreshQueued' = FALSE
<1>1. QED
  BY DEF TimelineInv, TypeOK, Loads, RefreshStep, RefreshReads, RefreshShows, RefreshFaults,
     RefreshFinally, Reads, AfterFault, NoLoad, Faulted

(* A queued refresh ends, and the page may queue the next one. *)
THEOREM RefreshesEnd ==
  ASSUME NEW k \in Refreshes
  PROVE  Spec /\ Served(k) => []<>(refresh[k].stage = "none")
<1> DEFINE N == refresh[k].stage = "none"
           D == refresh[k].stage = "delaying"
           L == refresh[k].stage = "loading"
           F == refresh[k].stage = "finally"
<1>1. TimelineInv => N \/ D \/ L \/ F
  BY DEF TimelineInv, TypeOK, Loads, Stages
<1>2. TimelineInv /\ <<RefreshStep(k)>>_vars => \/ D /\ (L' \/ F')
                                                \/ L /\ F'
                                                \/ F /\ N'
  <2> SUFFICES ASSUME TimelineInv, RefreshStep(k)
               PROVE  \/ D /\ (L' \/ F')
                      \/ L /\ F'
                      \/ F /\ N'
    OBVIOUS
  <2>1. QED
    BY RefreshGoesOn DEF Faulted
<1>3. TimelineInv /\ [Next]_vars /\ ~<<RefreshStep(k)>>_vars =>
        \/ (D <=> D') /\ (L <=> L') /\ (F <=> F')
        \/ N \/ N'
  <2> SUFFICES ASSUME TimelineInv, [Next]_vars, ~<<RefreshStep(k)>>_vars
               PROVE  \/ (D <=> D') /\ (L <=> L') /\ (F <=> F')
                      \/ N \/ N'
    OBVIOUS
  <2>1. CASE RefreshStep(k)
    BY <2>1 DEF vars, pageVars
  <2>2. CASE ~RefreshStep(k)
    BY <2>2, OthersKeepIt
  <2>3. QED
    BY <2>1, <2>2
<1>4. (D => ~L /\ ~F /\ ~N) /\ (L => ~F /\ ~N) /\ (F => ~N)
  OBVIOUS
<1>5. QED
  BY <1>1, <1>2, <1>3, <1>4, Invariance, PTL DEF Spec, Served

(* A refresh on its way lowers the flag when it ends, unless the page is closed, which
   does so too. *)
THEOREM FlagIsLowered ==
  ASSUME NEW k \in Refreshes
  PROVE  Spec /\ Served(k) => (refresh[k].stage # "none" ~> ~refreshQueued)
<1> DEFINE N == refresh[k].stage = "none"
           Runs == refresh[k].stage # "none"
           Down == ~refreshQueued
<1>1. TimelineInv /\ [Next]_vars /\ ~N => ~N' \/ Down'
  <2> SUFFICES ASSUME TimelineInv, [Next]_vars, ~N, N'
               PROVE  Down'
    OBVIOUS
  <2>1. CASE RefreshStep(k)
    BY <2>1, RefreshGoesOn DEF Faulted
  <2>2. CASE ~RefreshStep(k)
    BY <2>2, OthersKeepIt
  <2>3. QED
    BY <2>1, <2>2
<1>2. Spec /\ Served(k) => []<>N
  BY RefreshesEnd
<1>3. Runs => ~N
  OBVIOUS
<1>4. QED
  BY <1>1, <1>2, <1>3, Invariance, PTL DEF Spec

(* What NoticesInDelayAreShown says of a refresh that still waits: the chart comes to show
   every result the page was told of, unless the page is closed or this refresh fails. *)
THEOREM DelayedNoticesAreShown ==
  ASSUME NEW k \in Refreshes, NEW v \in 1..MaxResults
  PROVE  Spec /\ Served(k) =>
           (told >= v /\ refresh[k].stage = "delaying"
              ~> chart >= v \/ page = "closed" \/ Faulted(k))
<1> DEFINE Waits == told >= v /\ refresh[k].stage = "delaying"
           Holds == refresh[k].read >= v /\ refresh[k].stage = "loading"
           Done == chart >= v \/ page = "closed" \/ Faulted(k)
           N == refresh[k].stage = "none"
<1> USE TimelineAssumption DEF TimelineAssumption
<1>1. TimelineInv /\ [Next]_vars /\ Waits => Waits' \/ Holds' \/ Done \/ Done'
  <2> SUFFICES ASSUME TimelineInv, [Next]_vars, Waits, ~Done, ~Done'
               PROVE  Waits' \/ Holds'
    OBVIOUS
  <2>1. CASE RefreshStep(k)
    <3>1. refresh'[k].stage = "loading" /\ refresh'[k].read = saved
      BY <2>1, RefreshGoesOn
    <3>2. saved \in Nat /\ told \in 0..saved
      BY DEF TimelineInv, TypeOK
    <3>3. QED
      BY <3>1, <3>2
  <2>2. CASE ~RefreshStep(k)
    <3>1. refresh'[k].stage = "delaying"
      BY <2>2, OthersKeepIt
    <3>2. told' >= v
      BY DEF TimelineInv, TypeOK, Next, StoreResult, OpenPage, ClosePage, ReadFlag,
         QueueRefresh, RefreshStep, RefreshReads, RefreshShows, RefreshFaults, RefreshFinally,
         Reload, InitialLoad, ReloadShows, vars, pageVars
    <3>3. QED
      BY <3>1, <3>2
  <2>3. QED
    BY <2>1, <2>2
<1>2. TimelineInv /\ [Next]_vars /\ Holds => Holds' \/ Done \/ Done'
  <2> SUFFICES ASSUME TimelineInv, [Next]_vars, Holds, ~Done, ~Done'
               PROVE  Holds'
    OBVIOUS
  <2>1. CASE RefreshStep(k)
    BY <2>1, RefreshGoesOn
  <2>2. CASE ~RefreshStep(k)
    BY <2>2, OthersKeepIt
  <2>3. QED
    BY <2>1, <2>2
<1>3. (Waits => ~N) /\ (Holds => ~N)
  OBVIOUS
<1>4. Spec /\ Served(k) => []<>N
  BY RefreshesEnd
<1>5. QED
  BY <1>1, <1>2, <1>3, <1>4, Invariance, PTL DEF Spec

=============================================================================
