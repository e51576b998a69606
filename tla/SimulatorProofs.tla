-------------------------- MODULE SimulatorProofs --------------------------
EXTENDS Simulator, TLAPS

(***************************************************************************)
(* Proofs about Simulator, for every value of its constants: the type      *)
(* invariant, the mutex invariant and the interrupt_delivered handshake;   *)
(* then what the threads owe the marker, sleeps and resumes, heartbeats    *)
(* and the last flush.                                                     *)
(* Each lemma that an action preserves an invariant has a step per action. *)
(***************************************************************************)
USE DEF Goto, At, Acquire, Release, Wake, None, Threads, NotPending,
        callVars, beatVars, clockVars, stopVars, inVars, serialVars, watchVars,
        suspendVars, mainVars, lockVars, worldVars

(* The bounds, one by one. *)
LEMMA Bounds ==
    /\ BranchLimit \in Nat /\ StallTicks \in Nat /\ MaxQuiet \in Nat
    /\ FlushTicks \in Nat \ {0} /\ FastForward \in Nat
    /\ HEARTBEAT_TICKS \in Nat \ {0}
BY BoundAssumption

(* Every step keeps the threads at labels of their own, and so returns there. *)
LEMMA ControlStep == ASSUME TypeOK, [Next]_vars PROVE ControlOK'
<1> USE DEF TypeOK, ControlOK, Labels, AllLabels, MainLabels, CodeLabels,
        SharedLabels, CallSignal, CallWrite, CallTick
<1>1. CASE Signal
  BY <1>1 DEF Signal
<1>2. CASE Delivered
  BY <1>2 DEF Delivered
<1>3. CASE Bounce
  BY <1>3 DEF Bounce
<1>4. CASE Loop
  BY <1>4 DEF Loop
<1>5. CASE Epoll
  BY <1>5 DEF Epoll
<1>6. CASE HandleSigint
  BY <1>6 DEF HandleSigint
<1>7. CASE SigintLock
  BY <1>7 DEF SigintLock
<1>8. CASE SigintAdd
  BY <1>8 DEF SigintAdd
<1>9. CASE SigintMark
  BY <1>9 DEF SigintMark
<1>10. CASE Stall \/ StallTest
  BY <1>10 DEF Stall, StallTest, Stalled
<1>11. CASE Nfds
  BY <1>11 DEF Nfds
<1>12. CASE EventsDone
  BY <1>12 DEF EventsDone
<1>13. CASE ReadStdin
  BY <1>13 DEF ReadStdin
<1>14. CASE AddStdin
  BY <1>14 DEF AddStdin
<1>15. CASE ReadClient
  BY <1>15 DEF ReadClient
<1>16. CASE BatchDone
  BY <1>16 DEF BatchDone
<1>17. CASE ProcessResume
  BY <1>17 DEF ProcessResume
<1>18. CASE InputLock
  BY <1>18 DEF InputLock
<1>19. CASE InputSet
  BY <1>19 DEF InputSet
<1>20. CASE Ack
  BY <1>20 DEF Ack
<1>21. CASE ReadTimer
  BY <1>21 DEF ReadTimer
<1>22. CASE Rearm
  BY <1>22 DEF Rearm
<1>23. CASE FastForwardTimer
  BY <1>23 DEF FastForwardTimer
<1>24. CASE LastSignal
  BY <1>24 DEF LastSignal
<1>25. CASE Resume
  BY <1>25 DEF Resume
<1>26. CASE VMRuns
  BY <1>26 DEF VMRuns
<1>27. CASE VMYields
  BY <1>27 DEF VMYields
<1>28. CASE Hook
  BY <1>28 DEF Hook
<1>29. CASE HookWoken
  BY <1>29 DEF HookWoken
<1>30. CASE WFI
  BY <1>30 DEF WFI
<1>31. CASE WFIWait
  BY <1>31 DEF WFIWait
<1>32. CASE WFIWoken
  BY <1>32 DEF WFIWoken
<1>33. CASE Suspend
  BY <1>33 DEF Suspend
<1>34. CASE SuspendOver
  BY <1>34 DEF SuspendOver
<1>35. CASE WFIFlags
  BY <1>35 DEF WFIFlags
<1>36. ASSUME NEW t \in Threads, Write(t) PROVE ControlOK'
  BY <1>36 DEF Write
<1>37. ASSUME NEW t \in Threads, Written(t) PROVE ControlOK'
  BY <1>37 DEF Written
<1>38. ASSUME NEW t \in Threads, TickLock(t) PROVE ControlOK'
  BY <1>38 DEF TickLock
<1>39. ASSUME NEW t \in Threads, Fire(t) PROVE ControlOK'
  BY <1>39 DEF Fire
<1>40. ASSUME NEW t \in Threads, Round(t) PROVE ControlOK'
  BY <1>40 DEF Round
<1>41. ASSUME NEW t \in Threads, Check(t) PROVE ControlOK'
  BY <1>41 DEF Check
<1>42. ASSUME NEW t \in Threads, Copy(t) PROVE ControlOK'
  BY <1>42 DEF Copy
<1>43. ASSUME NEW t \in Threads, Clear(t) PROVE ControlOK'
  BY <1>43 DEF Clear
<1>44. ASSUME NEW t \in Threads, Heartbeat(t) \/ ReadTick(t) \/ StoreTick(t) PROVE ControlOK'
  BY <1>44 DEF Heartbeat, HeartbeatDue, ReadTick, StoreTick
<1>45. CASE EnvNext
  BY <1>45 DEF EnvNext, TimerExpires, SigintArrives, UserTypes,
     ClientSends, ClientResumes, SpuriousWakeup
<1>46. CASE Ended \/ UNCHANGED vars
  BY <1>46 DEF Ended, vars
<1> QED BY <1>1, <1>2, <1>3, <1>4, <1>5, <1>6, <1>7, <1>8, <1>9, <1>10,
        <1>11, <1>12, <1>13, <1>14, <1>15, <1>16, <1>17, <1>18, <1>19, <1>20,
        <1>21, <1>22, <1>23, <1>24, <1>25, <1>26, <1>27, <1>28, <1>29, <1>30,
        <1>31, <1>32, <1>33, <1>34, <1>35, <1>36, <1>37, <1>38, <1>39, <1>40,
        <1>41, <1>42, <1>43, <1>44, <1>45, <1>46 DEF Next, MainNext, CodeNext,
        CodeSteps, Shared

(* Every step keeps the owners of the mutexes and the woken threads typed. *)
LEMMA SyncStep == ASSUME TypeOK, [Next]_vars PROVE SyncOK'
<1> USE DEF TypeOK, SyncOK, CallSignal, CallWrite, CallTick
<1>1. CASE Signal
  BY <1>1 DEF Signal, AtInterruptSignal
<1>2. CASE Delivered
  BY <1>2 DEF Delivered
<1>3. CASE Bounce
  BY <1>3 DEF Bounce
<1>4. CASE Loop
  BY <1>4 DEF Loop
<1>5. CASE Epoll
  BY <1>5 DEF Epoll, Ready
<1>6. CASE HandleSigint
  BY <1>6 DEF HandleSigint
<1>7. CASE SigintLock
  BY <1>7 DEF SigintLock
<1>8. CASE SigintAdd
  BY <1>8 DEF SigintAdd
<1>9. CASE SigintMark
  BY <1>9 DEF SigintMark, Now
<1>10. CASE Stall \/ StallTest
  BY <1>10 DEF Stall, StallTest, Stalled
<1>11. CASE Nfds
  BY <1>11 DEF Nfds
<1>12. CASE EventsDone
  BY <1>12 DEF EventsDone
<1>13. CASE ReadStdin
  BY <1>13 DEF ReadStdin
<1>14. CASE AddStdin
  BY <1>14 DEF AddStdin, Now
<1>15. CASE ReadClient
  BY <1>15 DEF ReadClient
<1>16. CASE BatchDone
  BY <1>16 DEF BatchDone
<1>17. CASE ProcessResume
  BY <1>17 DEF ProcessResume, AtSuspendWait
<1>18. CASE InputLock
  BY <1>18 DEF InputLock
<1>19. CASE InputSet
  BY <1>19 DEF InputSet
<1>20. CASE Ack
  BY <1>20 DEF Ack
<1>21. CASE ReadTimer
  BY <1>21 DEF ReadTimer
<1>22. CASE Rearm
  BY <1>22 DEF Rearm
<1>23. CASE FastForwardTimer
  BY <1>23 DEF FastForwardTimer
<1>24. CASE LastSignal
  BY <1>24 DEF LastSignal
<1>25. CASE Resume
  BY <1>25 DEF Resume
<1>26. CASE VMRuns
  BY <1>26 DEF VMRuns
<1>27. CASE VMYields
  BY <1>27 DEF VMYields
<1>28. CASE Hook
  BY <1>28 DEF Hook, Throttle, Counted
<1>29. CASE HookWoken
  BY <1>29 DEF HookWoken
<1>30. CASE WFI
  BY <1>30 DEF WFI, SendsCtrlD
<1>31. CASE WFIWait
  BY <1>31 DEF WFIWait
<1>32. CASE WFIWoken
  BY <1>32 DEF WFIWoken, AtInterruptDelivered
<1>33. CASE Suspend
  BY <1>33 DEF Suspend
<1>34. CASE SuspendOver
  BY <1>34 DEF SuspendOver
<1>35. CASE WFIFlags
  BY <1>35 DEF WFIFlags
<1>36. ASSUME NEW t \in Threads, Write(t) PROVE SyncOK'
  BY <1>36 DEF Write
<1>37. ASSUME NEW t \in Threads, Written(t) PROVE SyncOK'
  BY <1>37 DEF Written
<1>38. ASSUME NEW t \in Threads, TickLock(t) PROVE SyncOK'
  BY <1>38 DEF TickLock
<1>39. ASSUME NEW t \in Threads, Fire(t) PROVE SyncOK'
  BY <1>39 DEF Fire, MacroTick, ClocksMove
<1>40. ASSUME NEW t \in Threads, Round(t) PROVE SyncOK'
  BY <1>40 DEF Round
<1>41. ASSUME NEW t \in Threads, Check(t) PROVE SyncOK'
  BY <1>41 DEF Check
<1>42. ASSUME NEW t \in Threads, Copy(t) PROVE SyncOK'
  BY <1>42 DEF Copy
<1>43. ASSUME NEW t \in Threads, Clear(t) PROVE SyncOK'
  BY <1>43 DEF Clear
<1>44. ASSUME NEW t \in Threads, Heartbeat(t) \/ ReadTick(t) \/ StoreTick(t) PROVE SyncOK'
  BY <1>44 DEF Heartbeat, HeartbeatDue, ReadTick, StoreTick
<1>45. CASE EnvNext
  BY <1>45 DEF EnvNext, TimerExpires, SigintArrives, UserTypes,
     ClientSends, ClientResumes, SpuriousWakeup, WaitLabels
<1>46. CASE Ended \/ UNCHANGED vars
  BY <1>46 DEF Ended, vars
<1> QED BY <1>1, <1>2, <1>3, <1>4, <1>5, <1>6, <1>7, <1>8, <1>9, <1>10,
        <1>11, <1>12, <1>13, <1>14, <1>15, <1>16, <1>17, <1>18, <1>19, <1>20,
        <1>21, <1>22, <1>23, <1>24, <1>25, <1>26, <1>27, <1>28, <1>29, <1>30,
        <1>31, <1>32, <1>33, <1>34, <1>35, <1>36, <1>37, <1>38, <1>39, <1>40,
        <1>41, <1>42, <1>43, <1>44, <1>45, <1>46 DEF Next, MainNext, CodeNext,
        CodeSteps, Shared

(* Every step keeps flags and counters typed: the hook counts to BranchLimit
   only, and the watchdog saturates just above StallTicks. *)
LEMMA DataStep == ASSUME TypeOK, [Next]_vars PROVE DataOK'
<1> USE Bounds DEF TypeOK, DataOK, CallSignal, CallWrite, CallTick
<1>1. CASE Signal
  BY <1>1 DEF Signal, AtInterruptSignal
<1>2. CASE Delivered
  BY <1>2 DEF Delivered
<1>3. CASE Bounce
  BY <1>3 DEF Bounce
<1>4. CASE Loop
  BY <1>4 DEF Loop
<1>5. CASE Epoll
  BY <1>5 DEF Epoll, Ready
<1>6. CASE HandleSigint
  BY <1>6 DEF HandleSigint
<1>7. CASE SigintLock
  BY <1>7 DEF SigintLock
<1>8. CASE SigintAdd
  BY <1>8 DEF SigintAdd
<1>9. CASE SigintMark
  BY <1>9 DEF SigintMark, Now
<1>10. CASE Stall \/ StallTest
  BY <1>10 DEF Stall, StallTest, Stalled
<1>11. CASE Nfds
  BY <1>11 DEF Nfds
<1>12. CASE EventsDone
  BY <1>12 DEF EventsDone
<1>13. CASE ReadStdin
  BY <1>13 DEF ReadStdin
<1>14. CASE AddStdin
  <2>1. Now \in {NotPending} \cup 0..(StallTicks + 1)
    BY DEF Now
  <2>2. pending' = Now \/ UNCHANGED pending
    BY <1>14 DEF AddStdin
  <2>3. /\ unread' = TRUE
        /\ UNCHANGED <<sent_ctrl_d, suppress, stopVars, suspendVars, clockVars, n, dirty>>
    BY <1>14 DEF AddStdin
  <2> QED BY <2>1, <2>2, <2>3
<1>15. CASE ReadClient
  BY <1>15 DEF ReadClient
<1>16. CASE BatchDone
  BY <1>16 DEF BatchDone
<1>17. CASE ProcessResume
  BY <1>17 DEF ProcessResume, AtSuspendWait
<1>18. CASE InputLock
  BY <1>18 DEF InputLock
<1>19. CASE InputSet
  BY <1>19 DEF InputSet
<1>20. CASE Ack
  BY <1>20 DEF Ack
<1>21. CASE ReadTimer
  BY <1>21 DEF ReadTimer
<1>22. CASE Rearm
  BY <1>22 DEF Rearm
<1>23. CASE FastForwardTimer
  <2>1. suppress' \in BOOLEAN
    BY <1>23 DEF FastForwardTimer
  <2>2. ff' \in Nat
    BY <1>23 DEF FastForwardTimer
  <2> QED BY <1>23, <2>1, <2>2 DEF FastForwardTimer
<1>24. CASE LastSignal
  BY <1>24 DEF LastSignal
<1>25. CASE Resume
  BY <1>25 DEF Resume
<1>26. CASE VMRuns
  BY <1>26 DEF VMRuns
<1>27. CASE VMYields
  BY <1>27 DEF VMYields
<1>28. CASE Hook
  <2>1. n' \in 0..BranchLimit
    BY <1>28 DEF Hook, Throttle, Counted
  <2>2. shutdown' \in BOOLEAN
    BY <1>28 DEF Hook
  <2> QED BY <1>28, <2>1, <2>2 DEF Hook
<1>29. CASE HookWoken
  BY <1>29 DEF HookWoken
<1>30. CASE WFI
  BY <1>30 DEF WFI, SendsCtrlD
<1>31. CASE WFIWait
  BY <1>31 DEF WFIWait
<1>32. CASE WFIWoken
  BY <1>32 DEF WFIWoken, AtInterruptDelivered
<1>33. CASE Suspend
  BY <1>33 DEF Suspend
<1>34. CASE SuspendOver
  BY <1>34 DEF SuspendOver
<1>35. CASE WFIFlags
  BY <1>35 DEF WFIFlags
<1>36. ASSUME NEW t \in Threads, Write(t) PROVE DataOK'
  BY <1>36 DEF Write
<1>37. ASSUME NEW t \in Threads, Written(t) PROVE DataOK'
  BY <1>37 DEF Written
<1>38. ASSUME NEW t \in Threads, TickLock(t) PROVE DataOK'
  BY <1>38 DEF TickLock
<1>39. ASSUME NEW t \in Threads, Fire(t) PROVE DataOK'
  <2>1. /\ quiet' \in 0..MaxQuiet /\ pending' \in {NotPending} \cup 0..(StallTicks + 1)
        /\ since_heartbeat' \in Nat /\ untold' \in Nat /\ age' \in [Threads -> Nat]
        /\ ff' \in Nat
    BY <1>39 DEF Fire, MacroTick, ClocksMove
  <2>a. stale' \in BOOLEAN
    BY <1>39 DEF Fire, MacroTick
  <2>b. uptime' = uptime \/ uptime' = IF uptime <= StallTicks THEN uptime + 1 ELSE uptime
    BY <1>39 DEF Fire, MacroTick, ClocksMove
  <2>c. uptime \in 0..(StallTicks + 1)
    OBVIOUS
  <2>d. uptime' \in 0..(StallTicks + 1)
    BY <2>b, <2>c
  <2>2. uptime' \in 0..(StallTicks + 1) /\ stale' \in BOOLEAN
    BY <2>a, <2>d
  <2>3. dirty' \subseteq Checked
    BY <1>39 DEF Fire
  <2> QED BY <1>39, <2>1, <2>2, <2>3 DEF Fire
<1>40. ASSUME NEW t \in Threads, Round(t) PROVE DataOK'
  BY <1>40 DEF Round
<1>41. ASSUME NEW t \in Threads, Check(t) PROVE DataOK'
  BY <1>41 DEF Check
<1>42. ASSUME NEW t \in Threads, Copy(t) PROVE DataOK'
  BY <1>42 DEF Copy
<1>43. ASSUME NEW t \in Threads, Clear(t) PROVE DataOK'
  BY <1>43 DEF Clear
<1>44. ASSUME NEW t \in Threads, Heartbeat(t) \/ ReadTick(t) \/ StoreTick(t) PROVE DataOK'
  BY <1>44 DEF Heartbeat, HeartbeatDue, ReadTick, StoreTick
<1>45. CASE EnvNext
  <2>1. CASE TimerExpires
    BY <2>1 DEF TimerExpires
  <2>2. CASE SigintArrives
    BY <2>2 DEF SigintArrives
  <2>3. CASE UserTypes
    BY <2>3 DEF UserTypes
  <2>4. CASE ClientSends
    BY <2>4 DEF ClientSends
  <2>5. CASE ClientResumes
    BY <2>5 DEF ClientResumes
  <2>6. CASE SpuriousWakeup
    BY <2>6 DEF SpuriousWakeup, WaitLabels
  <2> QED BY <1>45, <2>1, <2>2, <2>3, <2>4, <2>5, <2>6 DEF EnvNext
<1>46. CASE Ended \/ UNCHANGED vars
  BY <1>46 DEF Ended, vars
<1> QED BY <1>1, <1>2, <1>3, <1>4, <1>5, <1>6, <1>7, <1>8, <1>9, <1>10,
        <1>11, <1>12, <1>13, <1>14, <1>15, <1>16, <1>17, <1>18, <1>19, <1>20,
        <1>21, <1>22, <1>23, <1>24, <1>25, <1>26, <1>27, <1>28, <1>29, <1>30,
        <1>31, <1>32, <1>33, <1>34, <1>35, <1>36, <1>37, <1>38, <1>39, <1>40,
        <1>41, <1>42, <1>43, <1>44, <1>45, <1>46 DEF Next, MainNext, CodeNext,
        CodeSteps, Shared

(* Every step keeps what epoll watches typed. *)
LEMMA InputStep == ASSUME TypeOK, [Next]_vars PROVE InputOK'
<1> USE DEF TypeOK, InputOK, CallSignal, CallWrite, CallTick
<1>1. CASE Signal
  BY <1>1 DEF Signal, AtInterruptSignal
<1>2. CASE Delivered
  BY <1>2 DEF Delivered
<1>3. CASE Bounce
  BY <1>3 DEF Bounce
<1>4. CASE Loop
  BY <1>4 DEF Loop
<1>5. CASE Epoll
  BY <1>5 DEF Epoll, Ready
<1>6. CASE HandleSigint
  BY <1>6 DEF HandleSigint
<1>7. CASE SigintLock
  BY <1>7 DEF SigintLock
<1>8. CASE SigintAdd
  BY <1>8 DEF SigintAdd
<1>9. CASE SigintMark
  BY <1>9 DEF SigintMark, Now
<1>10. CASE Stall \/ StallTest
  BY <1>10 DEF Stall, StallTest, Stalled
<1>11. CASE Nfds
  BY <1>11 DEF Nfds
<1>12. CASE EventsDone
  BY <1>12 DEF EventsDone
<1>13. CASE ReadStdin
  BY <1>13 DEF ReadStdin
<1>14. CASE AddStdin
  BY <1>14 DEF AddStdin, Now
<1>15. CASE ReadClient
  <2>1. events' \in SUBSET {"stdin", "client", "timer"}
    BY <1>15 DEF ReadClient
  <2>2. batch' \in Seq({"input", "resume"}) /\ client_pipe' \in Seq({"input", "resume"})
    <3>1. CASE batch' = client_pipe /\ client_pipe' = <<>>
      BY <3>1
    <3>2. ASSUME NEW k \in 1..Len(client_pipe), batch' = <<>>,
                 client_pipe' = SubSeq(client_pipe, k + 1, Len(client_pipe))
          PROVE  batch' \in Seq({"input", "resume"}) /\ client_pipe' \in Seq({"input", "resume"})
      BY <3>2
    <3> QED BY <1>15, <3>1, <3>2 DEF ReadClient
  <2>3. UNCHANGED <<timer, stdin, sigint_requested>>
    BY <1>15 DEF ReadClient
  <2> QED BY <2>1, <2>2, <2>3
<1>16. CASE BatchDone
  BY <1>16 DEF BatchDone
<1>17. CASE ProcessResume
  BY <1>17 DEF ProcessResume, AtSuspendWait
<1>18. CASE InputLock
  BY <1>18 DEF InputLock
<1>19. CASE InputSet
  BY <1>19 DEF InputSet
<1>20. CASE Ack
  BY <1>20 DEF Ack
<1>21. CASE ReadTimer
  BY <1>21 DEF ReadTimer
<1>22. CASE Rearm
  BY <1>22 DEF Rearm
<1>23. CASE FastForwardTimer
  BY <1>23 DEF FastForwardTimer
<1>24. CASE LastSignal
  BY <1>24 DEF LastSignal
<1>25. CASE Resume
  BY <1>25 DEF Resume
<1>26. CASE VMRuns
  BY <1>26 DEF VMRuns
<1>27. CASE VMYields
  BY <1>27 DEF VMYields
<1>28. CASE Hook
  BY <1>28 DEF Hook, Throttle, Counted
<1>29. CASE HookWoken
  BY <1>29 DEF HookWoken
<1>30. CASE WFI
  BY <1>30 DEF WFI, SendsCtrlD
<1>31. CASE WFIWait
  BY <1>31 DEF WFIWait
<1>32. CASE WFIWoken
  BY <1>32 DEF WFIWoken, AtInterruptDelivered
<1>33. CASE Suspend
  BY <1>33 DEF Suspend
<1>34. CASE SuspendOver
  BY <1>34 DEF SuspendOver
<1>35. CASE WFIFlags
  BY <1>35 DEF WFIFlags
<1>36. ASSUME NEW t \in Threads, Write(t) PROVE InputOK'
  BY <1>36 DEF Write
<1>37. ASSUME NEW t \in Threads, Written(t) PROVE InputOK'
  BY <1>37 DEF Written
<1>38. ASSUME NEW t \in Threads, TickLock(t) PROVE InputOK'
  BY <1>38 DEF TickLock
<1>39. ASSUME NEW t \in Threads, Fire(t) PROVE InputOK'
  BY <1>39 DEF Fire, MacroTick, ClocksMove
<1>40. ASSUME NEW t \in Threads, Round(t) PROVE InputOK'
  BY <1>40 DEF Round
<1>41. ASSUME NEW t \in Threads, Check(t) PROVE InputOK'
  BY <1>41 DEF Check
<1>42. ASSUME NEW t \in Threads, Copy(t) PROVE InputOK'
  BY <1>42 DEF Copy
<1>43. ASSUME NEW t \in Threads, Clear(t) PROVE InputOK'
  BY <1>43 DEF Clear
<1>44. ASSUME NEW t \in Threads, Heartbeat(t) \/ ReadTick(t) \/ StoreTick(t) PROVE InputOK'
  BY <1>44 DEF Heartbeat, HeartbeatDue, ReadTick, StoreTick
<1>45. CASE EnvNext
  <2>1. CASE TimerExpires
    BY <2>1 DEF TimerExpires
  <2>2. CASE SigintArrives
    BY <2>2 DEF SigintArrives
  <2>3. CASE UserTypes
    BY <2>3 DEF UserTypes
  <2>4. CASE ClientSends
    BY <2>4 DEF ClientSends
  <2>5. CASE ClientResumes
    BY <2>5 DEF ClientResumes
  <2>6. CASE SpuriousWakeup
    BY <2>6 DEF SpuriousWakeup, WaitLabels
  <2> QED BY <1>45, <2>1, <2>2, <2>3, <2>4, <2>5, <2>6 DEF EnvNext
<1>46. CASE Ended \/ UNCHANGED vars
  BY <1>46 DEF Ended, vars
<1> QED BY <1>1, <1>2, <1>3, <1>4, <1>5, <1>6, <1>7, <1>8, <1>9, <1>10,
        <1>11, <1>12, <1>13, <1>14, <1>15, <1>16, <1>17, <1>18, <1>19, <1>20,
        <1>21, <1>22, <1>23, <1>24, <1>25, <1>26, <1>27, <1>28, <1>29, <1>30,
        <1>31, <1>32, <1>33, <1>34, <1>35, <1>36, <1>37, <1>38, <1>39, <1>40,
        <1>41, <1>42, <1>43, <1>44, <1>45, <1>46 DEF Next, MainNext, CodeNext,
        CodeSteps, Shared

(* In normal mode only the main thread runs the ticker and writes updates. *)
NormalInv == ~fast_mode => pc["code"] \notin SharedLabels

LEMMA NormalStep == ASSUME TypeOK, NormalInv, [Next]_vars PROVE NormalInv'
<1> USE DEF TypeOK, ControlOK, NormalInv, Labels, AllLabels, MainLabels,
        CodeLabels, SharedLabels, CallSignal, CallWrite, CallTick
<1>1. CASE Signal
  BY <1>1 DEF Signal
<1>2. CASE Delivered
  BY <1>2 DEF Delivered
<1>3. CASE Bounce
  BY <1>3 DEF Bounce
<1>4. CASE Loop
  BY <1>4 DEF Loop
<1>5. CASE Epoll
  BY <1>5 DEF Epoll
<1>6. CASE HandleSigint
  BY <1>6 DEF HandleSigint
<1>7. CASE SigintLock
  BY <1>7 DEF SigintLock
<1>8. CASE SigintAdd
  BY <1>8 DEF SigintAdd
<1>9. CASE SigintMark
  BY <1>9 DEF SigintMark
<1>10. CASE Stall \/ StallTest
  BY <1>10 DEF Stall, StallTest, Stalled
<1>11. CASE Nfds
  BY <1>11 DEF Nfds
<1>12. CASE EventsDone
  BY <1>12 DEF EventsDone
<1>13. CASE ReadStdin
  BY <1>13 DEF ReadStdin
<1>14. CASE AddStdin
  BY <1>14 DEF AddStdin
<1>15. CASE ReadClient
  BY <1>15 DEF ReadClient
<1>16. CASE BatchDone
  BY <1>16 DEF BatchDone
<1>17. CASE ProcessResume
  BY <1>17 DEF ProcessResume
<1>18. CASE InputLock
  BY <1>18 DEF InputLock
<1>19. CASE InputSet
  BY <1>19 DEF InputSet
<1>20. CASE Ack
  BY <1>20 DEF Ack
<1>21. CASE ReadTimer
  BY <1>21 DEF ReadTimer
<1>22. CASE Rearm
  BY <1>22 DEF Rearm
<1>23. CASE FastForwardTimer
  BY <1>23 DEF FastForwardTimer
<1>24. CASE LastSignal
  BY <1>24 DEF LastSignal
<1>25. CASE Resume
  BY <1>25 DEF Resume
<1>26. CASE VMRuns
  BY <1>26 DEF VMRuns
<1>27. CASE VMYields
  BY <1>27 DEF VMYields
<1>28. CASE Hook
  BY <1>28 DEF Hook
<1>29. CASE HookWoken
  BY <1>29 DEF HookWoken
<1>30. CASE WFI
  BY <1>30 DEF WFI
<1>31. CASE WFIWait
  BY <1>31 DEF WFIWait
<1>32. CASE WFIWoken
  BY <1>32 DEF WFIWoken
<1>33. CASE Suspend
  BY <1>33 DEF Suspend
<1>34. CASE SuspendOver
  BY <1>34 DEF SuspendOver
<1>35. CASE WFIFlags
  BY <1>35 DEF WFIFlags
<1>36. ASSUME NEW t \in Threads, Write(t) PROVE NormalInv'
  BY <1>36 DEF Write
<1>37. ASSUME NEW t \in Threads, Written(t) PROVE NormalInv'
  BY <1>37 DEF Written
<1>38. ASSUME NEW t \in Threads, TickLock(t) PROVE NormalInv'
  BY <1>38 DEF TickLock
<1>39. ASSUME NEW t \in Threads, Fire(t) PROVE NormalInv'
  BY <1>39 DEF Fire
<1>40. ASSUME NEW t \in Threads, Round(t) PROVE NormalInv'
  BY <1>40 DEF Round
<1>41. ASSUME NEW t \in Threads, Check(t) PROVE NormalInv'
  BY <1>41 DEF Check
<1>42. ASSUME NEW t \in Threads, Copy(t) PROVE NormalInv'
  BY <1>42 DEF Copy
<1>43. ASSUME NEW t \in Threads, Clear(t) PROVE NormalInv'
  BY <1>43 DEF Clear
<1>44. ASSUME NEW t \in Threads, Heartbeat(t) \/ ReadTick(t) \/ StoreTick(t) PROVE NormalInv'
  BY <1>44 DEF Heartbeat, HeartbeatDue, ReadTick, StoreTick
<1>45. CASE EnvNext
  BY <1>45 DEF EnvNext, TimerExpires, SigintArrives, UserTypes,
     ClientSends, ClientResumes, SpuriousWakeup
<1>46. CASE Ended \/ UNCHANGED vars
  BY <1>46 DEF Ended, vars
<1> QED BY <1>1, <1>2, <1>3, <1>4, <1>5, <1>6, <1>7, <1>8, <1>9, <1>10,
        <1>11, <1>12, <1>13, <1>14, <1>15, <1>16, <1>17, <1>18, <1>19, <1>20,
        <1>21, <1>22, <1>23, <1>24, <1>25, <1>26, <1>27, <1>28, <1>29, <1>30,
        <1>31, <1>32, <1>33, <1>34, <1>35, <1>36, <1>37, <1>38, <1>39, <1>40,
        <1>41, <1>42, <1>43, <1>44, <1>45, <1>46 DEF Next, MainNext, CodeNext,
        CodeSteps, Shared

(* A label inside a section of a mutex is entered by taking it and left by
   giving it back, in every action. *)
LEMMA LockStep == ASSUME TypeOK, NormalInv, LockInv, [Next]_vars PROVE LockInv'
<1> USE DEF TypeOK, ControlOK, SyncOK, LockInv, HoldsCodeLock, Labels,
        MainLabels, CodeLabels, SharedLabels, AllLabels, CallSignal,
        CallWrite, CallTick
<1>1. CASE Signal
  BY <1>1 DEF Signal
<1>2. CASE Delivered
  BY <1>2 DEF Delivered
<1>3. CASE Bounce
  BY <1>3 DEF Bounce
<1>4. CASE Loop
  BY <1>4 DEF Loop
<1>5. CASE Epoll
  BY <1>5 DEF Epoll
<1>6. CASE HandleSigint
  BY <1>6 DEF HandleSigint
<1>7. CASE SigintLock
  BY <1>7 DEF SigintLock
<1>8. CASE SigintAdd
  BY <1>8 DEF SigintAdd
<1>9. CASE SigintMark
  BY <1>9 DEF SigintMark
<1>10. CASE Stall \/ StallTest
  BY <1>10 DEF Stall, StallTest, Stalled
<1>11. CASE Nfds
  BY <1>11 DEF Nfds
<1>12. CASE EventsDone
  BY <1>12 DEF EventsDone
<1>13. CASE ReadStdin
  BY <1>13 DEF ReadStdin
<1>14. CASE AddStdin
  BY <1>14 DEF AddStdin
<1>15. CASE ReadClient
  BY <1>15 DEF ReadClient
<1>16. CASE BatchDone
  BY <1>16 DEF BatchDone
<1>17. CASE ProcessResume
  BY <1>17 DEF ProcessResume
<1>18. CASE InputLock
  BY <1>18 DEF InputLock
<1>19. CASE InputSet
  BY <1>19 DEF InputSet
<1>20. CASE Ack
  BY <1>20 DEF Ack
<1>21. CASE ReadTimer
  BY <1>21 DEF ReadTimer
<1>22. CASE Rearm
  BY <1>22 DEF Rearm
<1>23. CASE FastForwardTimer
  BY <1>23 DEF FastForwardTimer
<1>24. CASE LastSignal
  BY <1>24 DEF LastSignal
<1>25. CASE Resume
  BY <1>25 DEF Resume
<1>26. CASE VMRuns
  BY <1>26 DEF VMRuns
<1>27. CASE VMYields
  BY <1>27 DEF VMYields
<1>28. CASE Hook
  BY <1>28 DEF Hook
<1>29. CASE HookWoken
  BY <1>29 DEF HookWoken
<1>30. CASE WFI
  BY <1>30 DEF WFI
<1>31. CASE WFIWait
  BY <1>31 DEF WFIWait
<1>32. CASE WFIWoken
  BY <1>32 DEF WFIWoken
<1>33. CASE Suspend
  BY <1>33 DEF Suspend
<1>34. CASE SuspendOver
  BY <1>34 DEF SuspendOver
<1>35. CASE WFIFlags
  BY <1>35 DEF WFIFlags
<1>36. ASSUME NEW t \in Threads, Write(t) PROVE LockInv'
  BY <1>36 DEF Write
<1>37. ASSUME NEW t \in Threads, Written(t) PROVE LockInv'
  BY <1>37 DEF Written
<1>38. ASSUME NEW t \in Threads, TickLock(t) PROVE LockInv'
  BY <1>38 DEF TickLock
<1>39. ASSUME NEW t \in Threads, Fire(t) PROVE LockInv'
  <2>1. code_lock = t /\ code_lock' = None /\ updates_file_lock' = updates_file_lock
    BY <1>39 DEF Fire
  <2>2. pc' = [pc EXCEPT ![t] = "round"] \/ (t = "main" /\ pc' = [pc EXCEPT ![t] = "signal"])
    BY <1>39 DEF Fire, NormalInv, SharedLabels
  <2> QED BY <1>39, <2>1, <2>2
<1>40. ASSUME NEW t \in Threads, Round(t) PROVE LockInv'
  BY <1>40 DEF Round
<1>41. ASSUME NEW t \in Threads, Check(t) PROVE LockInv'
  BY <1>41 DEF Check
<1>42. ASSUME NEW t \in Threads, Copy(t) PROVE LockInv'
  BY <1>42 DEF Copy
<1>43. ASSUME NEW t \in Threads, Clear(t) PROVE LockInv'
  BY <1>43 DEF Clear
<1>44. ASSUME NEW t \in Threads, Heartbeat(t) \/ ReadTick(t) \/ StoreTick(t) PROVE LockInv'
  BY <1>44 DEF Heartbeat, HeartbeatDue, ReadTick, StoreTick
<1>45. CASE EnvNext
  BY <1>45 DEF EnvNext, TimerExpires, SigintArrives, UserTypes,
     ClientSends, ClientResumes, SpuriousWakeup
<1>46. CASE Ended \/ UNCHANGED vars
  BY <1>46 DEF Ended, vars
<1> QED BY <1>1, <1>2, <1>3, <1>4, <1>5, <1>6, <1>7, <1>8, <1>9, <1>10,
        <1>11, <1>12, <1>13, <1>14, <1>15, <1>16, <1>17, <1>18, <1>19, <1>20,
        <1>21, <1>22, <1>23, <1>24, <1>25, <1>26, <1>27, <1>28, <1>29, <1>30,
        <1>31, <1>32, <1>33, <1>34, <1>35, <1>36, <1>37, <1>38, <1>39, <1>40,
        <1>41, <1>42, <1>43, <1>44, <1>45, <1>46 DEF Next, MainNext, CodeNext,
        CodeSteps, Shared

(* The handshake survives every step: only Signal makes main wait, and only
   WFIWoken, which wakes main, ends the wait in __WFI. *)
LEMMA HandshakeStep == ASSUME TypeOK, HandshakeInv, [Next]_vars PROVE HandshakeInv'
<1> USE DEF TypeOK, ControlOK, SyncOK, HandshakeInv, Labels, AllLabels,
        MainLabels, CodeLabels, SharedLabels, CallSignal, CallWrite, CallTick
<1>1. CASE Signal
  BY <1>1 DEF Signal, AtInterruptSignal
<1>2. CASE Delivered
  BY <1>2 DEF Delivered
<1>3. CASE Bounce
  BY <1>3 DEF Bounce
<1>4. CASE Loop
  BY <1>4 DEF Loop
<1>5. CASE Epoll
  BY <1>5 DEF Epoll
<1>6. CASE HandleSigint
  BY <1>6 DEF HandleSigint
<1>7. CASE SigintLock
  BY <1>7 DEF SigintLock
<1>8. CASE SigintAdd
  BY <1>8 DEF SigintAdd
<1>9. CASE SigintMark
  BY <1>9 DEF SigintMark
<1>10. CASE Stall \/ StallTest
  BY <1>10 DEF Stall, StallTest, Stalled
<1>11. CASE Nfds
  BY <1>11 DEF Nfds
<1>12. CASE EventsDone
  BY <1>12 DEF EventsDone
<1>13. CASE ReadStdin
  BY <1>13 DEF ReadStdin
<1>14. CASE AddStdin
  BY <1>14 DEF AddStdin
<1>15. CASE ReadClient
  BY <1>15 DEF ReadClient
<1>16. CASE BatchDone
  BY <1>16 DEF BatchDone
<1>17. CASE ProcessResume
  BY <1>17 DEF ProcessResume, AtSuspendWait
<1>18. CASE InputLock
  BY <1>18 DEF InputLock
<1>19. CASE InputSet
  BY <1>19 DEF InputSet
<1>20. CASE Ack
  BY <1>20 DEF Ack
<1>21. CASE ReadTimer
  BY <1>21 DEF ReadTimer
<1>22. CASE Rearm
  BY <1>22 DEF Rearm
<1>23. CASE FastForwardTimer
  BY <1>23 DEF FastForwardTimer
<1>24. CASE LastSignal
  BY <1>24 DEF LastSignal
<1>25. CASE Resume
  BY <1>25 DEF Resume
<1>26. CASE VMRuns
  BY <1>26 DEF VMRuns
<1>27. CASE VMYields
  BY <1>27 DEF VMYields
<1>28. CASE Hook
  BY <1>28 DEF Hook
<1>29. CASE HookWoken
  BY <1>29 DEF HookWoken
<1>30. CASE WFI
  BY <1>30 DEF WFI
<1>31. CASE WFIWait
  BY <1>31 DEF WFIWait
<1>32. CASE WFIWoken
  BY <1>32 DEF WFIWoken, AtInterruptDelivered
<1>33. CASE Suspend
  BY <1>33 DEF Suspend
<1>34. CASE SuspendOver
  BY <1>34 DEF SuspendOver
<1>35. CASE WFIFlags
  BY <1>35 DEF WFIFlags
<1>36. ASSUME NEW t \in Threads, Write(t) PROVE HandshakeInv'
  BY <1>36 DEF Write
<1>37. ASSUME NEW t \in Threads, Written(t) PROVE HandshakeInv'
  BY <1>37 DEF Written
<1>38. ASSUME NEW t \in Threads, TickLock(t) PROVE HandshakeInv'
  BY <1>38 DEF TickLock
<1>39. ASSUME NEW t \in Threads, Fire(t) PROVE HandshakeInv'
  BY <1>39 DEF Fire
<1>40. ASSUME NEW t \in Threads, Round(t) PROVE HandshakeInv'
  BY <1>40 DEF Round
<1>41. ASSUME NEW t \in Threads, Check(t) PROVE HandshakeInv'
  BY <1>41 DEF Check
<1>42. ASSUME NEW t \in Threads, Copy(t) PROVE HandshakeInv'
  BY <1>42 DEF Copy
<1>43. ASSUME NEW t \in Threads, Clear(t) PROVE HandshakeInv'
  BY <1>43 DEF Clear
<1>44. ASSUME NEW t \in Threads, Heartbeat(t) \/ ReadTick(t) \/ StoreTick(t) PROVE HandshakeInv'
  BY <1>44 DEF Heartbeat, HeartbeatDue, ReadTick, StoreTick
<1>45. CASE EnvNext
  BY <1>45 DEF EnvNext, TimerExpires, SigintArrives, UserTypes,
     ClientSends, ClientResumes, SpuriousWakeup
<1>46. CASE Ended \/ UNCHANGED vars
  BY <1>46 DEF Ended, vars
<1> QED BY <1>1, <1>2, <1>3, <1>4, <1>5, <1>6, <1>7, <1>8, <1>9, <1>10,
        <1>11, <1>12, <1>13, <1>14, <1>15, <1>16, <1>17, <1>18, <1>19, <1>20,
        <1>21, <1>22, <1>23, <1>24, <1>25, <1>26, <1>27, <1>28, <1>29, <1>30,
        <1>31, <1>32, <1>33, <1>34, <1>35, <1>36, <1>37, <1>38, <1>39, <1>40,
        <1>41, <1>42, <1>43, <1>44, <1>45, <1>46 DEF Next, MainNext, CodeNext,
        CodeSteps, Shared

LEMMA InitInv == Init => TypeOK /\ NormalInv /\ LockInv /\ HandshakeInv
<1> SUFFICES ASSUME Init PROVE TypeOK /\ NormalInv /\ LockInv /\ HandshakeInv
  OBVIOUS
<1> USE Bounds DEF Init
<1>1. ControlOK
  BY DEF ControlOK, Labels, AllLabels, MainLabels, CodeLabels, SharedLabels
<1>2. SyncOK
  BY DEF SyncOK
<1>3. InputOK
  <2>1. timer \in {"off", "armed"}
    OBVIOUS
  <2>2. batch \in Seq({"input", "resume"}) /\ client_pipe \in Seq({"input", "resume"})
    OBVIOUS
  <2> QED BY <2>1, <2>2 DEF InputOK
<1>4. DataOK
  <2>1. suspend \in BOOLEAN /\ unanswered \in BOOLEAN /\ dropped \in BOOLEAN
    <3>1. fast_mode \in BOOLEAN /\ heartbeat_mode \in BOOLEAN
      BY ModeAssumption
    <3>2. suspend = TRUE \/ suspend = FALSE
      BY <3>1
    <3> QED BY <3>2
  <2>2. /\ pending \in {NotPending} \cup 0..(StallTicks + 1)
        /\ n \in 0..BranchLimit /\ quiet \in 0..MaxQuiet /\ uptime \in 0..(StallTicks + 1)
        /\ since_heartbeat \in Nat /\ age \in [Threads -> Nat] /\ untold \in Nat /\ ff \in Nat
    OBVIOUS
  <2>3. dirty \subseteq Checked /\ flags \subseteq Flags
    OBVIOUS
  <2>4. /\ shutdown \in BOOLEAN /\ unread \in BOOLEAN /\ sent_ctrl_d \in BOOLEAN
        /\ suppress \in BOOLEAN
        /\ stale \in BOOLEAN
    OBVIOUS
  <2> HIDE DEF Init
  <2> QED BY <2>1, <2>2, <2>3, <2>4 DEF DataOK
<1>5. NormalInv /\ LockInv /\ HandshakeInv
  BY DEF NormalInv, SharedLabels, LockInv, HoldsCodeLock, HandshakeInv
<1> QED BY <1>1, <1>2, <1>3, <1>4, <1>5 DEF TypeOK

(* The type invariant, for any command line, bounds and environment. *)
THEOREM TypeCorrect == Spec => []TypeOK
<1>1. Init => TypeOK
  BY InitInv
<1>2. TypeOK /\ [Next]_vars => TypeOK'
  BY ControlStep, SyncStep, DataStep, InputStep DEF TypeOK
<1> QED BY <1>1, <1>2, PTL DEF Spec

(* In normal mode the code thread never runs the ticker or writes an update. *)
THEOREM CodeNeverTicks == Spec => []NormalInv
<1>1. TypeOK /\ NormalInv /\ [Next]_vars => NormalInv'
  BY NormalStep
<1>2. Init => NormalInv
  BY InitInv
<1> QED BY <1>1, <1>2, TypeCorrect, PTL DEF Spec

(* code_lock and updates_file_lock: the VM never runs while the main thread is
   inside a section of code_lock (Main.cpp:86-88), in any mode. *)
THEOREM MutexesRespected == Spec => []LockInv
<1>1. TypeOK /\ NormalInv /\ LockInv /\ [Next]_vars => LockInv'
  BY LockStep
<1>2. Init => LockInv
  BY InitInv
<1> QED BY <1>1, <1>2, TypeCorrect, CodeNeverTicks, PTL DEF Spec

(* Main.cpp:231-236 and 260-280: main never sleeps on interrupt_delivered
   unless the code thread is already on its way to broadcast it, even with
   spurious wake-ups. *)
THEOREM HandshakeHolds == Spec => []HandshakeInv
<1>1. TypeOK /\ HandshakeInv /\ [Next]_vars => HandshakeInv'
  BY HandshakeStep
<1>2. Init => HandshakeInv
  BY InitInv
<1> QED BY <1>1, <1>2, TypeCorrect, PTL DEF Spec

---------------------------------------------------------------------------
(* Fast mode: the code thread never sleeps on suspend_wait without a resume  *)
(* on its way.  And code_lock: serial input changes only under it.           *)

Asleep == pc["code"] \in {"wfi_suspended", "hook_suspended"}

\* The marker still has to answer: an update is being written or is unanswered, or its
\* resume has not been handled; or the resume was dropped, and it has nothing to answer.
BeingWritten == \E t \in Threads : At(t, "written") /\ ShouldSuspend(t)
ResumeComes == unanswered \/ BeingWritten \/ Resumes(client_pipe) \/ Resumes(batch) \/ dropped

\* Main is handling the events of a batch.
InBatch ==
  \/ pc["main"] \in {"batch", "input_set", "ack"}
  \/ pc["main"] \in {"signal", "sig_wait", "bounce"} /\ sig_ret = "ack"
  \/ pc["main"] \in {"write", "written"} /\ w_ret["main"] = "batch"

\* A batch is handled to its end before the next is read, and what is taken off its front
\* in input_set is no resume.
BatchInv ==
  /\ batch # <<>> => InBatch
  /\ At("main", "input_set") => batch # <<>> /\ Head(batch) = "input"

SuspendInv ==
  /\ suspend => ResumeComes
  /\ Asleep /\ "code" \notin woken => suspend

LEMMA BatchStep == ASSUME TypeOK, NormalInv, BatchInv, [Next]_vars PROVE BatchInv'
<1> USE DEF TypeOK, ControlOK, InputOK, NormalInv, BatchInv, InBatch, Labels, AllLabels,
        MainLabels, CodeLabels, SharedLabels, CallSignal, CallWrite, CallTick
<1>1. CASE Signal
  BY <1>1 DEF Signal
<1>2. CASE Delivered
  BY <1>2 DEF Delivered
<1>3. CASE Bounce
  BY <1>3 DEF Bounce
<1>4. CASE Loop
  BY <1>4 DEF Loop
<1>5. CASE Epoll
  BY <1>5 DEF Epoll
<1>6. CASE HandleSigint
  BY <1>6 DEF HandleSigint
<1>7. CASE SigintLock
  BY <1>7 DEF SigintLock
<1>8. CASE SigintAdd
  BY <1>8 DEF SigintAdd
<1>9. CASE SigintMark
  BY <1>9 DEF SigintMark
<1>10. CASE Stall \/ StallTest
  BY <1>10 DEF Stall, StallTest, Stalled
<1>11. CASE Nfds
  BY <1>11 DEF Nfds
<1>12. CASE EventsDone
  BY <1>12 DEF EventsDone
<1>13. CASE ReadStdin
  BY <1>13 DEF ReadStdin
<1>14. CASE AddStdin
  BY <1>14 DEF AddStdin
<1>15. CASE ReadClient
  BY <1>15 DEF ReadClient
<1>16. CASE BatchDone
  BY <1>16 DEF BatchDone
<1>17. CASE ProcessResume
  BY <1>17 DEF ProcessResume
<1>18. CASE InputLock
  BY <1>18 DEF InputLock
<1>19. CASE InputSet
  BY <1>19 DEF InputSet
<1>20. CASE Ack
  BY <1>20 DEF Ack
<1>21. CASE ReadTimer
  BY <1>21 DEF ReadTimer
<1>22. CASE Rearm
  BY <1>22 DEF Rearm
<1>23. CASE FastForwardTimer
  BY <1>23 DEF FastForwardTimer
<1>24. CASE LastSignal
  BY <1>24 DEF LastSignal
<1>25. CASE Resume
  BY <1>25 DEF Resume
<1>26. CASE VMRuns
  BY <1>26 DEF VMRuns
<1>27. CASE VMYields
  BY <1>27 DEF VMYields
<1>28. CASE Hook
  BY <1>28 DEF Hook
<1>29. CASE HookWoken
  BY <1>29 DEF HookWoken
<1>30. CASE WFI
  BY <1>30 DEF WFI
<1>31. CASE WFIWait
  BY <1>31 DEF WFIWait
<1>32. CASE WFIWoken
  BY <1>32 DEF WFIWoken
<1>33. CASE Suspend
  BY <1>33 DEF Suspend
<1>34. CASE SuspendOver
  BY <1>34 DEF SuspendOver
<1>35. CASE WFIFlags
  BY <1>35 DEF WFIFlags
<1>36. ASSUME NEW t \in Threads, Write(t) PROVE BatchInv'
  BY <1>36 DEF Write
<1>37. ASSUME NEW t \in Threads, Written(t) PROVE BatchInv'
  BY <1>37 DEF Written
<1>38. ASSUME NEW t \in Threads, TickLock(t) PROVE BatchInv'
  BY <1>38 DEF TickLock
<1>39. ASSUME NEW t \in Threads, Fire(t) PROVE BatchInv'
  BY <1>39 DEF Fire
<1>40. ASSUME NEW t \in Threads, Round(t) PROVE BatchInv'
  BY <1>40 DEF Round
<1>41. ASSUME NEW t \in Threads, Check(t) PROVE BatchInv'
  BY <1>41 DEF Check
<1>42. ASSUME NEW t \in Threads, Copy(t) PROVE BatchInv'
  BY <1>42 DEF Copy
<1>43. ASSUME NEW t \in Threads, Clear(t) PROVE BatchInv'
  BY <1>43 DEF Clear
<1>44. ASSUME NEW t \in Threads, Heartbeat(t) \/ ReadTick(t) \/ StoreTick(t) PROVE BatchInv'
  BY <1>44 DEF Heartbeat, HeartbeatDue, ReadTick, StoreTick
<1>45. CASE EnvNext
  BY <1>45 DEF EnvNext, TimerExpires, SigintArrives, UserTypes,
     ClientSends, ClientResumes, SpuriousWakeup
<1>46. CASE Ended \/ UNCHANGED vars
  BY <1>46 DEF Ended, vars
<1> QED BY <1>1, <1>2, <1>3, <1>4, <1>5, <1>6, <1>7, <1>8, <1>9, <1>10, <1>11,
        <1>12, <1>13, <1>14, <1>15, <1>16, <1>17, <1>18, <1>19, <1>20, <1>21,
        <1>22, <1>23, <1>24, <1>25, <1>26, <1>27, <1>28, <1>29, <1>30, <1>31,
        <1>32, <1>33, <1>34, <1>35, <1>36, <1>37, <1>38, <1>39, <1>40, <1>41,
        <1>42, <1>43, <1>44, <1>45, <1>46 DEF Next, MainNext, CodeNext,
        CodeSteps, Shared

\* What keeps a thread in the middle of a write, the flag, the answers and the pipe, and puts
\* nobody to sleep.
LEMMA StillComes ==
  ASSUME SuspendInv, suspend' => suspend,
         UNCHANGED <<unanswered, dropped, client_pipe, batch>>,
         \A t \in Threads : At(t, "written") => pc'[t] = pc[t] /\ w_ret'[t] = w_ret[t],
         Asleep' /\ "code" \notin woken' => suspend'
  PROVE  SuspendInv'
BY DEF SuspendInv, ResumeComes, BeingWritten, ShouldSuspend

LEMMA TailKeeps ==
  ASSUME NEW q \in Seq({"input", "resume"}), q # <<>>, Head(q) = "input", Resumes(q)
  PROVE  Resumes(Tail(q))
<1>1. PICK i \in 1..Len(q) : q[i] = "resume"
  BY DEF Resumes
<1>2. i - 1 \in 1..Len(Tail(q)) /\ Tail(q)[i - 1] = q[i]
  BY <1>1
<1> QED BY <1>1, <1>2 DEF Resumes

LEMMA CutKeeps ==
  ASSUME NEW q \in Seq({"input", "resume"}), NEW k \in 1..Len(q), Resumes(q)
  PROVE  Resumes(SubSeq(q, 1, k)) \/ Resumes(SubSeq(q, k + 1, Len(q)))
<1>1. PICK i \in 1..Len(q) : q[i] = "resume"
  BY DEF Resumes
<1>2. CASE i <= k
  <2>1. i \in 1..Len(SubSeq(q, 1, k)) /\ SubSeq(q, 1, k)[i] = q[i]
    BY <1>2
  <2> QED BY <1>1, <2>1 DEF Resumes
<1>3. CASE i > k
  <2>1. /\ i - k \in 1..Len(SubSeq(q, k + 1, Len(q)))
        /\ SubSeq(q, k + 1, Len(q))[i - k] = q[i]
    BY <1>3
  <2> QED BY <1>1, <2>1 DEF Resumes
<1> QED BY <1>2, <1>3

\* A resume stays on its way: only ProcessResume takes one, and it clears suspend and wakes
\* the code thread.
LEMMA SuspendStep == ASSUME TypeOK, NormalInv, BatchInv, SuspendInv, [Next]_vars PROVE SuspendInv'
<1> USE DEF TypeOK, ControlOK, Asleep, Labels, AllLabels,
        MainLabels, CodeLabels, SharedLabels, CallSignal, CallWrite, CallTick
<1>a. Asleep /\ "code" \notin woken => suspend
  BY DEF SuspendInv
<1>1. CASE Signal
  BY <1>a, StillComes, <1>1 DEF Signal, AtInterruptSignal
<1>2. CASE Delivered
  BY <1>a, StillComes, <1>2 DEF Delivered
<1>3. CASE Bounce
  BY <1>a, StillComes, <1>3 DEF Bounce
<1>4. CASE Loop
  BY <1>a, StillComes, <1>4 DEF Loop
<1>5. CASE Epoll
  BY <1>a, StillComes, <1>5 DEF Epoll
<1>6. CASE HandleSigint
  BY <1>a, StillComes, <1>6 DEF HandleSigint
<1>7. CASE SigintLock
  BY <1>a, StillComes, <1>7 DEF SigintLock
<1>8. CASE SigintAdd
  BY <1>a, StillComes, <1>8 DEF SigintAdd
<1>9. CASE SigintMark
  BY <1>a, StillComes, <1>9 DEF SigintMark
<1>10. CASE Stall \/ StallTest
  BY <1>a, StillComes, <1>10 DEF Stall, StallTest
<1>11. CASE Nfds
  BY <1>a, StillComes, <1>11 DEF Nfds
<1>12. CASE EventsDone
  BY <1>a, StillComes, <1>12 DEF EventsDone
<1>13. CASE ReadStdin
  BY <1>a, StillComes, <1>13 DEF ReadStdin
<1>14. CASE AddStdin
  BY <1>a, StillComes, <1>14 DEF AddStdin
<1>15. CASE ReadClient
  <2>1. batch = <<>> /\ ~Resumes(batch)
    BY <1>15 DEF ReadClient, BatchInv, InBatch, Resumes
  <2>2. /\ Resumes(client_pipe) => Resumes(batch') \/ Resumes(client_pipe') \/ dropped'
        /\ dropped => dropped'
    <3>1. CASE batch' = client_pipe /\ UNCHANGED dropped
      BY <3>1
    <3>2. ASSUME NEW k \in 1..Len(client_pipe),
                 client_pipe' = SubSeq(client_pipe, k + 1, Len(client_pipe)),
                 dropped' = (dropped \/ Resumes(SubSeq(client_pipe, 1, k)))
          PROVE  /\ Resumes(client_pipe) => Resumes(client_pipe') \/ dropped'
                 /\ dropped => dropped'
      BY <3>2, CutKeeps DEF TypeOK, InputOK
    <3> QED BY <1>15, <3>1, <3>2 DEF ReadClient
  <2>3. /\ UNCHANGED <<suspend, unanswered, w_ret, woken>>
        /\ pc' = [pc EXCEPT !["main"] = "batch"] /\ At("main", "dispatch")
    BY <1>15 DEF ReadClient
  <2>4. BeingWritten => BeingWritten'
    BY <2>3 DEF BeingWritten, ShouldSuspend
  <2> QED BY <1>a, <2>1, <2>2, <2>3, <2>4 DEF SuspendInv, ResumeComes
<1>16. CASE BatchDone
  BY <1>a, StillComes, <1>16 DEF BatchDone
<1>17. CASE ProcessResume
  <2>1. suspend' = FALSE /\ (Asleep' => "code" \in woken')
    BY <1>17 DEF ProcessResume, AtSuspendWait
  <2> QED BY <2>1 DEF SuspendInv
<1>18. CASE InputLock
  BY <1>a, StillComes, <1>18 DEF InputLock
<1>19. CASE InputSet
  <2>1. batch # <<>> /\ Head(batch) = "input" /\ batch' = Tail(batch)
    BY <1>19 DEF InputSet, BatchInv
  <2>2. Resumes(batch) => Resumes(batch')
    BY <2>1, TailKeeps DEF TypeOK, InputOK
  <2>3. /\ UNCHANGED <<suspend, unanswered, dropped, w_ret, woken, client_pipe>>
        /\ pc' = [pc EXCEPT !["main"] = "signal"] /\ At("main", "input_set")
    BY <1>19 DEF InputSet
  <2>4. BeingWritten => BeingWritten'
    BY <2>3 DEF BeingWritten, ShouldSuspend
  <2> QED BY <1>a, <2>2, <2>3, <2>4 DEF SuspendInv, ResumeComes
<1>20. CASE Ack
  BY <1>a, StillComes, <1>20 DEF Ack
<1>21. CASE ReadTimer
  BY <1>a, StillComes, <1>21 DEF ReadTimer
<1>22. CASE Rearm
  BY <1>a, StillComes, <1>22 DEF Rearm
<1>23. CASE FastForwardTimer
  BY <1>a, StillComes, <1>23 DEF FastForwardTimer
<1>24. CASE LastSignal
  BY <1>a, StillComes, <1>24 DEF LastSignal
<1>25. CASE Resume
  BY <1>a, StillComes, <1>25 DEF Resume
<1>26. CASE VMRuns
  BY <1>a, StillComes, <1>26 DEF VMRuns
<1>27. CASE VMYields
  BY <1>a, StillComes, <1>27 DEF VMYields
<1>28. CASE Hook
  BY <1>a, StillComes, <1>28 DEF Hook
<1>29. CASE HookWoken
  BY <1>a, StillComes, <1>29 DEF HookWoken
<1>30. CASE WFI
  BY <1>a, StillComes, <1>30 DEF WFI
<1>31. CASE WFIWait
  BY <1>a, StillComes, <1>31 DEF WFIWait
<1>32. CASE WFIWoken
  BY <1>a, StillComes, <1>32 DEF WFIWoken, AtInterruptDelivered
<1>33. CASE Suspend
  BY <1>a, StillComes, <1>33 DEF Suspend
<1>34. CASE SuspendOver
  BY <1>a, StillComes, <1>34 DEF SuspendOver
<1>35. CASE WFIFlags
  BY <1>a, StillComes, <1>35 DEF WFIFlags
<1>36. ASSUME NEW t \in Threads, Write(t) PROVE SuspendInv'
  <2>1. /\ suspend' = (suspend \/ ShouldSuspend(t)) /\ At(t, "write")
        /\ pc' = [pc EXCEPT ![t] = "written"]
        /\ UNCHANGED <<unanswered, dropped, w_ret, woken, client_pipe, batch>>
    BY <1>36 DEF Write
  <2>2. ShouldSuspend(t) => BeingWritten'
    BY <2>1 DEF BeingWritten, ShouldSuspend
  <2>3. BeingWritten => BeingWritten'
    BY <2>1 DEF BeingWritten, ShouldSuspend
  <2>4. ResumeComes => ResumeComes'
    BY <2>1, <2>3 DEF ResumeComes
  <2>5. suspend' => ResumeComes'
    BY <2>1, <2>2, <2>4 DEF SuspendInv, ResumeComes
  <2>6. Asleep' /\ "code" \notin woken' => suspend'
    BY <1>a, <2>1
  <2> QED BY <2>5, <2>6 DEF SuspendInv
<1>37. ASSUME NEW t \in Threads, Written(t) PROVE SuspendInv'
  <2>1. /\ unanswered' = (unanswered \/ ShouldSuspend(t)) /\ At(t, "written")
        /\ pc' = [pc EXCEPT ![t] = w_ret[t]]
        /\ w_ret' = [w_ret EXCEPT ![t] = "check"]
        /\ UNCHANGED <<suspend, dropped, woken, client_pipe, batch>>
    BY <1>37 DEF Written
  <2>2. BeingWritten => unanswered' \/ BeingWritten'
    BY <2>1 DEF BeingWritten, ShouldSuspend
  <2>3. ResumeComes => ResumeComes'
    BY <2>1, <2>2 DEF ResumeComes
  <2>4. Asleep' => Asleep
    BY <2>1
  <2> QED BY <1>a, <2>1, <2>3, <2>4 DEF SuspendInv
<1>38. ASSUME NEW t \in Threads, TickLock(t) PROVE SuspendInv'
  BY <1>a, StillComes, <1>38 DEF TickLock
<1>39. ASSUME NEW t \in Threads, Fire(t) PROVE SuspendInv'
  <2>1. /\ UNCHANGED <<suspend, unanswered, dropped, client_pipe, batch, w_ret, woken>>
        /\ At(t, "fire")
        /\ pc' = [pc EXCEPT ![t] = "round"] \/ pc' = [pc EXCEPT !["main"] = "signal"]
    BY <1>39 DEF Fire
  <2>2. ~fast_mode => t = "main"
    BY <1>39 DEF Fire, NormalInv
  <2>3. \A u \in Threads : At(u, "written") => pc'[u] = pc[u] /\ w_ret'[u] = w_ret[u]
    BY <1>39, <2>1, <2>2 DEF Fire
  <2>4. Asleep' => Asleep
    BY <2>1
  <2> QED BY <1>a, <2>1, <2>3, <2>4, StillComes
<1>40. ASSUME NEW t \in Threads, Round(t) PROVE SuspendInv'
  BY <1>a, StillComes, <1>40 DEF Round
<1>41. ASSUME NEW t \in Threads, Check(t) PROVE SuspendInv'
  BY <1>a, StillComes, <1>41 DEF Check
<1>42. ASSUME NEW t \in Threads, Copy(t) PROVE SuspendInv'
  BY <1>a, StillComes, <1>42 DEF Copy
<1>43. ASSUME NEW t \in Threads, Clear(t) PROVE SuspendInv'
  BY <1>a, StillComes, <1>43 DEF Clear
<1>44. ASSUME NEW t \in Threads, Heartbeat(t) \/ ReadTick(t) \/ StoreTick(t) PROVE SuspendInv'
  BY <1>a, StillComes, <1>44 DEF Heartbeat, HeartbeatDue, ReadTick, StoreTick
<1>45. CASE EnvNext
  <2>1. CASE ClientResumes
    <3>1. /\ client_pipe' = Append(client_pipe, "resume") /\ client_pipe \in Seq({"input", "resume"})
          /\ UNCHANGED <<suspend, pc, woken>>
      BY <2>1 DEF ClientResumes, TypeOK, InputOK
    <3>2. Len(client_pipe') = Len(client_pipe) + 1 /\ client_pipe'[Len(client_pipe) + 1] = "resume"
      BY <3>1
    <3>3. Resumes(client_pipe')
      BY <3>1, <3>2 DEF Resumes
    <3> QED BY <1>a, <3>1, <3>3 DEF SuspendInv, ResumeComes
  <2>2. CASE ClientSends
    <3>1. /\ client_pipe' = Append(client_pipe, "input") /\ client_pipe \in Seq({"input", "resume"})
          /\ UNCHANGED <<suspend, unanswered, dropped, pc, w_ret, woken, batch>>
      BY <2>2 DEF ClientSends, TypeOK, InputOK
    <3>2. Resumes(client_pipe) => Resumes(client_pipe')
      BY <3>1 DEF Resumes
    <3>3. BeingWritten => BeingWritten'
      BY <3>1 DEF BeingWritten, ShouldSuspend
    <3> QED BY <1>a, <3>1, <3>2, <3>3 DEF SuspendInv, ResumeComes
  <2>3. CASE TimerExpires \/ SigintArrives \/ UserTypes \/ SpuriousWakeup
    BY <1>a, <2>3, StillComes DEF TimerExpires, SigintArrives, UserTypes, SpuriousWakeup
  <2> QED BY <1>45, <2>1, <2>2, <2>3 DEF EnvNext
<1>46. CASE Ended \/ UNCHANGED vars
  BY <1>a, StillComes, <1>46 DEF Ended, vars
<1> QED BY <1>1, <1>2, <1>3, <1>4, <1>5, <1>6, <1>7, <1>8, <1>9, <1>10, <1>11,
        <1>12, <1>13, <1>14, <1>15, <1>16, <1>17, <1>18, <1>19, <1>20, <1>21,
        <1>22, <1>23, <1>24, <1>25, <1>26, <1>27, <1>28, <1>29, <1>30, <1>31,
        <1>32, <1>33, <1>34, <1>35, <1>36, <1>37, <1>38, <1>39, <1>40, <1>41,
        <1>42, <1>43, <1>44, <1>45, <1>46 DEF Next, MainNext, CodeNext,
        CodeSteps, Shared

\* Main.cpp:178-182, 224-228, 968-972: the code thread sleeps on suspend_wait only while the
\* marker's answer is on its way, or was dropped with a full buffer (1008-1011).
THEOREM NoResumeIsLost == Spec => []NoLostResume
<1>1. Init => BatchInv /\ SuspendInv
  BY DEF Init, BatchInv, SuspendInv, ResumeComes, Asleep, Resumes
<1>2. TypeOK /\ NormalInv /\ BatchInv /\ SuspendInv /\ [Next]_vars => (BatchInv /\ SuspendInv)'
  BY BatchStep, SuspendStep
<1>3. SuspendInv => NoLostResume
  BY DEF SuspendInv, NoLostResume, ResumeComes, BeingWritten, Asleep
<1> QED BY <1>1, <1>2, <1>3, TypeCorrect, CodeNeverTicks, PTL DEF Spec

LEMMA UnreadKept ==
  ASSUME interactive, [Next]_vars
  PROVE  unread' = unread \/ AddStdin \/ SigintAdd \/ VMRuns
<1>1. CASE MainNext
  <2>1. CASE Shared("main")
    BY <2>1 DEF Shared, Write, Written, TickLock, Fire, Round, Check, Copy, Clear, Heartbeat,
                ReadTick, StoreTick
  <2>2. CASE Signal \/ Delivered \/ Bounce \/ Loop \/ Epoll \/ HandleSigint \/ SigintLock
             \/ SigintMark \/ Stall \/ StallTest \/ Nfds \/ EventsDone \/ ReadStdin \/ ReadClient
    BY <2>2 DEF Signal, Delivered, Bounce, Loop, Epoll, HandleSigint, SigintLock, SigintMark,
                Stall, StallTest, Nfds, EventsDone, ReadStdin, ReadClient
  <2>3. CASE BatchDone \/ ProcessResume \/ InputLock \/ InputSet \/ Ack \/ ReadTimer \/ Rearm
             \/ FastForwardTimer \/ LastSignal
    BY <2>3 DEF BatchDone, ProcessResume, InputLock, InputSet, Ack, ReadTimer, Rearm,
                FastForwardTimer, LastSignal
  <2> QED BY <1>1, <2>1, <2>2, <2>3 DEF MainNext
<1>2. CASE CodeNext
  <2>1. CASE Shared("code")
    BY <2>1 DEF Shared, Write, Written, TickLock, Fire, Round, Check, Copy, Clear, Heartbeat,
                ReadTick, StoreTick
  <2>2. CASE WFI
    BY <2>2 DEF WFI, SendsCtrlD
  <2>3. CASE Resume \/ Hook \/ HookWoken \/ WFIWait \/ WFIWoken \/ Suspend \/ SuspendOver
             \/ WFIFlags \/ VMYields
    BY <2>3 DEF Resume, Hook, HookWoken, WFIWait, WFIWoken, Suspend, SuspendOver, WFIFlags,
                VMYields
  <2> QED BY <1>2, <2>1, <2>2, <2>3 DEF CodeNext, CodeSteps
<1>3. CASE EnvNext
  BY <1>3 DEF EnvNext, TimerExpires, SigintArrives, UserTypes, ClientSends, ClientResumes,
              SpuriousWakeup
<1>4. CASE Ended \/ UNCHANGED vars
  BY <1>4 DEF Ended, vars
<1> QED BY <1>1, <1>2, <1>3, <1>4 DEF Next

\* Main.cpp:86-88: in an interactive run the serial input is changed under code_lock only.  (In
\* any other run __wait_for_interrupt adds its Ctrl-D without it.)
THEOREM SerialLocked == ASSUME interactive PROVE Spec => SerialUnderLock
<1>1. ASSUME interactive, TypeOK, [Next]_vars
      PROVE  [unread' # unread
                => code_lock # None /\ \A t \in Threads : pc'[t] # pc[t] => code_lock = t]_vars
  <2> USE DEF TypeOK, ControlOK, CallSignal, CallWrite, CallTick
  <2>1. CASE AddStdin \/ SigintAdd
    BY <1>1, <2>1 DEF AddStdin, SigintAdd
  <2>2. CASE VMRuns
    BY <1>1, <2>2 DEF VMRuns
  <2>3. CASE ~(AddStdin \/ SigintAdd \/ VMRuns)
    BY <1>1, <2>3, UnreadKept
  <2> QED BY <2>1, <2>2, <2>3
<1> QED BY <1>1, TypeCorrect, PTL DEF Spec, SerialUnderLock

---------------------------------------------------------------------------
(* What is reported to the marker: a heartbeat in time, and every pending    *)
(* update before the bye message.                                            *)

(* A call of handle_timerfd_event that has fired the ticker and has not yet
   passed the heartbeat, or stored its tick. *)
Writing(t, rets) == pc[t] \in {"write", "written"} /\ w_ret[t] \in rets
Signalling(rets) == pc["main"] \in {"signal", "sig_wait", "bounce"} /\ sig_ret \in rets
Reporting(t) ==
    \/ pc[t] \in {"round", "check", "copy", "clear", "heartbeat", "beat_read", "beat_store"}
    \/ Writing(t, {"check", "clear"})
    \/ t = "main" /\ Signalling({"round"})

Late(t) == IF Reporting(t) THEN 1 ELSE 0

(* The tick of a heartbeat is stored, and the heartbeat is not yet written. *)
Telling(t) == pc[t] \in {"write", "written"} /\ WritesHeartbeat(t)

(* Each thread is late by the one macro tick of the call it is in.  With no
   heartbeat in hand the last one was written after its tick was stored; while
   one is, the other thread may go on until its own is due. *)
HeartbeatInv ==
    /\ ~heartbeat_mode => untold = 0
    /\ ~Telling("main") /\ ~Telling("code") =>
         /\ untold <= since_heartbeat
         /\ untold <= HEARTBEAT_TICKS - 1 + Late("main") + Late("code")
    /\ \A t, u \in Threads : Telling(t) /\ ~Telling(u) =>
         /\ untold <= since_heartbeat + HEARTBEAT_TICKS + 1
         /\ untold <= 2 * HEARTBEAT_TICKS + Late(u)
    /\ Telling("main") /\ Telling("code") => untold <= 2 * HEARTBEAT_TICKS + 1
    /\ ~fast_mode => IF Telling("main") THEN untold <= HEARTBEAT_TICKS
                                        ELSE untold <= HEARTBEAT_TICKS - 1 + Late("main")

(* Main is in fastforward_timer, or past the bye message. *)
InTick == pc["main"] \in {"tick", "fire"} \/ Reporting("main")
FastForwarding ==
    \/ At("main", "ff") \/ Writing("main", {"ff"})
    \/ InTick /\ tick_ret["main"] = "ff"
PastFlush ==
    \/ pc["main"] \in {"last_signal", "done"}
    \/ Writing("main", {"last_signal"}) \/ Signalling({"done"})

(* What shutdown and suppress say of the main thread. *)
StopInv ==
    /\ shutdown => At("code", "exited")
    /\ suppress => FastForwarding
    /\ FastForwarding /\ ~suppress => shutdown
    /\ PastFlush => shutdown /\ dirty \subseteq {"radio_tx"}

(* The checks main has made in this round have left only `rest' dirty. *)
Reported(rest) ==
    \A j \in 1..Len(Checks) : j < check["main"] /\ Checks[j] \in dirty => Checks[j] \in rest

(* The last macro tick of the flush makes a round of checks, and after it
   nothing changes device state. *)
FlushInv ==
    FastForwarding /\ ~suppress
    => /\ pc["main"] \in {"tick", "fire"} => ff > 0
       /\ ff = 0 =>
          /\ At("main", "round") \/ Signalling({"round"}) => stale
          /\ pc["main"] \in {"check", "copy"} \/ Writing("main", {"check"})
               => Reported({"radio_tx"})
          /\ At("main", "clear") \/ Writing("main", {"clear"})
               => Reported({"radio_tx", "marker"})
          /\ pc["main"] \in {"heartbeat", "beat_read", "beat_store", "ff"} \/ Writing("main", {"ff"})
               => dirty \subseteq {"radio_tx"}

LEMMA HeartbeatStep ==
  ASSUME TypeOK, NormalInv, HeartbeatInv, [Next]_vars PROVE HeartbeatInv'
<1> USE Bounds DEF TypeOK, ControlOK, DataOK, NormalInv, HeartbeatInv, Telling, WritesHeartbeat,
        Late, Reporting, Writing,
        Signalling, Labels, AllLabels, MainLabels, CodeLabels, SharedLabels,
        CallSignal, CallWrite, CallTick
<1>1. CASE Signal
  BY <1>1 DEF Signal
<1>2. CASE Delivered
  BY <1>2 DEF Delivered
<1>3. CASE Bounce
  BY <1>3 DEF Bounce
<1>4. CASE Loop
  BY <1>4 DEF Loop
<1>5. CASE Epoll
  BY <1>5 DEF Epoll
<1>6. CASE HandleSigint
  BY <1>6 DEF HandleSigint
<1>7. CASE SigintLock
  BY <1>7 DEF SigintLock
<1>8. CASE SigintAdd
  BY <1>8 DEF SigintAdd
<1>9. CASE SigintMark
  BY <1>9 DEF SigintMark
<1>10. CASE Stall \/ StallTest
  BY <1>10 DEF Stall, StallTest, Stalled
<1>11. CASE Nfds
  BY <1>11 DEF Nfds
<1>12. CASE EventsDone
  BY <1>12 DEF EventsDone
<1>13. CASE ReadStdin
  BY <1>13 DEF ReadStdin
<1>14. CASE AddStdin
  BY <1>14 DEF AddStdin
<1>15. CASE ReadClient
  BY <1>15 DEF ReadClient
<1>16. CASE BatchDone
  BY <1>16 DEF BatchDone
<1>17. CASE ProcessResume
  BY <1>17 DEF ProcessResume
<1>18. CASE InputLock
  BY <1>18 DEF InputLock
<1>19. CASE InputSet
  BY <1>19 DEF InputSet
<1>20. CASE Ack
  BY <1>20 DEF Ack
<1>21. CASE ReadTimer
  BY <1>21 DEF ReadTimer
<1>22. CASE Rearm
  BY <1>22 DEF Rearm
<1>23. CASE FastForwardTimer
  BY <1>23 DEF FastForwardTimer
<1>24. CASE LastSignal
  BY <1>24 DEF LastSignal
<1>25. CASE Resume
  BY <1>25 DEF Resume
<1>26. CASE VMRuns
  BY <1>26 DEF VMRuns
<1>27. CASE VMYields
  BY <1>27 DEF VMYields
<1>28. CASE Hook
  BY <1>28 DEF Hook
<1>29. CASE HookWoken
  BY <1>29 DEF HookWoken
<1>30. CASE WFI
  BY <1>30 DEF WFI
<1>31. CASE WFIWait
  BY <1>31 DEF WFIWait
<1>32. CASE WFIWoken
  BY <1>32 DEF WFIWoken
<1>33. CASE Suspend
  BY <1>33 DEF Suspend
<1>34. CASE SuspendOver
  BY <1>34 DEF SuspendOver
<1>35. CASE WFIFlags
  BY <1>35 DEF WFIFlags
<1>36. ASSUME NEW t \in Threads, Write(t) PROVE HeartbeatInv'
  BY <1>36 DEF Write
<1>37. ASSUME NEW t \in Threads, Written(t) PROVE HeartbeatInv'
  BY <1>37 DEF Written
<1>38. ASSUME NEW t \in Threads, TickLock(t) PROVE HeartbeatInv'
  BY <1>38 DEF TickLock
<1>39. ASSUME NEW t \in Threads, Fire(t) PROVE HeartbeatInv'
  BY <1>39 DEF Fire, MacroTick, ClocksMove
<1>40. ASSUME NEW t \in Threads, Round(t) PROVE HeartbeatInv'
  BY <1>40 DEF Round
<1>41. ASSUME NEW t \in Threads, Check(t) PROVE HeartbeatInv'
  BY <1>41 DEF Check
<1>42. ASSUME NEW t \in Threads, Copy(t) PROVE HeartbeatInv'
  BY <1>42 DEF Copy
<1>43. ASSUME NEW t \in Threads, Clear(t) PROVE HeartbeatInv'
  BY <1>43 DEF Clear
<1>44. ASSUME NEW t \in Threads, Heartbeat(t) \/ ReadTick(t) \/ StoreTick(t) PROVE HeartbeatInv'
  BY <1>44 DEF Heartbeat, HeartbeatDue, ReadTick, StoreTick
<1>45. CASE EnvNext
  <2>1. CASE SigintArrives
    BY <2>1 DEF SigintArrives
  <2>2. CASE TimerExpires \/ UserTypes \/ ClientSends \/ ClientResumes \/ SpuriousWakeup
    <3>1. UNCHANGED <<pc, sig_ret, tick_ret, w_ret, since_heartbeat, untold>>
      BY <2>2 DEF TimerExpires, UserTypes, ClientSends, ClientResumes, SpuriousWakeup
    <3> QED BY <3>1
  <2> QED BY <1>45, <2>1, <2>2 DEF EnvNext
<1>46. CASE Ended \/ UNCHANGED vars
  BY <1>46 DEF Ended, vars
<1> QED BY <1>1, <1>2, <1>3, <1>4, <1>5, <1>6, <1>7, <1>8, <1>9, <1>10, <1>11,
        <1>12, <1>13, <1>14, <1>15, <1>16, <1>17, <1>18, <1>19, <1>20, <1>21,
        <1>22, <1>23, <1>24, <1>25, <1>26, <1>27, <1>28, <1>29, <1>30, <1>31,
        <1>32, <1>33, <1>34, <1>35, <1>36, <1>37, <1>38, <1>39, <1>40, <1>41,
        <1>42, <1>43, <1>44, <1>45, <1>46 DEF Next, MainNext, CodeNext,
        CodeSteps, Shared

(* Main.cpp:122-125, 1061-1066: from one written heartbeat to the next, with
   the tick read, stored and written with no lock held. *)
THEOREM HeartbeatsInTime == Spec => []HeartbeatInTime
<1>1. Init => HeartbeatInv
  BY Bounds DEF Init, HeartbeatInv, Telling, Late, Reporting, Writing, Signalling
<1>2. TypeOK /\ NormalInv /\ HeartbeatInv /\ [Next]_vars => HeartbeatInv'
  BY HeartbeatStep
<1>3. TypeOK /\ NormalInv /\ HeartbeatInv => HeartbeatInTime
  BY Bounds, ModeAssumption DEF TypeOK, DataOK, HeartbeatInv, HeartbeatInTime, Late
<1> QED BY <1>1, <1>2, <1>3, TypeCorrect, CodeNeverTicks, PTL DEF Spec

(* Once the code thread has exited only the main thread makes steps, and
   before that the flush has not begun. *)
LEMMA CodeStepStops ==
  ASSUME TypeOK, NormalInv, StopInv, CodeNext
  PROVE  /\ ~shutdown /\ ~PastFlush' /\ ~(FastForwarding /\ ~suppress)'
         /\ FastForwarding' = FastForwarding /\ suppress' = suppress
         /\ shutdown' => At("code", "exited")'
<1> USE DEF TypeOK, ControlOK, DataOK, NormalInv, StopInv, FastForwarding, InTick, PastFlush,
        Reporting, Writing, Signalling, Labels, AllLabels, MainLabels, CodeLabels,
        SharedLabels, CallSignal, CallWrite, CallTick
<1>1. CASE Resume
  BY <1>1 DEF Resume
<1>2. CASE VMRuns
  BY <1>2 DEF VMRuns
<1>3. CASE VMYields
  BY <1>3 DEF VMYields
<1>4. CASE Hook
  BY <1>4 DEF Hook
<1>5. CASE HookWoken
  BY <1>5 DEF HookWoken
<1>6. CASE WFI
  BY <1>6 DEF WFI
<1>7. CASE WFIWait
  BY <1>7 DEF WFIWait
<1>8. CASE WFIWoken
  BY <1>8 DEF WFIWoken
<1>9. CASE Suspend
  BY <1>9 DEF Suspend
<1>10. CASE SuspendOver
  BY <1>10 DEF SuspendOver
<1>11. CASE WFIFlags
  BY <1>11 DEF WFIFlags
<1>12. CASE Write("code")
  BY <1>12 DEF Write
<1>13. CASE Written("code")
  BY <1>13 DEF Written
<1>14. CASE TickLock("code")
  BY <1>14 DEF TickLock
<1>15. CASE Fire("code")
  BY <1>15 DEF Fire, MacroTick, ClocksMove
<1>16. CASE Round("code")
  BY <1>16 DEF Round
<1>17. CASE Check("code")
  BY <1>17 DEF Check
<1>18. CASE Copy("code")
  BY <1>18 DEF Copy
<1>19. CASE Clear("code")
  BY <1>19 DEF Clear
<1>20. CASE Heartbeat("code") \/ ReadTick("code") \/ StoreTick("code")
  BY <1>20 DEF Heartbeat, HeartbeatDue, ReadTick, StoreTick
<1> QED BY <1>1, <1>2, <1>3, <1>4, <1>5, <1>6, <1>7, <1>8, <1>9, <1>10, <1>11,
        <1>12, <1>13, <1>14, <1>15, <1>16, <1>17, <1>18, <1>19, <1>20 DEF
        CodeNext, CodeSteps, Shared

LEMMA StopStep == ASSUME TypeOK, NormalInv, StopInv, FlushInv, [Next]_vars PROVE StopInv'
<1> USE DEF TypeOK, ControlOK, DataOK, NormalInv, StopInv, FastForwarding, InTick, PastFlush,
        Reporting, Writing, Signalling, Labels, AllLabels, MainLabels, CodeLabels,
        SharedLabels, CallSignal, CallWrite, CallTick
<1>1. CASE Signal
  BY <1>1 DEF Signal
<1>2. CASE Delivered
  BY <1>2 DEF Delivered
<1>3. CASE Bounce
  BY <1>3 DEF Bounce
<1>4. CASE Loop
  BY <1>4 DEF Loop
<1>5. CASE Epoll
  BY <1>5 DEF Epoll
<1>6. CASE HandleSigint
  BY <1>6 DEF HandleSigint
<1>7. CASE SigintLock
  BY <1>7 DEF SigintLock
<1>8. CASE SigintAdd
  BY <1>8 DEF SigintAdd
<1>9. CASE SigintMark
  BY <1>9 DEF SigintMark
<1>10. CASE Stall \/ StallTest
  BY <1>10 DEF Stall, StallTest, Stalled
<1>11. CASE Nfds
  BY <1>11 DEF Nfds
<1>12. CASE EventsDone
  BY <1>12 DEF EventsDone
<1>13. CASE ReadStdin
  BY <1>13 DEF ReadStdin
<1>14. CASE AddStdin
  BY <1>14 DEF AddStdin
<1>15. CASE ReadClient
  BY <1>15 DEF ReadClient
<1>16. CASE BatchDone
  BY <1>16 DEF BatchDone
<1>17. CASE ProcessResume
  BY <1>17 DEF ProcessResume
<1>18. CASE InputLock
  BY <1>18 DEF InputLock
<1>19. CASE InputSet
  BY <1>19 DEF InputSet
<1>20. CASE Ack
  BY <1>20 DEF Ack
<1>21. CASE ReadTimer
  BY <1>21 DEF ReadTimer
<1>22. CASE Rearm
  BY <1>22 DEF Rearm
<1>23. CASE FastForwardTimer
  BY <1>23 DEF FastForwardTimer, FlushInv
<1>24. CASE LastSignal
  BY <1>24 DEF LastSignal
<1>25. CASE Write("main")
  BY <1>25 DEF Write
<1>26. CASE Written("main")
  BY <1>26 DEF Written
<1>27. CASE TickLock("main")
  BY <1>27 DEF TickLock
<1>28. CASE Fire("main")
  BY <1>28 DEF Fire, MacroTick, ClocksMove
<1>29. CASE Round("main")
  BY <1>29 DEF Round
<1>30. CASE Check("main")
  BY <1>30 DEF Check
<1>31. CASE Copy("main")
  BY <1>31 DEF Copy
<1>32. CASE Clear("main")
  BY <1>32 DEF Clear
<1>33. CASE Heartbeat("main") \/ ReadTick("main") \/ StoreTick("main")
  BY <1>33 DEF Heartbeat, HeartbeatDue, ReadTick, StoreTick
<1>34. CASE CodeNext
  BY <1>34, CodeStepStops
<1>35. CASE EnvNext
  BY <1>35 DEF EnvNext, TimerExpires, SigintArrives, UserTypes,
     ClientSends, ClientResumes, SpuriousWakeup
<1>36. CASE Ended \/ UNCHANGED vars
  BY <1>36 DEF Ended, vars
<1> QED BY <1>1, <1>2, <1>3, <1>4, <1>5, <1>6, <1>7, <1>8, <1>9, <1>10, <1>11,
        <1>12, <1>13, <1>14, <1>15, <1>16, <1>17, <1>18, <1>19, <1>20, <1>21,
        <1>22, <1>23, <1>24, <1>25, <1>26, <1>27, <1>28, <1>29, <1>30, <1>31,
        <1>32, <1>33, <1>34, <1>35, <1>36 DEF Next, MainNext, Shared

LEMMA FlushStep == ASSUME TypeOK, NormalInv, StopInv, FlushInv, [Next]_vars PROVE FlushInv'
<1> USE DEF FlushInv, Reported
<1> USE DEF TypeOK, ControlOK, DataOK, NormalInv, StopInv, FastForwarding, InTick, PastFlush,
        Reporting, Writing, Signalling, Labels, AllLabels, MainLabels, CodeLabels,
        SharedLabels, CallSignal, CallWrite, CallTick
<1>1. CASE Signal
  BY <1>1 DEF Signal
<1>2. CASE Delivered
  BY <1>2 DEF Delivered
<1>3. CASE Bounce
  BY <1>3 DEF Bounce
<1>4. CASE Loop
  BY <1>4, Bounds DEF Loop
<1>5. CASE Epoll
  BY <1>5 DEF Epoll
<1>6. CASE HandleSigint
  BY <1>6 DEF HandleSigint
<1>7. CASE SigintLock
  BY <1>7 DEF SigintLock
<1>8. CASE SigintAdd
  BY <1>8 DEF SigintAdd
<1>9. CASE SigintMark
  BY <1>9 DEF SigintMark
<1>10. CASE Stall \/ StallTest
  BY <1>10 DEF Stall, StallTest, Stalled
<1>11. CASE Nfds
  BY <1>11 DEF Nfds
<1>12. CASE EventsDone
  BY <1>12 DEF EventsDone
<1>13. CASE ReadStdin
  BY <1>13 DEF ReadStdin
<1>14. CASE AddStdin
  BY <1>14 DEF AddStdin
<1>15. CASE ReadClient
  BY <1>15 DEF ReadClient
<1>16. CASE BatchDone
  BY <1>16 DEF BatchDone
<1>17. CASE ProcessResume
  BY <1>17 DEF ProcessResume
<1>18. CASE InputLock
  BY <1>18 DEF InputLock
<1>19. CASE InputSet
  BY <1>19 DEF InputSet
<1>20. CASE Ack
  BY <1>20 DEF Ack
<1>21. CASE ReadTimer
  BY <1>21 DEF ReadTimer
<1>22. CASE Rearm
  BY <1>22 DEF Rearm
<1>23. CASE FastForwardTimer
  BY <1>23 DEF FastForwardTimer
<1>24. CASE LastSignal
  BY <1>24 DEF LastSignal
<1>25. CASE Write("main")
  BY <1>25 DEF Write
<1>26. CASE Written("main")
  BY <1>26 DEF Written
<1>27. CASE TickLock("main")
  BY <1>27 DEF TickLock
<1>28. CASE Fire("main")
  BY <1>28 DEF Fire, MacroTick, ClocksMove
<1>29. CASE Round("main")
  BY <1>29 DEF Round
<1>30. CASE Check("main")
  <2>1. CASE check["main"] > Len(Checks)
    <3>1. FastForwarding /\ ~suppress /\ ff = 0 => dirty \subseteq {"radio_tx"}
      BY <1>30, <2>1, Bounds DEF Check, Checked
    <3> QED BY <1>30, <2>1, <3>1 DEF Check
  <2>2. CASE check["main"] <= Len(Checks) /\ Suppressed(Checks[check["main"]])
    BY <1>30, <2>2, Bounds DEF Check, Suppressed
  <2>3. CASE check["main"] <= Len(Checks) /\ ~Suppressed(Checks[check["main"]])
    BY <1>30, <2>3, Bounds DEF Check
  <2> QED BY <1>30, <2>1, <2>2, <2>3 DEF Check
<1>31. CASE Copy("main")
  BY <1>31 DEF Copy
<1>32. CASE Clear("main")
  BY <1>32 DEF Clear
<1>33. CASE Heartbeat("main") \/ ReadTick("main") \/ StoreTick("main")
  BY <1>33 DEF Heartbeat, HeartbeatDue, ReadTick, StoreTick
<1>34. CASE CodeNext
  BY <1>34, CodeStepStops
<1>35. CASE EnvNext
  BY <1>35 DEF EnvNext, TimerExpires, SigintArrives, UserTypes,
     ClientSends, ClientResumes, SpuriousWakeup
<1>36. CASE Ended \/ UNCHANGED vars
  BY <1>36 DEF Ended, vars
<1> QED BY <1>1, <1>2, <1>3, <1>4, <1>5, <1>6, <1>7, <1>8, <1>9, <1>10, <1>11,
        <1>12, <1>13, <1>14, <1>15, <1>16, <1>17, <1>18, <1>19, <1>20, <1>21,
        <1>22, <1>23, <1>24, <1>25, <1>26, <1>27, <1>28, <1>29, <1>30, <1>31,
        <1>32, <1>33, <1>34, <1>35, <1>36 DEF Next, MainNext, Shared

(* Main.cpp:1277-1280: every pending update is written before the bye message,
   except what a radio queue still holds. *)
THEOREM NothingLeftAtBye == Spec => []FlushedAtBye
<1>1. Init => StopInv /\ FlushInv
  BY DEF Init, StopInv, FlushInv, FastForwarding, InTick, PastFlush, Reporting, Writing, Signalling
<1>2. TypeOK /\ NormalInv /\ StopInv /\ FlushInv /\ [Next]_vars => (StopInv /\ FlushInv)'
  BY StopStep, FlushStep
<1>3. StopInv => FlushedAtBye
  BY DEF StopInv, FlushedAtBye, PastFlush
<1> QED BY <1>1, <1>2, <1>3, TypeCorrect, CodeNeverTicks, PTL DEF Spec
=============================================================================
