----------------------------- MODULE Simulator -----------------------------
(***************************************************************************)
(* The two threads of the micro:bit simulator (source/Main.cpp).           *)
(*                                                                         *)
(* The code thread runs the MicroPython VM under code_lock and gives the   *)
(* lock up in the branch hook and in __WFI.  The main thread is an epoll   *)
(* loop: timer, stdin, client pipe and Ctrl-C, each of which ends in       *)
(* signal_interrupt().  In fast mode there is no timer: the code thread    *)
(* runs handle_timerfd_event() itself and sleeps on suspend_wait until the *)
(* marker answers an update.                                               *)
(*                                                                         *)
(* pc[t] names the point a thread has reached; a step stands for the code  *)
(* up to the next point at which another thread could tell the difference. *)
(* code_lock and updates_file_lock have explicit owners.  The sections of  *)
(* interrupt_signal_lock and suspend_lock contain no other blocking call,  *)
(* so each is one step; a condition wait is a label whose thread may go on *)
(* only once it is in `woken'.  Where a call returns to, and the position in *)
(* a round of checks, are set back when they are done with.                *)
(***************************************************************************)
EXTENDS Integers, Sequences

CONSTANTS
    fast_mode, interactive, heartbeat_mode,   \* command line, BOOLEAN
    Checks,             \* the check_*_updates calls of one round, in order
    Flags,              \* the flags the VM can raise (reset, panic, disconnect)
    BranchLimit,        \* branches between two waits of the hook (100)
    HEARTBEAT_TICKS,    \* macro ticks between two heartbeats (10)
    StallTicks,         \* macro ticks before a Ctrl-C counts as stuck (20)
    FastForward,        \* macro ticks skipped for a stuck Ctrl-C (10000)
    FlushTicks,         \* macro ticks run after shutdown (20)
    MaxQuiet,           \* most ticker calls in a row without a macro tick (4)
    Environment,        \* which of "sigint", "stdin", "ctrl_d", "client" and
                        \* "overflow", a full client buffer, occur
    PipeMax,            \* bound on the client events not yet read
    SpuriousWakeups     \* may pthread_cond_wait return unsignalled? BOOLEAN

(* The device state that a round of checks reports on. *)
Checked == {Checks[i] : i \in 1..Len(Checks)}

CheckNames == {"led", "gpio", "random", "marker", "radio_tx", "radio_config"}

ASSUME ModeAssumption ==
    /\ {fast_mode, interactive, heartbeat_mode, SpuriousWakeups} \subseteq BOOLEAN
    /\ Checks \in Seq(CheckNames)
    /\ Environment \subseteq {"sigint", "stdin", "ctrl_d", "client", "overflow"}
ASSUME BoundAssumption ==
    /\ {BranchLimit, HEARTBEAT_TICKS, StallTicks, FastForward, FlushTicks,
        MaxQuiet, PipeMax} \subseteq Nat
    /\ 0 \notin {HEARTBEAT_TICKS, FlushTicks}

VARIABLES
    pc,                 \* where each thread is
    sig_ret,            \* where main goes after signal_interrupt
    tick_ret,           \* where each thread goes after handle_timerfd_event
    w_ret,              \* where each thread goes after write_to_updates
    check,              \* each thread's position in Checks
    woken,              \* threads whose condition wait has been signalled
    code_lock, updates_file_lock,             \* owner, or None
    interrupt_waiting, suspend, shutdown, flags,
    sent_ctrl_d, unread,                      \* unread: serial bytes not yet read
    sigint_requested,
    pending,            \* macro ticks since signal_pending_since, or NotPending
    suppress,           \* suppress_pin_led_updates
    n,                  \* branches since the hook last waited
    quiet,              \* ticker calls since the last macro tick
    uptime,             \* macro ticks since the start, up to StallTicks + 1
    stale,              \* get_macro_ticks() # macroticks_last_led_update
    since_heartbeat,    \* macro ticks since last_heartbeat
    age,                \* macro ticks since each thread read the tick it is to store there
    untold,             \* history: macro ticks since a heartbeat was written
    ff,                 \* macro ticks fastforward_timer still has to run
    dirty,              \* device state that differs from what was last written
    events, batch,      \* main's epoll results, and client events being handled
    timer, stdin, client_pipe,                \* what epoll watches
    unanswered,         \* suspending update the client has not answered
    dropped             \* history: a resume was dropped, and none handled since

None == "none"
Threads == {"main", "code"}
NotPending == -1

callVars  == <<sig_ret, tick_ret, w_ret, check>>
beatVars  == <<since_heartbeat, age, untold>>
clockVars == <<quiet, uptime, stale, beatVars, ff>>
stopVars  == <<shutdown, flags>>
inVars    == <<timer, stdin, client_pipe, sigint_requested>>
serialVars == <<unread, sent_ctrl_d>>
watchVars == <<pending, suppress>>
suspendVars == <<suspend, unanswered, dropped>>
mainVars  == <<events, batch>>
lockVars  == <<woken, code_lock, updates_file_lock, interrupt_waiting>>
worldVars == <<stopVars, serialVars, watchVars, suspendVars, mainVars, inVars,
               clockVars, n, dirty>>
vars == <<pc, callVars, lockVars, worldVars>>

Goto(t, label) == pc' = [pc EXCEPT ![t] = label]
At(t, label)   == pc[t] = label

(* pthread_mutex_lock / unlock of code_lock, by one of the two threads. *)
AcquireAnyway(t) == code_lock' = t              \* mutant: does not wait
Acquire(t) == code_lock = None /\ code_lock' = t
Release(t) == code_lock = t /\ code_lock' = None

(* pthread_cond_wait returns: signalled, and the mutex free again. *)
Wake(t) == t \in woken /\ woken' = woken \ {t}

(* The test of the hook and of __WFI for having to leave the VM. *)
StoppingIgnoresFlags == shutdown                \* mutant
Stopping == shutdown \/ flags # {}

(***************************************************************************)
(* signal_interrupt(), called by the main thread only.                     *)
(***************************************************************************)
CallSignal(ret) == Goto("main", "signal") /\ sig_ret' = ret

(* Whom a broadcast of each condition variable wakes; the mutants lose one. *)
AtHookOnly == {t \in {"code"} : pc[t] = "hook_wait"}
AtInterruptSignal == {t \in {"code"} : pc[t] \in {"wfi_wait", "hook_wait"}}
Nobody == {}
AtInterruptDelivered == {t \in {"main"} : pc[t] = "sig_wait"}
SuspendedInHook == {t \in {"code"} : pc[t] = "hook_suspended"}
AtSuspendWait == {t \in {"code"} : pc[t] \in {"wfi_suspended", "hook_suspended"}}

(* Broadcast interrupt_signal; wait for delivery if the VM sits in __WFI. *)
Signal ==
    /\ At("main", "signal")
    /\ woken' = woken \cup AtInterruptSignal
    /\ Goto("main", IF interrupt_waiting THEN "sig_wait" ELSE "bounce")
    /\ UNCHANGED <<callVars, code_lock, updates_file_lock, interrupt_waiting,
                   worldVars>>

Delivered ==
    /\ At("main", "sig_wait") /\ Wake("main")
    /\ Goto("main", "bounce")
    /\ UNCHANGED <<callVars, code_lock, updates_file_lock, interrupt_waiting,
                   worldVars>>

(* Lock and unlock code_lock: the VM is then at a hook or in __WFI. *)
Bounce ==
    /\ At("main", "bounce") /\ code_lock = None
    /\ Goto("main", sig_ret) /\ sig_ret' = "loop"
    /\ UNCHANGED <<tick_ret, w_ret, check, lockVars, worldVars>>

(***************************************************************************)
(* write_to_updates(should_suspend): either thread.                        *)
(***************************************************************************)
CallWrite(t, ret) == Goto(t, "write") /\ w_ret' = [w_ret EXCEPT ![t] = ret]

(* Acks and the bye message do not suspend; everything else does. *)
ShouldSuspend(t) == fast_mode /\ w_ret[t] \notin {"batch", "last_signal"}

Write(t) ==
    /\ At(t, "write") /\ updates_file_lock = None
    /\ updates_file_lock' = t
    /\ suspend' = (suspend \/ ShouldSuspend(t))
    /\ Goto(t, "written")
    /\ UNCHANGED <<callVars, woken, code_lock, interrupt_waiting, stopVars,
                   serialVars, watchVars, unanswered, dropped, mainVars,
                   inVars, clockVars, n, dirty>>

(* Only a heartbeat returns to where handle_timerfd_event does. *)
WritesHeartbeat(t) == w_ret[t] = tick_ret[t]

Written(t) ==
    /\ At(t, "written") /\ updates_file_lock = t
    /\ updates_file_lock' = None
    /\ unanswered' = (unanswered \/ ShouldSuspend(t))
    /\ untold' = IF WritesHeartbeat(t) THEN 0 ELSE untold
    /\ Goto(t, w_ret[t]) /\ w_ret' = [w_ret EXCEPT ![t] = "check"]
    /\ UNCHANGED <<sig_ret, tick_ret, check, woken, code_lock, interrupt_waiting, stopVars,
                   serialVars, watchVars, suspend, dropped, mainVars, inVars,
                   quiet, uptime, stale, since_heartbeat, age, ff, n, dirty>>

(***************************************************************************)
(* handle_timerfd_event(): main in normal mode and while fast-forwarding,  *)
(* the code thread in fast mode.                                           *)
(***************************************************************************)
CallTick(t, ret) == Goto(t, "tick") /\ tick_ret' = [tick_ret EXCEPT ![t] = ret]

TickLock(t) ==
    /\ At(t, "tick") /\ Acquire(t)
    /\ Goto(t, "fire")
    /\ UNCHANGED <<callVars, woken, updates_file_lock, interrupt_waiting,
                   worldVars>>

(* A macro tick moves every clock that is read against get_macro_ticks(). *)
ClocksMove ==
    /\ quiet' = 0
    /\ uptime' = IF uptime <= StallTicks THEN uptime + 1 ELSE uptime
    /\ since_heartbeat' = IF heartbeat_mode THEN since_heartbeat + 1 ELSE 0
    /\ untold' = IF heartbeat_mode THEN untold + 1 ELSE 0
    /\ age' = [u \in Threads |-> IF pc[u] = "beat_store" THEN age[u] + 1 ELSE 0]
    /\ ff' = IF ff > 0 THEN ff - 1 ELSE 0
    /\ pending' = IF pending \in 0..StallTicks THEN pending + 1 ELSE pending
MacroTickUnnoticed == ClocksMove /\ UNCHANGED stale   \* mutant: no round of checks
MacroTick == ClocksMove /\ stale' = TRUE

(* fire_ticker under code_lock: its callbacks may change device state. *)
Fire(t) ==
    /\ At(t, "fire") /\ Release(t)
    /\ \/ MacroTick
       \/ /\ quiet < MaxQuiet /\ quiet' = quiet + 1
          /\ UNCHANGED <<uptime, stale, beatVars, ff, pending>>
    /\ \E changed \in SUBSET Checked : dirty' = dirty \cup changed
    /\ IF fast_mode THEN Goto(t, "round") /\ UNCHANGED sig_ret
                    ELSE CallSignal("round")
    /\ UNCHANGED <<tick_ret, w_ret, check, woken, updates_file_lock,
                   interrupt_waiting, stopVars, serialVars, suppress, suspendVars, mainVars, inVars, n>>

(* Has the macro tick count changed since the last round of checks? *)
Round(t) ==
    /\ At(t, "round")
    /\ IF stale THEN check' = [check EXCEPT ![t] = 1] /\ Goto(t, "check")
                ELSE UNCHANGED check /\ Goto(t, "heartbeat")
    /\ UNCHANGED <<sig_ret, tick_ret, w_ret, lockVars, worldVars>>

AlwaysSuppressed(name) == name \in {"led", "gpio"}   \* mutant
Suppressed(name) == suppress /\ name \in {"led", "gpio"}

(* Enter the next check: take code_lock, return early, or end the round. *)
Check(t) ==
    /\ At(t, "check")
    /\ \/ /\ check[t] > Len(Checks)
          /\ stale' = FALSE /\ Goto(t, "heartbeat")
          /\ check' = [check EXCEPT ![t] = 1] /\ UNCHANGED code_lock
       \/ /\ check[t] <= Len(Checks) /\ Suppressed(Checks[check[t]])
          /\ check' = [check EXCEPT ![t] = @ + 1]
          /\ UNCHANGED <<pc, code_lock, stale>>
       \/ /\ check[t] <= Len(Checks) /\ ~Suppressed(Checks[check[t]])
          /\ Acquire(t) /\ Goto(t, "copy")
          /\ UNCHANGED <<check, stale>>
    /\ UNCHANGED <<sig_ret, tick_ret, w_ret, woken, updates_file_lock,
                   interrupt_waiting, stopVars, serialVars, watchVars,
                   suspendVars, mainVars, inVars, quiet, uptime, beatVars,
                   ff, n, dirty>>

(* Copy the state, unlock, and write it if it changed.  A marker failure is
   cleared only after the write; a radio queue gives up one frame per call. *)
Copy(t) ==
    LET name == Checks[check[t]]
    IN  /\ At(t, "copy") /\ Release(t)
        /\ check' = [check EXCEPT ![t] = @ + 1]
        /\ \/ /\ name \notin dirty
              /\ Goto(t, "check") /\ UNCHANGED <<w_ret, dirty>>
           \/ /\ name \in dirty
              /\ CallWrite(t, IF name = "marker" THEN "clear" ELSE "check")
              /\ \/ name # "marker" /\ dirty' = dirty \ {name}
                 \/ name \in {"marker", "radio_tx"} /\ UNCHANGED dirty
        /\ UNCHANGED <<sig_ret, tick_ret, woken, updates_file_lock,
                       interrupt_waiting, stopVars, serialVars, watchVars,
                       suspendVars, mainVars, inVars, clockVars, n>>

(* set_marker_failure_event(nullptr, nullptr), under code_lock again. *)
Clear(t) ==
    /\ At(t, "clear") /\ code_lock = None
    /\ dirty' = dirty \ {"marker"}
    /\ Goto(t, "check")
    /\ UNCHANGED <<callVars, lockVars, stopVars, serialVars, watchVars,
                   suspendVars, mainVars, inVars, clockVars, n>>

HeartbeatLate == heartbeat_mode /\ since_heartbeat > HEARTBEAT_TICKS   \* mutant
HeartbeatDue == heartbeat_mode /\ since_heartbeat >= HEARTBEAT_TICKS

(* No lock is held from the test of last_heartbeat to the write: the macro
   tick is read, and stored, while the other thread may run the ticker. *)
Heartbeat(t) ==
    /\ At(t, "heartbeat")
    /\ Goto(t, IF HeartbeatDue THEN "beat_read" ELSE tick_ret[t])
    /\ UNCHANGED <<callVars, lockVars, worldVars>>

ReadTick(t) ==
    /\ At(t, "beat_read")
    /\ age' = [age EXCEPT ![t] = 0]
    /\ Goto(t, "beat_store")
    /\ UNCHANGED <<callVars, lockVars, stopVars, serialVars, watchVars,
                   suspendVars, mainVars, inVars, quiet, uptime, stale,
                   since_heartbeat, untold, ff, n, dirty>>

StoreTick(t) ==
    /\ At(t, "beat_store")
    /\ since_heartbeat' = age[t] /\ age' = [age EXCEPT ![t] = 0]
    /\ CallWrite(t, tick_ret[t])
    /\ UNCHANGED <<sig_ret, tick_ret, check, lockVars, stopVars, serialVars,
                   watchVars, suspendVars, mainVars, inVars, quiet, uptime,
                   stale, untold, ff, n, dirty>>

Shared(t) == \/ Write(t) \/ Written(t) \/ TickLock(t) \/ Fire(t) \/ Round(t)
             \/ Check(t) \/ Copy(t) \/ Clear(t) \/ Heartbeat(t)
             \/ ReadTick(t) \/ StoreTick(t)

(***************************************************************************)
(* The code thread.                                                        *)
(***************************************************************************)
(* app_main starts, or the hook or __WFI ends, with code_lock taken. *)
Resume ==
    /\ pc["code"] \in {"start", "relock"} /\ Acquire("code")
    /\ Goto("code", "vm")
    /\ UNCHANGED <<callVars, woken, updates_file_lock, interrupt_waiting,
                   worldVars>>

(* The VM runs: it changes device state, reads serial input, or raises one
   of the flags (reset(), panic(), or the display's soft-reboot count). *)
VMRuns ==
    /\ At("code", "vm") /\ code_lock = "code"
    /\ \/ \E c \in Checked : dirty' = dirty \cup {c} /\ UNCHANGED <<unread,
                                                                          flags>>
       \/ unread /\ unread' = FALSE /\ UNCHANGED <<dirty, flags>>
       \/ \E f \in Flags : flags' = flags \cup {f} /\ UNCHANGED <<dirty,
                                                                  unread>>
    /\ UNCHANGED <<pc, callVars, lockVars, shutdown, sent_ctrl_d, watchVars,
                   suspendVars, mainVars, inVars, clockVars, n>>

(* The VM reaches a jump or __WFI, which both begin by unlocking. *)
VMYields ==
    /\ At("code", "vm") /\ Release("code")
    /\ \E label \in {"hook", "wfi"} : Goto("code", label)
    /\ UNCHANGED <<callVars, woken, updates_file_lock, interrupt_waiting,
                   worldVars>>

(* n++; if (n > 100) *)
ThrottleLate == n > BranchLimit                 \* mutant: tests before n++
Throttle == n >= BranchLimit
NotCounted == n                                 \* mutant: no n++
Counted == n + 1

(* simulated_dal_micropy_vm_hook_loop after its unlock. *)
Hook ==
    /\ At("code", "hook")
    /\ pending' = NotPending
    /\ \/ /\ Stopping /\ shutdown' = TRUE
          /\ Goto("code", "exited") /\ UNCHANGED <<n, tick_ret>>
       \/ /\ ~Stopping /\ ~Throttle /\ n' = Counted
          /\ Goto("code", "relock") /\ UNCHANGED <<shutdown, tick_ret>>
       \/ /\ ~Stopping /\ Throttle /\ n' = 0
          /\ IF fast_mode THEN CallTick("code", "hook_suspend")
                          ELSE Goto("code", "hook_wait") /\ UNCHANGED tick_ret
          /\ UNCHANGED shutdown
    /\ UNCHANGED <<sig_ret, w_ret, check, lockVars, flags, serialVars,
                   suppress, suspendVars, mainVars, inVars,
                   clockVars, dirty>>

(* pthread_cond_wait(&interrupt_signal) of the hook returns. *)
HookWoken ==
    /\ At("code", "hook_wait") /\ Wake("code")
    /\ Goto("code", "relock")
    /\ UNCHANGED <<callVars, code_lock, updates_file_lock, interrupt_waiting,
                   worldVars>>

SendsCtrlDAlways == ~sent_ctrl_d                \* mutant
SendsCtrlD == ~interactive /\ ~sent_ctrl_d

(* __wait_for_interrupt after its unlock: the one Ctrl-D of a run that is
   not interactive is added to the serial input with no lock held. *)
WFI ==
    /\ At("code", "wfi")
    /\ IF SendsCtrlD
         THEN unread' = TRUE /\ sent_ctrl_d' = TRUE
         ELSE UNCHANGED serialVars
    /\ IF fast_mode THEN CallTick("code", "wfi_suspend")
                    ELSE Goto("code", "wfi_enter") /\ UNCHANGED tick_ret
    /\ UNCHANGED <<sig_ret, w_ret, check, lockVars, stopVars, watchVars,
                   suspendVars, mainVars, inVars, clockVars, n, dirty>>

WFIWait ==
    /\ At("code", "wfi_enter")
    /\ interrupt_waiting' = TRUE
    /\ Goto("code", "wfi_wait")
    /\ UNCHANGED <<callVars, woken, code_lock, updates_file_lock, worldVars>>

(* Woken in __WFI: clear interrupt_waiting, broadcast interrupt_delivered. *)
WFIWoken ==
    /\ At("code", "wfi_wait") /\ "code" \in woken
    /\ woken' = (woken \ {"code"}) \cup AtInterruptDelivered
    /\ interrupt_waiting' = FALSE
    /\ Goto("code", "wfi_flags")
    /\ UNCHANGED <<callVars, code_lock, updates_file_lock, worldVars>>

(* if (suspend) wait: the flag is tested once, before the wait. *)
Suspend ==
    /\ pc["code"] \in {"wfi_suspend", "hook_suspend"}
    /\ Goto("code", CASE suspend /\ pc["code"] = "wfi_suspend"  -> "wfi_suspended"
                      [] suspend /\ pc["code"] = "hook_suspend" -> "hook_suspended"
                      [] ~suspend /\ pc["code"] = "wfi_suspend" -> "wfi_flags"
                      [] OTHER                                  -> "relock")
    /\ UNCHANGED <<callVars, lockVars, worldVars>>

SuspendOver ==
    /\ pc["code"] \in {"wfi_suspended", "hook_suspended"} /\ Wake("code")
    /\ Goto("code", IF pc["code"] = "wfi_suspended" THEN "wfi_flags" ELSE "relock")
    /\ UNCHANGED <<callVars, code_lock, updates_file_lock, interrupt_waiting,
                   worldVars>>

(* The end of __wait_for_interrupt: leave the VM if it has to stop. *)
WFIFlags ==
    /\ At("code", "wfi_flags")
    /\ IF Stopping THEN shutdown' = TRUE /\ Goto("code", "exited")
                   ELSE UNCHANGED shutdown /\ Goto("code", "relock")
    /\ UNCHANGED <<callVars, lockVars, flags, serialVars, watchVars,
                   suspendVars, mainVars, inVars, clockVars, n, dirty>>

CodeSteps == \/ Resume \/ Hook \/ HookWoken \/ WFI \/ WFIWait \/ WFIWoken
             \/ Suspend \/ SuspendOver \/ WFIFlags \/ Shared("code")
CodeNext == CodeSteps \/ VMRuns \/ VMYields

(***************************************************************************)
(* The main thread: main_thread(), fastforward_timer(), run_simulator().   *)
(***************************************************************************)
(* while (!shutdown); once it is set, flush the pending updates. *)
Loop ==
    /\ At("main", "loop")
    /\ IF shutdown THEN ff' = FlushTicks /\ Goto("main", "ff")
                   ELSE UNCHANGED ff /\ Goto("main", "epoll")
    /\ UNCHANGED <<callVars, lockVars, stopVars, serialVars, watchVars,
                   suspendVars, mainVars, inVars, quiet, uptime, stale,
                   beatVars, n, dirty>>

Ready == {e \in {"stdin", "client", "timer"} :
            \/ e = "stdin"  /\ stdin # "empty"
            \/ e = "client" /\ client_pipe # <<>>
            \/ e = "timer"  /\ timer = "expired"}

(* epoll_wait returns what is ready; an armed timer beats the timeout. *)
Epoll ==
    /\ At("main", "epoll")
    /\ Ready # {} \/ timer = "off"
    /\ events' = Ready
    /\ Goto("main", "sigint")
    /\ UNCHANGED <<callVars, lockVars, stopVars, serialVars, watchVars,
                   suspendVars, batch, inVars, clockVars, n, dirty>>

HandleSigint ==
    /\ At("main", "sigint")
    /\ sigint_requested' = FALSE
    /\ Goto("main", IF sigint_requested THEN "sigint_lock" ELSE "stall")
    /\ UNCHANGED <<callVars, lockVars, stopVars, serialVars, watchVars,
                   suspendVars, mainVars, timer, stdin, client_pipe,
                   clockVars, n, dirty>>

SigintLock ==
    /\ At("main", "sigint_lock") /\ Acquire("main")
    /\ Goto("main", "sigint_add")
    /\ UNCHANGED <<callVars, woken, updates_file_lock, interrupt_waiting,
                   worldVars>>

(* serial_add_byte(0x03) and unlock. *)
SigintAdd ==
    /\ At("main", "sigint_add") /\ Release("main")
    /\ unread' = TRUE
    /\ Goto("main", "sigint_mark")
    /\ UNCHANGED <<callVars, woken, updates_file_lock, interrupt_waiting,
                   stopVars, sent_ctrl_d, pending, suppress, suspendVars,
                   mainVars, inVars, clockVars, n, dirty>>

(* signal_pending_since = get_macro_ticks(): at macro tick 0 this is the
   value that means that nothing is pending. *)
Now == IF uptime > 0 THEN 0 ELSE NotPending

SigintMark ==
    /\ At("main", "sigint_mark")
    /\ pending' = Now
    /\ CallSignal("stall")
    /\ UNCHANGED <<tick_ret, w_ret, check, lockVars, stopVars, serialVars,
                   suppress, suspendVars, mainVars, inVars,
                   clockVars, n, dirty>>

(* A Ctrl-C or Ctrl-D unhandled for too long: fast-forward past what the VM
   is doing, without reporting pins and LEDs.  signal_pending_since is read
   without a lock, twice, and the hook may set it to 0 in between. *)
Stall ==
    /\ At("main", "stall")
    /\ Goto("main", IF pending = NotPending THEN "nfds" ELSE "stall_test")
    /\ UNCHANGED <<callVars, lockVars, worldVars>>

Stalled == IF pending = NotPending THEN uptime > StallTicks ELSE pending > StallTicks
StallTest ==
    /\ At("main", "stall_test")
    /\ IF Stalled
         THEN /\ pending' = NotPending /\ suppress' = TRUE /\ ff' = FastForward
              /\ Goto("main", "ff")
         ELSE UNCHANGED <<pending, suppress, ff>> /\ Goto("main", "nfds")
    /\ UNCHANGED <<callVars, lockVars, stopVars, serialVars,
                   suspendVars, mainVars, inVars, quiet, uptime, stale,
                   beatVars, n, dirty>>

(* epoll timed out: keep the code thread running. *)
Nfds ==
    /\ At("main", "nfds")
    /\ IF events = {} THEN CallSignal("loop")
                      ELSE Goto("main", "dispatch") /\ UNCHANGED sig_ret
    /\ UNCHANGED <<tick_ret, w_ret, check, lockVars, worldVars>>

EventsDone ==
    /\ At("main", "dispatch") /\ events = {}
    /\ Goto("main", "loop")
    /\ UNCHANGED <<callVars, lockVars, worldVars>>

ReadStdin ==
    /\ At("main", "dispatch") /\ "stdin" \in events
    /\ events' = events \ {"stdin"}
    /\ Acquire("main")
    /\ Goto("main", "stdin_add")
    /\ UNCHANGED <<callVars, woken, updates_file_lock, interrupt_waiting,
                   stopVars, serialVars, watchVars, suspendVars, batch,
                   inVars, clockVars, n, dirty>>

AddStdin ==
    /\ At("main", "stdin_add") /\ Release("main")
    /\ unread' = TRUE /\ stdin' = "empty"
    /\ pending' = IF stdin = "ctrl_d" THEN Now ELSE pending
    /\ CallSignal("dispatch")
    /\ UNCHANGED <<tick_ret, w_ret, check, woken, updates_file_lock,
                   interrupt_waiting, stopVars, sent_ctrl_d, suppress,
                   suspendVars, mainVars, timer, client_pipe,
                   sigint_requested, clockVars, n, dirty>>

Resumes(q) == \E i \in 1..Len(q) : q[i] = "resume"

(* process_client_event: read all there is, then handle it in order; or, when
   as much was read as the buffer holds, drop it all. *)
ReadClient ==
    /\ At("main", "dispatch") /\ "client" \in events
    /\ events' = events \ {"client"}
    /\ \/ /\ batch' = client_pipe /\ client_pipe' = <<>>
          /\ UNCHANGED dropped
       \/ /\ "overflow" \in Environment
          /\ \E k \in 1..Len(client_pipe) :
               /\ client_pipe' = SubSeq(client_pipe, k + 1, Len(client_pipe))
               /\ dropped' = (dropped \/ Resumes(SubSeq(client_pipe, 1, k)))
          /\ batch' = <<>>
    /\ Goto("main", "batch")
    /\ UNCHANGED <<callVars, lockVars, stopVars, serialVars, watchVars,
                   suspend, unanswered, timer, stdin, sigint_requested,
                   clockVars, n, dirty>>

BatchDone ==
    /\ At("main", "batch") /\ batch = <<>>
    /\ Goto("main", "dispatch")
    /\ UNCHANGED <<callVars, lockVars, worldVars>>

(* "resume": clear suspend and broadcast suspend_wait. *)
ProcessResume ==
    /\ At("main", "batch") /\ batch # <<>> /\ Head(batch) = "resume"
    /\ batch' = Tail(batch)
    /\ suspend' = FALSE /\ dropped' = FALSE
    /\ woken' = woken \cup AtSuspendWait
    /\ UNCHANGED <<pc, callVars, code_lock, updates_file_lock,
                   interrupt_waiting, stopVars, serialVars, watchVars,
                   unanswered, events, inVars, clockVars, n, dirty>>

(* Every other client event: process_client_button and its like. *)
InputLock ==
    /\ At("main", "batch") /\ batch # <<>> /\ Head(batch) = "input"
    /\ Acquire("main")
    /\ Goto("main", "input_set")
    /\ UNCHANGED <<callVars, woken, updates_file_lock, interrupt_waiting,
                   worldVars>>

(* Device state is set, unlock; a pin or a radio buffer may now differ from
   what was last written. *)
InputSet ==
    /\ At("main", "input_set") /\ Release("main") /\ batch # <<>>
    /\ batch' = Tail(batch)
    /\ \E changed \in SUBSET Checked : dirty' = dirty \cup changed
    /\ CallSignal("ack")
    /\ UNCHANGED <<tick_ret, w_ret, check, woken, updates_file_lock,
                   interrupt_waiting, stopVars, serialVars, watchVars,
                   suspendVars, events, inVars, clockVars, n>>

Ack ==
    /\ At("main", "ack")
    /\ CallWrite("main", "batch")
    /\ UNCHANGED <<sig_ret, tick_ret, check, lockVars, worldVars>>

ReadTimer ==
    /\ At("main", "dispatch") /\ "timer" \in events
    /\ events' = events \ {"timer"}
    /\ timer' = "off"
    /\ CallTick("main", "rearm")
    /\ UNCHANGED <<sig_ret, w_ret, check, lockVars, stopVars, serialVars,
                   watchVars, suspendVars, batch, stdin, client_pipe,
                   sigint_requested, clockVars, n, dirty>>

Rearm ==
    /\ At("main", "rearm")
    /\ timer' = "armed"
    /\ Goto("main", "dispatch")
    /\ UNCHANGED <<callVars, lockVars, stopVars, serialVars, watchVars,
                   suspendVars, mainVars, stdin, client_pipe,
                   sigint_requested, clockVars, n, dirty>>

(* One turn of the loop of fastforward_timer; only the fast-forward past a
   stuck Ctrl-C stops on shutdown.  After the flush comes write_bye. *)
FastForwardTimer ==
    /\ At("main", "ff")
    /\ \/ /\ ff > 0 /\ ~(suppress /\ shutdown)
          /\ CallTick("main", "ff") /\ UNCHANGED <<w_ret, suppress, ff>>
       \/ /\ suppress /\ (ff = 0 \/ shutdown)
          /\ suppress' = FALSE /\ ff' = 0
          /\ Goto("main", "nfds") /\ UNCHANGED <<tick_ret, w_ret>>
       \/ /\ ~suppress /\ ff = 0
          /\ CallWrite("main", "last_signal") /\ UNCHANGED <<tick_ret,
                                                             suppress, ff>>
    /\ UNCHANGED <<sig_ret, check, lockVars, stopVars, serialVars, pending,
                   suspendVars, mainVars, inVars, quiet, uptime, stale,
                   beatVars, n, dirty>>

LastSignal ==
    /\ At("main", "last_signal")
    /\ CallSignal("done")
    /\ UNCHANGED <<tick_ret, w_ret, check, lockVars, worldVars>>

MainNext ==
    \/ Signal \/ Delivered \/ Bounce \/ Shared("main")
    \/ Loop \/ Epoll \/ HandleSigint \/ SigintLock \/ SigintAdd \/ SigintMark
    \/ Stall \/ StallTest \/ Nfds \/ EventsDone \/ ReadStdin \/ AddStdin \/ ReadClient
    \/ BatchDone \/ ProcessResume \/ InputLock \/ InputSet \/ Ack
    \/ ReadTimer \/ Rearm \/ FastForwardTimer \/ LastSignal

(***************************************************************************)
(* Outside the process: the timer, the user and the client.                *)
(***************************************************************************)
TimerExpires ==
    /\ timer = "armed" /\ timer' = "expired"
    /\ UNCHANGED <<pc, callVars, lockVars, stopVars, serialVars, watchVars,
                   suspendVars, mainVars, stdin, client_pipe,
                   sigint_requested, clockVars, n, dirty>>

(* handle_sigint only sets a flag; the signal may interrupt epoll_wait. *)
SigintArrives ==
    /\ "sigint" \in Environment /\ ~sigint_requested /\ ~At("main", "done")
    /\ sigint_requested' = TRUE
    /\ UNCHANGED pc \/ (At("main", "epoll") /\ Goto("main", "loop"))
    /\ UNCHANGED <<callVars, lockVars, stopVars, serialVars, watchVars,
                   suspendVars, mainVars, timer, stdin, client_pipe,
                   clockVars, n, dirty>>

UserTypes ==
    /\ stdin = "empty" /\ ~At("main", "done")
    /\ \E c \in Environment \cap {"stdin", "ctrl_d"} :
         stdin' = IF c = "stdin" THEN "data" ELSE c
    /\ UNCHANGED <<pc, callVars, lockVars, stopVars, serialVars, watchVars,
                   suspendVars, mainVars, timer, client_pipe,
                   sigint_requested, clockVars, n, dirty>>

ClientSends ==
    /\ "client" \in Environment /\ ~At("main", "done")
    /\ Len(client_pipe) < PipeMax
    /\ client_pipe' = Append(client_pipe, "input")
    /\ UNCHANGED <<pc, callVars, lockVars, stopVars, serialVars, watchVars,
                   suspendVars, mainVars, timer, stdin, sigint_requested,
                   clockVars, n, dirty>>

(* The marker has read the updates written so far and lets the VM go on. *)
ClientResumes ==
    /\ unanswered /\ unanswered' = FALSE
    /\ Len(client_pipe) <= PipeMax
    /\ client_pipe' = Append(client_pipe, "resume")
    /\ UNCHANGED <<pc, callVars, lockVars, stopVars, serialVars, watchVars,
                   suspend, dropped, mainVars, timer, stdin,
                   sigint_requested, clockVars, n, dirty>>

WaitLabels == {"sig_wait", "wfi_wait", "hook_wait", "wfi_suspended", "hook_suspended"}

SpuriousWakeup ==
    /\ SpuriousWakeups
    /\ \E t \in Threads : /\ pc[t] \in WaitLabels /\ t \notin woken
                          /\ woken' = woken \cup {t}
    /\ UNCHANGED <<pc, callVars, code_lock, updates_file_lock,
                   interrupt_waiting, worldVars>>

EnvNext == \/ TimerExpires \/ SigintArrives \/ UserTypes \/ ClientSends
           \/ ClientResumes \/ SpuriousWakeup

(***************************************************************************)
(* run_simulator: in heartbeat mode one heartbeat is written before the    *)
(* code thread is created.                                                 *)
(***************************************************************************)
Init ==
    /\ pc = [t \in Threads |-> IF t = "main" THEN "loop" ELSE "start"]
    /\ sig_ret = "loop"
    /\ tick_ret = [t \in Threads |-> IF t = "main" THEN "rearm" ELSE "wfi_suspend"]
    /\ w_ret = [t \in Threads |-> "check"]
    /\ check = [t \in Threads |-> 1]
    /\ woken = {} /\ code_lock = None /\ updates_file_lock = None
    /\ interrupt_waiting = FALSE /\ shutdown = FALSE /\ flags = {}
    /\ suspend = (fast_mode /\ heartbeat_mode) /\ unanswered = suspend
    /\ dropped = FALSE
    /\ unread = FALSE /\ sent_ctrl_d = FALSE
    /\ pending = NotPending /\ suppress = FALSE
    /\ n = 0 /\ quiet = 0 /\ uptime = 0 /\ stale = FALSE
    /\ since_heartbeat = 0 /\ age = [t \in Threads |-> 0] /\ untold = 0 /\ ff = 0
    /\ dirty = {} /\ events = {} /\ batch = <<>>
    /\ timer = (IF fast_mode THEN "off" ELSE "armed")
    /\ stdin = "empty" /\ client_pipe = <<>> /\ sigint_requested = FALSE

(* The code thread is joined and the process ends. *)
Ended == At("main", "done") /\ At("code", "exited") /\ UNCHANGED vars

Next == MainNext \/ CodeNext \/ EnvNext \/ Ended
Spec == Init /\ [][Next]_vars

(* Threads are scheduled, the VM always reaches a jump or a __WFI again, the
   armed timer expires, and the marker answers what it is sent. *)
Fairness ==
    /\ WF_vars(MainNext) /\ WF_vars(CodeSteps) /\ WF_vars(VMYields)
    /\ WF_vars(TimerExpires) /\ WF_vars(ClientResumes)
FairSpec == Spec /\ Fairness

-----------------------------------------------------------------------------
MainLabels ==
    {"loop", "epoll", "sigint", "sigint_lock", "sigint_add", "sigint_mark",
     "stall", "stall_test", "nfds", "dispatch", "stdin_add", "batch", "input_set", "ack",
     "rearm", "ff", "last_signal", "signal", "sig_wait", "bounce", "done"}
CodeLabels ==
    {"start", "relock", "vm", "hook", "hook_wait", "wfi", "wfi_enter",
     "wfi_wait", "wfi_flags", "wfi_suspend", "hook_suspend", "wfi_suspended",
     "hook_suspended", "exited"}
SharedLabels ==
    {"write", "written", "tick", "fire", "round", "check", "copy", "clear",
     "heartbeat", "beat_read", "beat_store"}
Labels(t) == SharedLabels \cup IF t = "main" THEN MainLabels ELSE CodeLabels
AllLabels == SharedLabels \cup MainLabels \cup CodeLabels

(* Where the threads are and where the calls they are in return to. *)
ControlOK ==
    /\ pc \in [Threads -> AllLabels]
    /\ \A t \in Threads : pc[t] \in Labels(t)
    /\ sig_ret \in {"loop", "stall", "dispatch", "ack", "round", "done"}
    /\ tick_ret \in [Threads -> {"rearm", "ff", "wfi_suspend", "hook_suspend"}]
    /\ \A t \in Threads : tick_ret[t] \in Labels(t)
    /\ w_ret \in [Threads -> {"check", "clear", "batch", "last_signal", "rearm",
                              "ff", "wfi_suspend", "hook_suspend"}]
    /\ \A t \in Threads : w_ret[t] \in Labels(t)
    /\ check \in [Threads -> Nat \ {0}]

SyncOK ==
    /\ woken \subseteq Threads
    /\ code_lock \in Threads \cup {None} /\ updates_file_lock \in Threads \cup {None}
    /\ interrupt_waiting \in BOOLEAN

DataOK ==
    /\ suspend \in BOOLEAN /\ unanswered \in BOOLEAN /\ dropped \in BOOLEAN
    /\ shutdown \in BOOLEAN /\ flags \subseteq Flags
    /\ unread \in BOOLEAN /\ sent_ctrl_d \in BOOLEAN
    /\ pending \in {NotPending} \cup 0..(StallTicks + 1)
    /\ suppress \in BOOLEAN
    /\ n \in 0..BranchLimit /\ quiet \in 0..MaxQuiet
    /\ uptime \in 0..(StallTicks + 1) /\ stale \in BOOLEAN
    /\ since_heartbeat \in Nat /\ age \in [Threads -> Nat] /\ untold \in Nat
    /\ ff \in Nat
    /\ dirty \subseteq Checked

InputOK ==
    /\ events \subseteq {"stdin", "client", "timer"}
    /\ batch \in Seq({"input", "resume"}) /\ client_pipe \in Seq({"input", "resume"})
    /\ timer \in {"off", "armed", "expired"}
    /\ stdin \in {"empty", "data", "ctrl_d"} /\ sigint_requested \in BOOLEAN

(* Type invariant. *)
TypeOK == ControlOK /\ SyncOK /\ DataOK /\ InputOK

(* The labels at which a thread is inside a section of code_lock. *)
HoldsCodeLock(t) ==
    pc[t] \in {"vm", "fire", "copy", "sigint_add", "stdin_add", "input_set"}

(* code_lock: the VM never runs while the main thread is changing or copying
   the state they share (Main.cpp:86-88), and no thread waits on a condition,
   finishes or exits with a mutex still held. *)
LockInv ==
    \A t \in Threads : /\ HoldsCodeLock(t) <=> code_lock = t
                       /\ At(t, "written") <=> updates_file_lock = t

(* The interrupt_delivered handshake (Main.cpp:231-236, 261-272): whenever
   the main thread sleeps for a delivery, the code thread is in __WFI, still
   counts as waiting, and has been signalled, so that the wake-up is coming. *)
HandshakeInv ==
    /\ interrupt_waiting <=> At("code", "wfi_wait")
    /\ At("main", "sig_wait") /\ "main" \notin woken
         => At("code", "wfi_wait") /\ "code" \in woken

(* The flush after shutdown sends every pending update before the bye
   message; only a radio queue may hold more frames (Main.cpp:1277-1280). *)
FlushedAtBye ==
    /\ pc["main"] \in {"last_signal", "done"}
    => dirty \subseteq {"radio_tx"}

(* From one written heartbeat to the next at most HEARTBEAT_TICKS macro ticks
   pass (Main.cpp:122-125, 1061-1066).  In fast mode both threads run the
   ticker, and one that has stored the tick and has not yet written can let
   the other run on for a whole interval more, and one call. *)
HeartbeatInTime ==
    untold <= IF fast_mode THEN 2 * HEARTBEAT_TICKS + 1 ELSE HEARTBEAT_TICKS

(* A sleep on suspend_wait is always answered: the code thread sleeps only
   while an update is on its way to the marker, or the marker's resume is on
   its way to the main thread (Main.cpp:178-182, 224-228, 968-972), or was
   dropped with a full buffer (1008-1011). *)
NoLostResume ==
    /\ pc["code"] \in {"wfi_suspended", "hook_suspended"} /\ "code" \notin woken
    => \/ unanswered
       \/ At("main", "written") /\ ShouldSuspend("main")
       \/ Resumes(client_pipe) \/ Resumes(batch) \/ dropped

(* Only the holder of code_lock changes the serial input (Main.cpp:86-88). *)
SerialUnderLock ==
    [][unread' # unread
       => code_lock # None /\ \A t \in Threads : pc'[t] # pc[t] => code_lock = t]_vars

(* The VM does not run on while an update has not been answered
   (Main.cpp:79-81). *)
SleepsUntilResume == [][Resume => ~unanswered]_vars

(* signal_interrupt() always returns. *)
SignalReturns == At("main", "signal") ~> pc["main"] \notin {"signal", "sig_wait", "bounce"}

(* A raised flag stops both threads. *)
FlagsStop == flags # {} ~> At("code", "exited") /\ At("main", "done")

(* Serial input wakes a VM that sits in __WFI. *)
InputWakes == unread /\ At("code", "wfi_wait") ~> ~At("code", "wfi_wait")

(* Every change of device state is reported, or the program has ended. *)
ChangesReported ==
    \A c \in Checked : c \in dirty ~> c \notin dirty \/ At("main", "done")
=============================================================================
