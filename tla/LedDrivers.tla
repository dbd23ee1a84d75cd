----------------------------- MODULE LedDrivers -----------------------------
(***************************************************************************)
(* project5: the drivers task2_1 (LEDs on), task2_2 (each LED blinks on a  *)
(* timer of its own), task2_3 (a button starts and stops the blinking) and *)
(* task2_4 (the LEDs show how often the button was clicked).  The board    *)
(* has one core: an expired timer's handler runs to its end before the     *)
(* process that loads or removes the module goes on, and the button's      *)
(* interrupt handler runs at once, also in the middle of either.           *)
(***************************************************************************)
EXTENDS Integers

CONSTANTS NUM_LED,
          INT_MAX   \* 2^31 - 1 in the code

ASSUME LedAssumption == NUM_LED \in Nat \ {0} /\ INT_MAX \in Nat /\ INT_MAX > 1

VARIABLES
    task,     \* the driver loaded last
    ledPc,    \* the process context: "none", "init", "run", "free", "dead" or a loop of exit
    ledI,     \* the loop variable of exit
    leds,
    timers,   \* pending; task2_4 has one, number 0
    stale,    \* a driver removed earlier left timers pending, in memory it no longer owns
    data,     \* the data of that one: the state the LEDs are in
    soft,     \* the handler of an expired timer: where it is, its LED, what it read
    irqOn,    \* the button's interrupt is requested
    level, edge,              \* the button's GPIO, and a latched edge
    timerActivated, counter,
    aged,     \* more than HZ jiffies have passed since startTime
    \* history: presses of the hand, and races that this driver or an earlier one met
    heldLong, clicks, missed, raced, racedBefore

ledVars == <<task, ledPc, ledI, leds, timers, stale, data, soft, irqOn, level, edge,
             timerActivated, counter, aged, heldLong, clicks, missed, raced, racedBefore>>

Led == 0 .. NUM_LED - 1
Dark == [k \in Led |-> 0]
NoHandler == [at |-> "none", led |-> 0, cur |-> 0, ptr |-> "LIGHTDOWN", torn |-> FALSE]

LedInit ==
    /\ task = "task2_1" /\ ledPc = "none" /\ ledI = 0
    /\ leds = Dark /\ timers = {} /\ stale = FALSE
    /\ data = "LIGHTDOWN" /\ soft = NoHandler
    /\ irqOn = FALSE /\ level = 1 /\ edge = FALSE
    /\ timerActivated = 0 /\ counter = 0 /\ aged = TRUE
    /\ heldLong = TRUE /\ clicks = 0 /\ missed = FALSE
    /\ raced = FALSE /\ racedBefore = FALSE

history == <<heldLong, clicks, missed, raced, racedBefore>>
button == <<irqOn, level, edge>>

----------------------------------------------------------------------------
(* bb_module_init.  The LEDs' GPIOs become outputs with value 0, the last  *)
(* two drivers request the button's interrupt, task2_2 starts its timers.  *)
(* Nothing keeps a driver from being loaded while timers of the one before *)
(* it are still pending; they are none of its own.                         *)

turnOnLEDs(t) == [k \in Led |-> IF t = "task2_1" THEN 1 ELSE 0]
request_irq(t) == t \in {"task2_3", "task2_4"}
start_timer(t) == IF t = "task2_2" THEN Led ELSE {}

bb_module_init(t) ==
    /\ ledPc = "none"
    /\ task' = t
    /\ ledPc' = IF t = "task2_4" THEN "init" ELSE "run"
    /\ leds' = turnOnLEDs(t) /\ irqOn' = request_irq(t) /\ timers' = start_timer(t)
    /\ stale' = (stale \/ timers # {})
    /\ edge' = FALSE /\ timerActivated' = 0 /\ counter' = 0 /\ aged' = TRUE
    /\ heldLong' = TRUE /\ clicks' = 0 /\ missed' = FALSE
    /\ raced' = FALSE /\ racedBefore' = (racedBefore \/ raced)
    /\ UNCHANGED <<ledI, data, soft, level>>

\* task2_4 has requested the interrupt; now it resets counter and starts its timer.
\* A click that is latched right then is counted later.
InitCounter ==
    /\ ledPc = "init" /\ soft.at = "none"
    /\ counter' = 0 /\ clicks' = 0 /\ missed' = (missed \/ edge)
    /\ timers' = {0} /\ data' = "LIGHTDOWN"
    /\ ledPc' = "run"
    /\ UNCHANGED <<task, ledI, leds, stale, soft, button, timerActivated, aged, heldLong, raced,
                   racedBefore>>

----------------------------------------------------------------------------
(* The button, and button_isr.                                             *)

\* The hand moves.  An edge that comes while one is latched is lost.
ButtonMoves ==
    /\ irqOn   \* nobody looks at the button otherwise
    /\ level' = 1 - level /\ edge' = TRUE
    /\ missed' = (missed \/ edge)
    /\ IF level = 1
       THEN heldLong' = FALSE /\ UNCHANGED clicks
       ELSE /\ clicks' = IF heldLong \/ clicks + 1 = INT_MAX THEN 0 ELSE clicks + 1
            /\ UNCHANGED heldLong
    /\ UNCHANGED <<task, ledPc, ledI, leds, timers, stale, data, soft, irqOn, timerActivated,
                   counter, aged, raced, racedBefore>>

\* A second passes; interrupts do not wait that long.
TimePasses ==
    /\ irqOn /\ ~edge /\ ~aged
    /\ aged' = TRUE /\ heldLong' = TRUE
    /\ UNCHANGED <<task, ledPc, ledI, leds, timers, stale, data, soft, button, timerActivated,
                   counter, clicks, missed, raced, racedBefore>>

InExit == ledPc \in {"stop", "delete", "free"}

\* task2_3.  init_timer on a pending timer breaks the list of timers.
ToggleBlinking ==
    /\ task = "task2_3" /\ irqOn /\ edge
    /\ edge' = FALSE
    /\ IF level = 1 THEN UNCHANGED <<ledPc, leds, timers, timerActivated, raced>>
       ELSE /\ raced' = (raced \/ soft.at # "none" \/ InExit)
            /\ timerActivated' = 1 - timerActivated
            /\ IF timerActivated = 0
               THEN /\ timers' = Led
                    /\ ledPc' = IF timers = {} THEN ledPc ELSE "dead"
                    /\ UNCHANGED leds
               ELSE timers' = {} /\ leds' = Dark /\ UNCHANGED ledPc
    /\ UNCHANGED <<task, ledI, stale, data, soft, irqOn, level, counter, aged, heldLong, clicks,
                   missed, racedBefore>>

\* task2_4.  A falling edge stores startTime, a rising one counts.
ClickCount ==
    /\ task = "task2_4" /\ irqOn /\ edge
    /\ edge' = FALSE
    /\ IF level = 0 THEN aged' = FALSE /\ UNCHANGED <<counter, soft>>
       ELSE /\ counter' = IF aged \/ counter + 1 = INT_MAX THEN 0 ELSE counter + 1
            /\ soft' = [soft EXCEPT !.torn = (@ \/ soft.at # "none")]
            /\ UNCHANGED aged
    /\ UNCHANGED <<task, ledPc, ledI, leds, timers, stale, data, irqOn, level, timerActivated,
                   history>>

----------------------------------------------------------------------------
(* timer_timeout.  The kernel has taken the timer off its list before.     *)

Loaded == ledPc \notin {"none", "dead"}

Handle(h) == soft' = h

\* In task2_4 the handler is passed the data of its timer.
Expire(k) ==
    /\ Loaded /\ soft.at = "none" /\ k \in timers
    /\ timers' = timers \ {k}
    /\ Handle([NoHandler EXCEPT !.at = IF task = "task2_4" THEN "show" ELSE "read",
                                !.led = k, !.ptr = data])
    /\ raced' = (raced \/ (task = "task2_4" /\ InExit /\ data = "LIGHTDOWN"))
    /\ UNCHANGED <<task, ledPc, ledI, leds, stale, data, button, timerActivated, counter, aged,
                   heldLong, clicks, missed, racedBefore>>

\* A timer outlived its module: it expires, or a timer next to it on the kernel's list is
\* added or deleted, and the kernel follows pointers into memory that has been freed.
ExpireUnloaded ==
    /\ ledPc # "dead" /\ (stale \/ (ledPc = "none" /\ timers # {}))
    /\ ledPc' = "dead"
    /\ UNCHANGED <<task, ledI, leds, timers, stale, data, soft, button, timerActivated, counter,
                   aged, history>>

unchangedByHandler == <<task, ledI, stale, button, timerActivated, counter, aged, history>>

\* task2_2 and task2_3: read the LED, set it, add the timer again.
ReadLed ==
    /\ soft.at = "read"
    /\ Handle([soft EXCEPT !.at = "set", !.cur = leds[soft.led]])
    /\ UNCHANGED <<ledPc, leds, timers, data, unchangedByHandler>>

FlipLed ==
    /\ soft.at = "set"
    /\ leds' = [leds EXCEPT ![soft.led] = IF soft.cur = 0 THEN 1 ELSE 0]
    /\ Handle([soft EXCEPT !.at = "arm"])
    /\ UNCHANGED <<ledPc, timers, data, unchangedByHandler>>

\* Adding a pending timer is a BUG.
add_timer ==
    /\ soft.at = "arm"
    /\ LET k == IF task = "task2_4" THEN 0 ELSE soft.led
       IN  /\ timers' = timers \cup {k}
           /\ ledPc' = IF k \in timers THEN "dead" ELSE ledPc
    /\ data' = IF task # "task2_4" THEN data
               ELSE IF soft.ptr = "LIGHTDOWN" THEN "LIGHTUP" ELSE "LIGHTDOWN"
    /\ Handle(NoHandler)
    /\ UNCHANGED <<leds, unchangedByHandler>>

Bit(n, k) == (n \div (2 ^ k)) % 2

\* Slip: the dark phase forgets the last LED.
LightOfStale(k) ==
    IF soft.ptr = "LIGHTUP" THEN IF k = NUM_LED - 1 THEN leds[k] ELSE 0
    ELSE IF Bit(counter, k) = 1 THEN 1 ELSE leds[k]

\* task2_4: what LED k is set to; counter is read anew for every LED, and none is turned off.
LightOf(k) ==
    IF soft.ptr = "LIGHTUP" THEN 0 ELSE IF Bit(counter, k) = 1 THEN 1 ELSE leds[k]

ShowLed ==
    /\ soft.at = "show"
    /\ leds' = [leds EXCEPT ![soft.led] = LightOf(soft.led)]
    /\ Handle(IF soft.led = NUM_LED - 1 THEN [soft EXCEPT !.at = "arm"]
                                        ELSE [soft EXCEPT !.led = @ + 1])
    /\ UNCHANGED <<ledPc, timers, data, unchangedByHandler>>

----------------------------------------------------------------------------
(* bb_module_exit.                                                         *)

unchangedByExit == <<task, stale, data, soft, level, timerActivated, counter, aged, history>>

turnOffLEDS ==
    /\ task = "task2_1" /\ ledPc = "run"
    /\ leds' = Dark /\ ledPc' = "none"
    /\ UNCHANGED <<unchangedByExit, ledI, timers, irqOn, edge>>

bb_module_exit ==
    /\ task # "task2_1" /\ ledPc = "run" /\ soft.at = "none"
    /\ ledPc' = "stop" /\ ledI' = 0
    /\ UNCHANGED <<unchangedByExit, leds, timers, irqOn, edge>>

\* Slip: the last timer is forgotten.
DelTimersShort == IF ledI < NUM_LED - 1 THEN timers \ {ledI} ELSE timers

DelTimers == timers \ {ledI}

\* A round of stop_timer's loop.  task2_4 only turns the LED off here.
stop_timer ==
    /\ ledPc = "stop" /\ soft.at = "none"
    /\ leds' = [leds EXCEPT ![ledI] = 0]
    /\ timers' = IF task = "task2_4" THEN timers ELSE DelTimers
    /\ IF ledI = NUM_LED - 1
       THEN ledI' = 0 /\ ledPc' = IF task = "task2_4" THEN "delete" ELSE "free"
       ELSE ledI' = ledI + 1 /\ UNCHANGED ledPc
    /\ UNCHANGED <<unchangedByExit, irqOn, edge>>

del_timer ==
    /\ ledPc = "delete" /\ soft.at = "none"
    /\ timers' = timers \ {0}
    /\ ledPc' = "free"
    /\ UNCHANGED <<unchangedByExit, ledI, leds, irqOn, edge>>

free_gpios ==
    /\ ledPc = "free" /\ soft.at = "none"
    /\ irqOn' = FALSE /\ edge' = FALSE
    /\ ledPc' = "none"
    /\ UNCHANGED <<unchangedByExit, ledI, leds, timers>>

----------------------------------------------------------------------------
LedTasks == {"task2_1", "task2_2", "task2_3", "task2_4"}

LedLoad == \E t \in LedTasks : bb_module_init(t)

LedNext ==
    \/ InitCounter
    \/ ledPc # "dead" /\ (ButtonMoves \/ TimePasses \/ ToggleBlinking \/ ClickCount)
    \/ \E k \in Led : Expire(k)
    \/ Loaded /\ (ReadLed \/ FlipLed \/ add_timer \/ ShowLed)
    \/ turnOffLEDS \/ bb_module_exit \/ stop_timer \/ del_timer \/ free_gpios
    \/ ExpireUnloaded
----------------------------------------------------------------------------
Quiet == timers = {} /\ leds = Dark

(* A driver that is stopped or removed leaves no timer pending and no LED  *)
(* lit, and while it is to blink every LED has its timer.  Only a race may *)
(* prevent this: a press that interrupted a handler or the removal of      *)
(* task2_3, or a lighting up of task2_4 between its turning off and its    *)
(* del_timer, which leaves no timer.  task2_1 and task2_2 have no such     *)
(* race.  The machine dies only of a race of task2_3, be it of the driver  *)
(* that is loaded or of one that was removed before it.                    *)
QuietWhenStopped ==
    /\ ledPc = "none" =>
           /\ ~raced => Quiet
           /\ task # "task2_3" => timers = {}
    /\ ledPc = "run" /\ task = "task2_2" =>
           timers = Led \ (IF soft.at = "none" THEN {} ELSE {soft.led})
    /\ ledPc = "run" /\ task = "task2_3" /\ soft.at = "none" /\ ~raced =>
           IF timerActivated = 0 THEN Quiet ELSE timers = Led
    /\ stale => racedBefore
    /\ ledPc = "dead" => (raced /\ task = "task2_3") \/ stale

(* task2_4 shows how often the button was clicked shortly since it was     *)
(* last held for a second (or the counter wrapped at INT_MAX): when its    *)
(* handler has lit the LEDs they are the low bits of that number, unless   *)
(* an edge was lost, is still latched, or came while the handler was at    *)
(* work; and before it lights them they are dark.                          *)
CounterShown ==
    task = "task2_4" /\ ledPc = "run" =>
        /\ soft.at = "none" /\ data = "LIGHTDOWN" => leds = Dark
        /\ soft.at = "arm" /\ soft.ptr = "LIGHTDOWN" /\ ~soft.torn /\ ~missed /\ ~edge =>
               \A k \in Led : leds[k] = 1 <=> Bit(clicks, k) = 1
=============================================================================
