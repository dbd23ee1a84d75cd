------------------------ MODULE KernelModulesProofs ------------------------
(***************************************************************************)
(* Safety of the LED drivers for any number of LEDs, however they are      *)
(* loaded and removed one after the other and whenever the button is       *)
(* pressed: LedInv is inductive.  Then the linked list, for any readers,   *)
(* writers and values: ListInv is inductive, the list is well-formed and   *)
(* implements the pool of values.  Then the process monitor, for any       *)
(* tables, requests, readers and writers: PmInv is inductive, and listings *)
(* are as asked for.  Last the driver of hw1, for any processes, bytes and *)
(* size: it implements BoundedStack.  HwInv is its inductive invariant:    *)
(* who holds my_mutex, what a process at each place has in its word, and   *)
(* where stackpointer may be.                                              *)
(***************************************************************************)
EXTENDS KernelModules, FiniteSetTheorems, NaturalsInduction, WellFoundedInduction, TLAPS

LedType ==
    /\ task \in LedTasks
    /\ ledPc \in {"none", "init", "run", "stop", "delete", "free", "dead"}
    /\ ledI \in Led /\ leds \in [Led -> {0, 1}] /\ timers \in SUBSET Led
    /\ data \in {"LIGHTDOWN", "LIGHTUP"}
    /\ soft \in [at : {"none", "read", "set", "arm", "show"}, led : Led, cur : {0, 1},
                 ptr : {"LIGHTDOWN", "LIGHTUP"}, torn : BOOLEAN]
    /\ irqOn \in BOOLEAN /\ level \in {0, 1} /\ edge \in BOOLEAN
    /\ timerActivated \in {0, 1} /\ counter \in Nat /\ clicks \in Nat
    /\ aged \in BOOLEAN /\ heldLong \in BOOLEAN /\ missed \in BOOLEAN /\ raced \in BOOLEAN
    /\ stale \in BOOLEAN /\ racedBefore \in BOOLEAN

Buttoned == {"task2_3", "task2_4"}
Blinkers == {"task2_2", "task2_3"}

\* Which driver may be where, and when the interrupt is requested.
ContextInv ==
    /\ ledPc = "none" => soft.at = "none" /\ ~irqOn
    /\ irqOn => task \in Buttoned
    /\ raced => task \in Buttoned
    /\ task \in Buttoned /\ Loaded => irqOn
    /\ ledPc = "dead" => (raced /\ task = "task2_3") \/ stale
    /\ stale => racedBefore
    /\ ledPc \in {"init", "delete"} => task = "task2_4"
    /\ soft.at \in {"read", "set"} => task \in Blinkers
    /\ soft.at = "show" => task = "task2_4"
    /\ task = "task2_1" => /\ timers = {} /\ soft.at = "none" /\ ledPc \in {"none", "run", "dead"}
                           /\ ledPc = "none" => leds = Dark

\* The timer taken off the list for the handler at work.
Handled == IF soft.at = "none" THEN {} ELSE {soft.led}

\* The LEDs from a number on blink, the others are dark.
BlinkFrom(n) ==
    /\ timers = {k \in Led : k >= n} \ Handled
    /\ \A k \in Led : k < n => leds[k] = 0
    /\ soft.at # "none" => soft.led >= n

Still == Quiet /\ soft.at = "none"

On == task = "task2_2" \/ timerActivated = 1

\* task2_2 and task2_3, as long as no race was met.
BlinkInv ==
    task \in Blinkers /\ ~raced =>
        /\ ledPc = "run" => IF On THEN BlinkFrom(0) ELSE Still
        /\ ledPc = "stop" => IF On THEN BlinkFrom(ledI) ELSE Still
        /\ ledPc \in {"free", "none"} => Still

Lit(n) == \A k \in Led : k < n => (leds[k] = 1 <=> Bit(counter, k) = 1)
DarkTo(n) == \A k \in Led : k < n => leds[k] = 0
DarkFrom(n) == \A k \in Led : k >= n => leds[k] = 0

\* What the LEDs of task2_4 show while its handler works.
ShowInv ==
    /\ soft.at = "none" /\ data = "LIGHTDOWN" => DarkTo(NUM_LED)
    /\ soft.at = "show" /\ soft.ptr = "LIGHTUP" => DarkTo(soft.led)
    /\ soft.at = "arm" /\ soft.ptr = "LIGHTUP" => DarkTo(NUM_LED)
    /\ soft.at = "show" /\ soft.ptr = "LIGHTDOWN" => DarkFrom(soft.led) /\ (~soft.torn => Lit(soft.led))
    /\ soft.at = "arm" /\ soft.ptr = "LIGHTDOWN" /\ ~soft.torn => Lit(NUM_LED)

\* task2_4: its one timer is pending or its handler at work until del_timer.
CounterInv ==
    task = "task2_4" =>
        /\ ledPc # "dead" =>
               timers = IF ledPc \in {"run", "stop", "delete"} /\ soft.at = "none" THEN {0} ELSE {}
        /\ ledPc \in {"init", "free"} => soft.at = "none"
        /\ ledPc = "init" => DarkTo(NUM_LED)
        /\ ledPc = "run" => ShowInv
        /\ ledPc \in {"stop", "delete", "free", "none"} /\ ~raced =>
               /\ DarkTo(IF ledPc = "stop" THEN ledI ELSE NUM_LED)
               /\ soft.at # "none" => soft.ptr = "LIGHTUP"

\* The counter of task2_4 follows the clicks, one latched edge behind.
ClickInv ==
    task = "task2_4" /\ irqOn /\ ~missed =>
        /\ ~edge \/ level = 0 => counter = clicks
        /\ ~edge /\ level = 0 => (aged <=> heldLong)
        /\ edge /\ level = 0 => ~heldLong
        /\ edge /\ level = 1 =>
               clicks = IF aged \/ counter + 1 = INT_MAX THEN 0 ELSE counter + 1

LedInv == LedType /\ ContextInv /\ BlinkInv /\ CounterInv /\ ClickInv

----------------------------------------------------------------------------
(* A driver is loaded.                                                     *)
LEMMA LoadingKeeps ==
    ASSUME LedInv, NEW t \in LedTasks, bb_module_init(t)
    PROVE  LedInv'
<1> USE LedAssumption DEF LedInv, Led, Dark, Quiet
<1>1. LedType'
  <2>1. task' \in LedTasks /\ ledPc' \in {"none", "init", "run", "stop", "delete", "free", "dead"}
    BY DEF LedType, LedTasks, bb_module_init, turnOnLEDs, request_irq, start_timer
  <2>2. ledI' \in Led /\ timers' \in SUBSET Led /\ data' \in {"LIGHTDOWN", "LIGHTUP"}
    BY DEF LedType, bb_module_init, turnOnLEDs, request_irq, start_timer
  <2>3. leds' \in [Led -> {0, 1}]
    BY DEF LedType, bb_module_init, turnOnLEDs, request_irq, start_timer
  <2>4. soft' \in [at : {"none", "read", "set", "arm", "show"}, led : Led, cur : {0, 1},
                   ptr : {"LIGHTDOWN", "LIGHTUP"}, torn : BOOLEAN]
    BY DEF LedType, bb_module_init, turnOnLEDs, request_irq, start_timer
  <2>5. edge' \in BOOLEAN /\ aged' \in BOOLEAN /\ heldLong' \in BOOLEAN
    BY DEF bb_module_init
  <2>6. irqOn' \in BOOLEAN
    <3>1. irqOn' = (t \in {"task2_3", "task2_4"})
      BY DEF bb_module_init, request_irq
    <3> QED
      BY <3>1
  <2>7. /\ missed' \in BOOLEAN /\ raced' \in BOOLEAN
        /\ stale' \in BOOLEAN /\ racedBefore' \in BOOLEAN
    BY DEF LedType, bb_module_init, turnOnLEDs, request_irq, start_timer
  <2>8. level' \in {0, 1} /\ timerActivated' \in {0, 1} /\ counter' \in Nat /\ clicks' \in Nat
    BY DEF LedType, bb_module_init, turnOnLEDs, request_irq, start_timer
  <2> QED
    BY <2>1, <2>2, <2>3, <2>4, <2>5, <2>6, <2>7, <2>8 DEF LedType
<1>2. ContextInv'
  BY DEF LedType, LedTasks, ContextInv, CounterInv, BlinkInv, Still, On, Buttoned, Blinkers,
     Loaded, bb_module_init, turnOnLEDs, request_irq, start_timer
<1>3. BlinkInv'
  BY DEF LedType, LedTasks, ContextInv, BlinkInv, Buttoned, Blinkers, Loaded, On, Still,
     BlinkFrom, Handled, bb_module_init, turnOnLEDs, request_irq, start_timer
<1>4. CounterInv'
  BY DEF LedType, LedTasks, ContextInv, CounterInv, ShowInv, Lit, DarkTo, DarkFrom, Buttoned,
     Loaded, bb_module_init, turnOnLEDs, request_irq, start_timer
<1>5. ClickInv'
  BY DEF LedType, LedTasks, ContextInv, ClickInv, Buttoned, Loaded, bb_module_init, turnOnLEDs,
     request_irq, start_timer
<1> QED
  BY <1>1, <1>2, <1>3, <1>4, <1>5

(* task2_4 starts its timer.                                               *)
LEMMA InitCounterKeeps ==
    ASSUME LedInv, InitCounter
    PROVE  LedInv'
<1> USE LedAssumption DEF LedInv, Led, Dark, Quiet
<1>1. LedType'
  BY DEF LedType, LedTasks, InitCounter, button
<1>2. ContextInv'
  BY DEF LedType, LedTasks, ContextInv, CounterInv, BlinkInv, Still, On, Buttoned, Blinkers,
     Loaded, InitCounter, button
<1>3. BlinkInv'
  BY DEF LedType, LedTasks, ContextInv, BlinkInv, Buttoned, Blinkers, Loaded, On, Still,
     BlinkFrom, Handled, InitCounter, button
<1>4. CounterInv'
  BY DEF LedType, LedTasks, ContextInv, CounterInv, ShowInv, Lit, DarkTo, DarkFrom, Buttoned,
     Loaded, InitCounter, button
<1>5. ClickInv'
  BY DEF LedType, LedTasks, ContextInv, ClickInv, Buttoned, Loaded, InitCounter, button
<1> QED
  BY <1>1, <1>2, <1>3, <1>4, <1>5

(* The hand moves.                                                         *)
LEMMA ButtonMovesKeeps ==
    ASSUME LedInv, ButtonMoves
    PROVE  LedInv'
<1> USE LedAssumption DEF LedInv, Led, Dark, Quiet
<1>1. LedType'
  <2>1. task' \in LedTasks /\ ledPc' \in {"none", "init", "run", "stop", "delete", "free", "dead"}
    BY DEF LedType, LedTasks, ButtonMoves
  <2>2. ledI' \in Led /\ timers' \in SUBSET Led /\ data' \in {"LIGHTDOWN", "LIGHTUP"}
    BY DEF LedType, ButtonMoves
  <2>3. leds' \in [Led -> {0, 1}]
    BY DEF LedType, ButtonMoves
  <2>4. soft' \in [at : {"none", "read", "set", "arm", "show"}, led : Led, cur : {0, 1},
                   ptr : {"LIGHTDOWN", "LIGHTUP"}, torn : BOOLEAN]
    BY DEF LedType, ButtonMoves
  <2>5. irqOn' \in BOOLEAN /\ edge' \in BOOLEAN /\ aged' \in BOOLEAN /\ heldLong' \in BOOLEAN
    BY DEF LedType, ButtonMoves
  <2>6. /\ missed' \in BOOLEAN /\ raced' \in BOOLEAN
        /\ stale' \in BOOLEAN /\ racedBefore' \in BOOLEAN
    BY DEF LedType, ButtonMoves
  <2>7. level' \in {0, 1} /\ timerActivated' \in {0, 1} /\ counter' \in Nat /\ clicks' \in Nat
    BY DEF LedType, ButtonMoves
  <2> QED
    BY <2>1, <2>2, <2>3, <2>4, <2>5, <2>6, <2>7 DEF LedType
<1>2. ContextInv'
  BY DEF LedType, LedTasks, ContextInv, CounterInv, BlinkInv, Still, On, Buttoned, Blinkers,
     Loaded, ButtonMoves
<1>3. BlinkInv'
  BY DEF LedType, LedTasks, ContextInv, BlinkInv, Buttoned, Blinkers, Loaded, On, Still,
     BlinkFrom, Handled, ButtonMoves
<1>4. CounterInv'
  BY DEF LedType, LedTasks, ContextInv, CounterInv, ShowInv, Lit, DarkTo, DarkFrom, Buttoned,
     Loaded, ButtonMoves
<1>5. ClickInv'
  BY DEF LedType, LedTasks, ContextInv, ClickInv, Buttoned, Loaded, ButtonMoves
<1> QED
  BY <1>1, <1>2, <1>3, <1>4, <1>5

(* A second passes.                                                        *)
LEMMA TimePassesKeeps ==
    ASSUME LedInv, TimePasses
    PROVE  LedInv'
<1> USE LedAssumption DEF LedInv, Led, Dark, Quiet
<1>1. LedType'
  BY DEF LedType, LedTasks, TimePasses, button
<1>2. ContextInv'
  BY DEF LedType, LedTasks, ContextInv, CounterInv, BlinkInv, Still, On, Buttoned, Blinkers,
     Loaded, TimePasses, button
<1>3. BlinkInv'
  BY DEF LedType, LedTasks, ContextInv, BlinkInv, Buttoned, Blinkers, Loaded, On, Still,
     BlinkFrom, Handled, TimePasses, button
<1>4. CounterInv'
  BY DEF LedType, LedTasks, ContextInv, CounterInv, ShowInv, Lit, DarkTo, DarkFrom, Buttoned,
     Loaded, TimePasses, button
<1>5. ClickInv'
  BY DEF LedType, LedTasks, ContextInv, ClickInv, Buttoned, Loaded, TimePasses, button
<1> QED
  BY <1>1, <1>2, <1>3, <1>4, <1>5

(* The interrupt of task2_3.                                               *)
LEMMA ToggleBlinkingKeeps ==
    ASSUME LedInv, ledPc # "dead", ToggleBlinking
    PROVE  LedInv'
<1> USE LedAssumption DEF LedInv, Led, Dark, Quiet
<1>1. LedType'
  <2>1. task' \in LedTasks /\ ledPc' \in {"none", "init", "run", "stop", "delete", "free", "dead"}
    BY DEF LedType, LedTasks, ToggleBlinking, InExit
  <2>2. ledI' \in Led /\ timers' \in SUBSET Led /\ data' \in {"LIGHTDOWN", "LIGHTUP"}
    BY DEF LedType, ToggleBlinking, InExit
  <2>3. leds' \in [Led -> {0, 1}]
    BY DEF LedType, ToggleBlinking, InExit
  <2>4. soft' \in [at : {"none", "read", "set", "arm", "show"}, led : Led, cur : {0, 1},
                   ptr : {"LIGHTDOWN", "LIGHTUP"}, torn : BOOLEAN]
    BY DEF LedType, ToggleBlinking, InExit
  <2>5. irqOn' \in BOOLEAN /\ edge' \in BOOLEAN /\ aged' \in BOOLEAN /\ heldLong' \in BOOLEAN
    BY DEF LedType, ToggleBlinking, InExit
  <2>6. /\ missed' \in BOOLEAN /\ raced' \in BOOLEAN
        /\ stale' \in BOOLEAN /\ racedBefore' \in BOOLEAN
    BY DEF LedType, ToggleBlinking, InExit
  <2>7. level' \in {0, 1} /\ timerActivated' \in {0, 1} /\ counter' \in Nat /\ clicks' \in Nat
    BY DEF LedType, ToggleBlinking, InExit
  <2> QED
    BY <2>1, <2>2, <2>3, <2>4, <2>5, <2>6, <2>7 DEF LedType
<1>2. ContextInv'
  BY DEF LedType, LedTasks, ContextInv, CounterInv, BlinkInv, Still, On, Buttoned, Blinkers,
     Loaded, ToggleBlinking, InExit
<1>3. BlinkInv'
  <2>1. CASE level = 1
    BY <2>1 DEF BlinkInv, On, Still, BlinkFrom, Handled, ToggleBlinking
  <2>2. CASE level # 1
    <3>1. SUFFICES ASSUME ~ raced' PROVE BlinkInv'
      BY DEF BlinkInv
    <3>2. ~ raced /\ soft.at = "none" /\ ~ InExit /\ task = "task2_3"
      BY <2>2, <3>1 DEF ToggleBlinking
    <3>3. ledPc = "run"
      BY <3>2 DEF LedType, ContextInv, InExit, ToggleBlinking
    <3>4. CASE timerActivated = 0
      <4>1. timers = {} /\ leds = Dark
        BY <3>2, <3>3, <3>4 DEF BlinkInv, On, Still, Blinkers
      <4>2. timers' = Led /\ ledPc' = "run" /\ timerActivated' = 1 /\ soft' = soft /\ leds' = leds
        BY <2>2, <3>3, <3>4, <4>1 DEF ToggleBlinking
      <4> QED
        BY <3>2, <4>2 DEF BlinkInv, On, BlinkFrom, Handled
    <3>5. CASE timerActivated = 1
      <4>1. timers' = {} /\ leds' = Dark /\ timerActivated' = 0 /\ soft' = soft /\ task' = task
        BY <2>2, <3>5 DEF ToggleBlinking
      <4> QED
        BY <3>2, <3>3, <4>1 DEF BlinkInv, On, Still, Quiet, Dark, ToggleBlinking
    <3> QED
      BY <3>4, <3>5 DEF LedType
  <2> QED
    BY <2>1, <2>2
<1>4. CounterInv'
  BY DEF LedType, LedTasks, ContextInv, CounterInv, ShowInv, Lit, DarkTo, DarkFrom, Buttoned,
     Loaded, ToggleBlinking, InExit
<1>5. ClickInv'
  BY DEF LedType, LedTasks, ContextInv, ClickInv, Buttoned, Loaded, ToggleBlinking, InExit
<1> QED
  BY <1>1, <1>2, <1>3, <1>4, <1>5

(* The interrupt of task2_4.                                               *)
LEMMA ClickCountKeeps ==
    ASSUME LedInv, ClickCount
    PROVE  LedInv'
<1> USE LedAssumption DEF LedInv, Led, Dark, Quiet
<1>1. LedType'
  <2>1. task' \in LedTasks /\ ledPc' \in {"none", "init", "run", "stop", "delete", "free", "dead"}
    BY DEF LedType, LedTasks, ClickCount, history
  <2>2. ledI' \in Led /\ timers' \in SUBSET Led /\ data' \in {"LIGHTDOWN", "LIGHTUP"}
    BY DEF LedType, ClickCount, history
  <2>3. leds' \in [Led -> {0, 1}]
    BY DEF LedType, ClickCount, history
  <2>4. soft' \in [at : {"none", "read", "set", "arm", "show"}, led : Led, cur : {0, 1},
                   ptr : {"LIGHTDOWN", "LIGHTUP"}, torn : BOOLEAN]
    BY DEF LedType, ClickCount, history
  <2>5. irqOn' \in BOOLEAN /\ edge' \in BOOLEAN /\ aged' \in BOOLEAN /\ heldLong' \in BOOLEAN
    BY DEF LedType, ClickCount, history
  <2>6. /\ missed' \in BOOLEAN /\ raced' \in BOOLEAN
        /\ stale' \in BOOLEAN /\ racedBefore' \in BOOLEAN
    BY DEF LedType, ClickCount, history
  <2>7. level' \in {0, 1} /\ timerActivated' \in {0, 1} /\ counter' \in Nat /\ clicks' \in Nat
    BY DEF LedType, ClickCount, history
  <2> QED
    BY <2>1, <2>2, <2>3, <2>4, <2>5, <2>6, <2>7 DEF LedType
<1>2. ContextInv'
  BY DEF LedType, LedTasks, ContextInv, CounterInv, BlinkInv, Still, On, Buttoned, Blinkers,
     Loaded, ClickCount, history
<1>3. BlinkInv'
  BY DEF LedType, LedTasks, ContextInv, BlinkInv, Buttoned, Blinkers, Loaded, On, Still,
     BlinkFrom, Handled, ClickCount, history
<1>4. CounterInv'
  <2>1. /\ soft'.at = soft.at /\ soft'.led = soft.led /\ soft'.ptr = soft.ptr
        /\ UNCHANGED <<task, ledPc, ledI, leds, timers, data, raced>>
    BY DEF LedType, ClickCount, history
  <2>2. soft.at # "none" /\ ~ soft'.torn => counter' = counter /\ ~ soft.torn
    BY DEF LedType, ClickCount
  <2> QED
    BY <2>1, <2>2 DEF CounterInv, ShowInv, Lit, DarkTo, DarkFrom
<1>5. ClickInv'
  BY DEF LedType, LedTasks, ContextInv, ClickInv, Buttoned, Loaded, ClickCount, history
<1> QED
  BY <1>1, <1>2, <1>3, <1>4, <1>5

(* A timer expires.                                                        *)
LEMMA ExpireKeeps ==
    ASSUME LedInv, NEW k \in Led, Expire(k)
    PROVE  LedInv'
<1> USE LedAssumption DEF LedInv, Led, Dark, Quiet
<1>1. LedType'
  <2>1. task' \in LedTasks /\ ledPc' \in {"none", "init", "run", "stop", "delete", "free", "dead"}
    BY DEF LedType, LedTasks, Expire, Handle, InExit, button, NoHandler
  <2>2. ledI' \in Led /\ timers' \in SUBSET Led /\ data' \in {"LIGHTDOWN", "LIGHTUP"}
    BY DEF LedType, Expire, Handle, InExit, button, NoHandler
  <2>3. leds' \in [Led -> {0, 1}]
    BY DEF LedType, Expire, Handle, InExit, button, NoHandler
  <2>4. soft' \in [at : {"none", "read", "set", "arm", "show"}, led : Led, cur : {0, 1},
                   ptr : {"LIGHTDOWN", "LIGHTUP"}, torn : BOOLEAN]
    BY DEF LedType, Expire, Handle, InExit, button, NoHandler
  <2>5. irqOn' \in BOOLEAN /\ edge' \in BOOLEAN /\ aged' \in BOOLEAN /\ heldLong' \in BOOLEAN
    BY DEF LedType, Expire, Handle, InExit, button, NoHandler
  <2>6. /\ missed' \in BOOLEAN /\ raced' \in BOOLEAN
        /\ stale' \in BOOLEAN /\ racedBefore' \in BOOLEAN
    BY DEF LedType, Expire, Handle, InExit, button, NoHandler
  <2>7. level' \in {0, 1} /\ timerActivated' \in {0, 1} /\ counter' \in Nat /\ clicks' \in Nat
    BY DEF LedType, Expire, Handle, InExit, button, NoHandler
  <2> QED
    BY <2>1, <2>2, <2>3, <2>4, <2>5, <2>6, <2>7 DEF LedType
<1>2. ContextInv'
  BY DEF LedType, LedTasks, ContextInv, CounterInv, BlinkInv, Still, On, Buttoned, Blinkers,
     Loaded, Expire, Handle, InExit, button, NoHandler
<1>3. BlinkInv'
  BY DEF LedType, LedTasks, ContextInv, BlinkInv, Buttoned, Blinkers, Loaded, On, Still,
     BlinkFrom, Handled, Expire, Handle, InExit, button, NoHandler
<1>4. CounterInv'
  <2>1. SUFFICES ASSUME task = "task2_4" PROVE CounterInv'
    BY DEF CounterInv, Expire
  <2>2. ledPc \in {"run", "stop", "delete"} /\ k = 0 /\ timers = {0}
    BY <2>1 DEF CounterInv, Expire, Loaded
  <2>3. soft' = [at |-> "show", led |-> k, cur |-> 0, ptr |-> data, torn |-> FALSE]
    BY <2>1 DEF Expire, Handle, NoHandler
  <2>4. timers' = {} /\ UNCHANGED <<task, ledPc, ledI, leds, data, counter>>
    BY <2>2 DEF Expire
  <2>5. soft'.at = "show" /\ soft'.led = 0 /\ soft'.ptr = data
    BY <2>2, <2>3
  <2>6. ledPc = "run" => ShowInv'
    BY <2>1, <2>4, <2>5 DEF LedType, CounterInv, ShowInv, Lit, DarkTo, DarkFrom, Expire
  <2>7. ledPc # "run" /\ ~ raced' => ~ raced /\ soft'.ptr = "LIGHTUP"
    BY <2>1, <2>2, <2>5 DEF LedType, Expire, InExit
  <2> QED
    BY <2>1, <2>2, <2>4, <2>5, <2>6, <2>7 DEF CounterInv, DarkTo
<1>5. ClickInv'
  BY DEF LedType, LedTasks, ContextInv, ClickInv, Buttoned, Loaded, Expire, Handle, InExit,
     button, NoHandler
<1> QED
  BY <1>1, <1>2, <1>3, <1>4, <1>5

(* A timer that outlived its module expires.                               *)
LEMMA ExpireUnloadedKeeps ==
    ASSUME LedInv, ExpireUnloaded
    PROVE  LedInv'
<1> USE LedAssumption DEF LedInv, Led, Dark, Quiet
<1>1. LedType'
  BY DEF LedType, LedTasks, ExpireUnloaded, button, history
<1>2. ContextInv'
  BY DEF LedType, LedTasks, ContextInv, CounterInv, BlinkInv, Still, On, Buttoned, Blinkers,
     Loaded, ExpireUnloaded, button, history
<1>3. BlinkInv'
  BY DEF LedType, LedTasks, ContextInv, BlinkInv, Buttoned, Blinkers, Loaded, On, Still,
     BlinkFrom, Handled, ExpireUnloaded, button, history
<1>4. CounterInv'
  BY DEF LedType, LedTasks, ContextInv, CounterInv, ShowInv, Lit, DarkTo, DarkFrom, Buttoned,
     Loaded, ExpireUnloaded, button, history
<1>5. ClickInv'
  BY DEF LedType, LedTasks, ContextInv, ClickInv, Buttoned, Loaded, ExpireUnloaded, button, history
<1> QED
  BY <1>1, <1>2, <1>3, <1>4, <1>5

(* The handler reads its LED.                                              *)
LEMMA ReadLedKeeps ==
    ASSUME LedInv, Loaded, ReadLed
    PROVE  LedInv'
<1> USE LedAssumption DEF LedInv, Led, Dark, Quiet
<1>1. LedType'
  <2>1. task' \in LedTasks /\ ledPc' \in {"none", "init", "run", "stop", "delete", "free", "dead"}
    BY DEF LedType, LedTasks, ReadLed, Handle, unchangedByHandler, button, history
  <2>2. ledI' \in Led /\ timers' \in SUBSET Led /\ data' \in {"LIGHTDOWN", "LIGHTUP"}
    BY DEF LedType, ReadLed, Handle, unchangedByHandler, button, history
  <2>3. leds' \in [Led -> {0, 1}]
    BY DEF LedType, ReadLed, Handle, unchangedByHandler, button, history
  <2>4. soft' \in [at : {"none", "read", "set", "arm", "show"}, led : Led, cur : {0, 1},
                   ptr : {"LIGHTDOWN", "LIGHTUP"}, torn : BOOLEAN]
    BY DEF LedType, ReadLed, Handle, unchangedByHandler, button, history
  <2>5. irqOn' \in BOOLEAN /\ edge' \in BOOLEAN /\ aged' \in BOOLEAN /\ heldLong' \in BOOLEAN
    BY DEF LedType, ReadLed, Handle, unchangedByHandler, button, history
  <2>6. /\ missed' \in BOOLEAN /\ raced' \in BOOLEAN
        /\ stale' \in BOOLEAN /\ racedBefore' \in BOOLEAN
    BY DEF LedType, ReadLed, Handle, unchangedByHandler, button, history
  <2>7. level' \in {0, 1} /\ timerActivated' \in {0, 1} /\ counter' \in Nat /\ clicks' \in Nat
    BY DEF LedType, ReadLed, Handle, unchangedByHandler, button, history
  <2> QED
    BY <2>1, <2>2, <2>3, <2>4, <2>5, <2>6, <2>7 DEF LedType
<1>2. ContextInv'
  BY DEF LedType, LedTasks, ContextInv, CounterInv, BlinkInv, Still, On, Buttoned, Blinkers,
     Loaded, ReadLed, Handle, unchangedByHandler, button, history
<1>3. BlinkInv'
  BY DEF LedType, LedTasks, ContextInv, BlinkInv, Buttoned, Blinkers, Loaded, On, Still,
     BlinkFrom, Handled, ReadLed, Handle, unchangedByHandler, button, history
<1>4. CounterInv'
  BY DEF LedType, LedTasks, ContextInv, CounterInv, ShowInv, Lit, DarkTo, DarkFrom, Buttoned,
     Loaded, ReadLed, Handle, unchangedByHandler, button, history
<1>5. ClickInv'
  BY DEF LedType, LedTasks, ContextInv, ClickInv, Buttoned, Loaded, ReadLed, Handle,
     unchangedByHandler, button, history
<1> QED
  BY <1>1, <1>2, <1>3, <1>4, <1>5

(* The handler sets its LED.                                               *)
LEMMA FlipLedKeeps ==
    ASSUME LedInv, Loaded, FlipLed
    PROVE  LedInv'
<1> USE LedAssumption DEF LedInv, Led, Dark, Quiet
<1>1. LedType'
  <2>1. task' \in LedTasks /\ ledPc' \in {"none", "init", "run", "stop", "delete", "free", "dead"}
    BY DEF LedType, LedTasks, FlipLed, Handle, unchangedByHandler, button, history
  <2>2. ledI' \in Led /\ timers' \in SUBSET Led /\ data' \in {"LIGHTDOWN", "LIGHTUP"}
    BY DEF LedType, FlipLed, Handle, unchangedByHandler, button, history
  <2>3. leds' \in [Led -> {0, 1}]
    BY DEF LedType, FlipLed, Handle, unchangedByHandler, button, history
  <2>4. soft' \in [at : {"none", "read", "set", "arm", "show"}, led : Led, cur : {0, 1},
                   ptr : {"LIGHTDOWN", "LIGHTUP"}, torn : BOOLEAN]
    BY DEF LedType, FlipLed, Handle, unchangedByHandler, button, history
  <2>5. irqOn' \in BOOLEAN /\ edge' \in BOOLEAN /\ aged' \in BOOLEAN /\ heldLong' \in BOOLEAN
    BY DEF LedType, FlipLed, Handle, unchangedByHandler, button, history
  <2>6. /\ missed' \in BOOLEAN /\ raced' \in BOOLEAN
        /\ stale' \in BOOLEAN /\ racedBefore' \in BOOLEAN
    BY DEF LedType, FlipLed, Handle, unchangedByHandler, button, history
  <2>7. level' \in {0, 1} /\ timerActivated' \in {0, 1} /\ counter' \in Nat /\ clicks' \in Nat
    BY DEF LedType, FlipLed, Handle, unchangedByHandler, button, history
  <2> QED
    BY <2>1, <2>2, <2>3, <2>4, <2>5, <2>6, <2>7 DEF LedType
<1>2. ContextInv'
  BY DEF LedType, LedTasks, ContextInv, CounterInv, BlinkInv, Still, On, Buttoned, Blinkers,
     Loaded, FlipLed, Handle, unchangedByHandler, button, history
<1>3. BlinkInv'
  BY DEF LedType, LedTasks, ContextInv, BlinkInv, Buttoned, Blinkers, Loaded, On, Still,
     BlinkFrom, Handled, FlipLed, Handle, unchangedByHandler, button, history
<1>4. CounterInv'
  <2>1. task # "task2_4" /\ task' = task
    BY DEF ContextInv, Blinkers, FlipLed, unchangedByHandler
  <2> QED
    BY <2>1 DEF CounterInv
<1>5. ClickInv'
  BY DEF LedType, LedTasks, ContextInv, ClickInv, Buttoned, Loaded, FlipLed, Handle,
     unchangedByHandler, button, history
<1> QED
  BY <1>1, <1>2, <1>3, <1>4, <1>5

(* The handler adds its timer again.                                       *)
LEMMA AddTimerKeeps ==
    ASSUME LedInv, Loaded, add_timer
    PROVE  LedInv'
<1> USE LedAssumption DEF LedInv, Led, Dark, Quiet
<1>1. LedType'
  <2>1. task' \in LedTasks /\ ledPc' \in {"none", "init", "run", "stop", "delete", "free", "dead"}
    BY DEF LedType, LedTasks, add_timer, Handle, NoHandler, unchangedByHandler, button, history
  <2>2. ledI' \in Led /\ data' \in {"LIGHTDOWN", "LIGHTUP"}
    BY DEF LedType, add_timer, unchangedByHandler
  <2>3. timers' \in SUBSET Led
    <3>1. soft.led \in Led /\ 0 \in Led
      BY DEF LedType
    <3> QED
      BY <3>1 DEF LedType, add_timer
  <2>4. leds' \in [Led -> {0, 1}]
    BY DEF LedType, add_timer, Handle, NoHandler, unchangedByHandler, button, history
  <2>5. soft' \in [at : {"none", "read", "set", "arm", "show"}, led : Led, cur : {0, 1},
                   ptr : {"LIGHTDOWN", "LIGHTUP"}, torn : BOOLEAN]
    BY DEF LedType, add_timer, Handle, NoHandler, unchangedByHandler, button, history
  <2>6. irqOn' \in BOOLEAN /\ edge' \in BOOLEAN /\ aged' \in BOOLEAN /\ heldLong' \in BOOLEAN
    BY DEF LedType, add_timer, Handle, NoHandler, unchangedByHandler, button, history
  <2>7. /\ missed' \in BOOLEAN /\ raced' \in BOOLEAN
        /\ stale' \in BOOLEAN /\ racedBefore' \in BOOLEAN
    BY DEF LedType, add_timer, Handle, NoHandler, unchangedByHandler, button, history
  <2>8. level' \in {0, 1} /\ timerActivated' \in {0, 1} /\ counter' \in Nat /\ clicks' \in Nat
    BY DEF LedType, add_timer, Handle, NoHandler, unchangedByHandler, button, history
  <2> QED
    BY <2>1, <2>2, <2>3, <2>4, <2>5, <2>6, <2>7, <2>8 DEF LedType
<1>2. ContextInv'
  <2>1. soft'.at = "none" /\ UNCHANGED <<task, irqOn, stale, raced, racedBefore, leds>>
    BY DEF add_timer, Handle, NoHandler, unchangedByHandler, button, history
  <2>2. ledPc' = ledPc \/ ledPc' = "dead"
    BY DEF add_timer
  <2>3. ledPc' = "dead" => raced /\ task = "task2_3"
    <3>1. SUFFICES ASSUME ledPc' = "dead" PROVE raced /\ task = "task2_3"
      OBVIOUS
    <3>2. soft.at = "arm" /\ ledPc # "dead" /\ ledPc # "none"
      BY DEF add_timer, Loaded
    <3>3. (IF task = "task2_4" THEN 0 ELSE soft.led) \in timers
      BY <3>1, <3>2 DEF add_timer
    <3>4. task \in Blinkers
      BY <3>2, <3>3 DEF LedType, LedTasks, ContextInv, CounterInv, Blinkers
    <3>5. soft.led \in timers
      BY <3>3, <3>4 DEF Blinkers
    <3>6. raced
      BY <3>2, <3>4, <3>5 DEF LedType, ContextInv, BlinkInv, Still, BlinkFrom, Handled, Blinkers
    <3> QED
      BY <3>4, <3>6 DEF ContextInv, Buttoned, Blinkers
  <2>4. task # "task2_1"
    BY DEF ContextInv, add_timer
  <2> QED
    BY <2>1, <2>2, <2>3, <2>4 DEF ContextInv, Buttoned, Blinkers, Loaded
<1>3. BlinkInv'
  BY DEF LedType, LedTasks, ContextInv, BlinkInv, Buttoned, Blinkers, Loaded, On, Still,
     BlinkFrom, Handled, add_timer, Handle, NoHandler, unchangedByHandler, button, history
<1>4. CounterInv'
  BY DEF LedType, LedTasks, ContextInv, CounterInv, ShowInv, Lit, DarkTo, DarkFrom, Buttoned,
     Loaded, add_timer, Handle, NoHandler, unchangedByHandler, button, history
<1>5. ClickInv'
  BY DEF LedType, LedTasks, ContextInv, ClickInv, Buttoned, Loaded, add_timer, Handle, NoHandler,
     unchangedByHandler, button, history
<1> QED
  BY <1>1, <1>2, <1>3, <1>4, <1>5

(* The handler of task2_4 sets one LED.                                    *)
LEMMA ShowLedKeeps ==
    ASSUME LedInv, Loaded, ShowLed
    PROVE  LedInv'
<1> USE LedAssumption DEF LedInv, Led, Dark, Quiet
<1>1. LedType'
  <2>1. task' \in LedTasks /\ ledPc' \in {"none", "init", "run", "stop", "delete", "free", "dead"}
    BY DEF LedType, LedTasks, ShowLed, LightOf, Handle, unchangedByHandler, button, history
  <2>2. ledI' \in Led /\ timers' \in SUBSET Led /\ data' \in {"LIGHTDOWN", "LIGHTUP"}
    BY DEF LedType, ShowLed, LightOf, Handle, unchangedByHandler, button, history
  <2>3. leds' \in [Led -> {0, 1}]
    BY DEF LedType, ShowLed, LightOf, Handle, unchangedByHandler, button, history
  <2>4. soft' \in [at : {"none", "read", "set", "arm", "show"}, led : Led, cur : {0, 1},
                   ptr : {"LIGHTDOWN", "LIGHTUP"}, torn : BOOLEAN]
    <3>1. soft.led \in Led /\ (soft.led # NUM_LED - 1 => soft.led + 1 \in Led)
      BY DEF LedType
    <3>2. CASE soft.led = NUM_LED - 1
      BY <3>2 DEF LedType, ShowLed, Handle
    <3>3. CASE soft.led # NUM_LED - 1
      <4>1. soft' = [soft EXCEPT !.led = soft.led + 1]
        BY <3>3 DEF ShowLed, Handle
      <4> HIDE DEF Led
      <4> QED
        BY <4>1, <3>1, <3>3 DEF LedType
    <3> QED
      BY <3>2, <3>3
  <2>5. irqOn' \in BOOLEAN /\ edge' \in BOOLEAN /\ aged' \in BOOLEAN /\ heldLong' \in BOOLEAN
    BY DEF LedType, ShowLed, LightOf, Handle, unchangedByHandler, button, history
  <2>6. /\ missed' \in BOOLEAN /\ raced' \in BOOLEAN
        /\ stale' \in BOOLEAN /\ racedBefore' \in BOOLEAN
    BY DEF LedType, ShowLed, LightOf, Handle, unchangedByHandler, button, history
  <2>7. level' \in {0, 1} /\ timerActivated' \in {0, 1} /\ counter' \in Nat /\ clicks' \in Nat
    BY DEF LedType, ShowLed, LightOf, Handle, unchangedByHandler, button, history
  <2> QED
    BY <2>1, <2>2, <2>3, <2>4, <2>5, <2>6, <2>7 DEF LedType
<1>2. ContextInv'
  BY DEF LedType, LedTasks, ContextInv, CounterInv, BlinkInv, Still, On, Buttoned, Blinkers,
     Loaded, ShowLed, LightOf, Handle, unchangedByHandler, button, history
<1>3. BlinkInv'
  BY DEF LedType, LedTasks, ContextInv, BlinkInv, Buttoned, Blinkers, Loaded, On, Still,
     BlinkFrom, Handled, ShowLed, LightOf, Handle, unchangedByHandler, button, history
<1>4. CounterInv'
  BY DEF LedType, LedTasks, ContextInv, CounterInv, ShowInv, Lit, DarkTo, DarkFrom, Buttoned,
     Loaded, ShowLed, LightOf, Handle, unchangedByHandler, button, history
<1>5. ClickInv'
  BY DEF LedType, LedTasks, ContextInv, ClickInv, Buttoned, Loaded, ShowLed, LightOf, Handle,
     unchangedByHandler, button, history
<1> QED
  BY <1>1, <1>2, <1>3, <1>4, <1>5

(* task2_1 is removed.                                                     *)
LEMMA TurnOffKeeps ==
    ASSUME LedInv, turnOffLEDS
    PROVE  LedInv'
<1> USE LedAssumption DEF LedInv, Led, Dark, Quiet
<1>1. LedType'
  BY DEF LedType, LedTasks, turnOffLEDS, unchangedByExit, history
<1>2. ContextInv'
  BY DEF LedType, LedTasks, ContextInv, CounterInv, BlinkInv, Still, On, Buttoned, Blinkers,
     Loaded, turnOffLEDS, unchangedByExit, history
<1>3. BlinkInv'
  BY DEF LedType, LedTasks, ContextInv, BlinkInv, Buttoned, Blinkers, Loaded, On, Still,
     BlinkFrom, Handled, turnOffLEDS, unchangedByExit, history
<1>4. CounterInv'
  BY DEF LedType, LedTasks, ContextInv, CounterInv, ShowInv, Lit, DarkTo, DarkFrom, Buttoned,
     Loaded, turnOffLEDS, unchangedByExit, history
<1>5. ClickInv'
  BY DEF LedType, LedTasks, ContextInv, ClickInv, Buttoned, Loaded, turnOffLEDS, unchangedByExit,
     history
<1> QED
  BY <1>1, <1>2, <1>3, <1>4, <1>5

(* The removal of another driver begins.                                   *)
LEMMA ExitKeeps ==
    ASSUME LedInv, bb_module_exit
    PROVE  LedInv'
<1> USE LedAssumption DEF LedInv, Led, Dark, Quiet
<1>1. LedType'
  BY DEF LedType, LedTasks, bb_module_exit, unchangedByExit, history
<1>2. ContextInv'
  BY DEF LedType, LedTasks, ContextInv, CounterInv, BlinkInv, Still, On, Buttoned, Blinkers,
     Loaded, bb_module_exit, unchangedByExit, history
<1>3. BlinkInv'
  BY DEF LedType, LedTasks, ContextInv, BlinkInv, Buttoned, Blinkers, Loaded, On, Still,
     BlinkFrom, Handled, bb_module_exit, unchangedByExit, history
<1>4. CounterInv'
  BY DEF LedType, LedTasks, ContextInv, CounterInv, ShowInv, Lit, DarkTo, DarkFrom, Buttoned,
     Loaded, bb_module_exit, unchangedByExit, history
<1>5. ClickInv'
  BY DEF LedType, LedTasks, ContextInv, ClickInv, Buttoned, Loaded, bb_module_exit,
     unchangedByExit, history
<1> QED
  BY <1>1, <1>2, <1>3, <1>4, <1>5

(* A round of stop_timer.                                                  *)
LEMMA StopTimerKeeps ==
    ASSUME LedInv, stop_timer
    PROVE  LedInv'
<1> USE LedAssumption DEF LedInv, Led, Dark, Quiet
<1>1. LedType'
  BY DEF LedType, LedTasks, stop_timer, DelTimers, unchangedByExit, history
<1>2. ContextInv'
  BY DEF LedType, LedTasks, ContextInv, CounterInv, BlinkInv, Still, On, Buttoned, Blinkers,
     Loaded, stop_timer, DelTimers, unchangedByExit, history
<1>3. BlinkInv'
  <2>1. SUFFICES ASSUME task \in Blinkers, ~ raced PROVE BlinkInv'
    BY DEF BlinkInv, stop_timer, unchangedByExit, history
  <2>2. /\ ledPc = "stop" /\ soft.at = "none" /\ timers' = timers \ {ledI}
        /\ leds' = [leds EXCEPT ![ledI] = 0]
        /\ UNCHANGED <<task, soft, raced, timerActivated>>
    BY <2>1 DEF stop_timer, DelTimers, unchangedByExit, history, Blinkers
  <2>3. On' <=> On
    BY <2>2 DEF On
  <2>4. CASE ~ On
    <3>1. timers = {} /\ leds = Dark
      BY <2>1, <2>2, <2>4 DEF BlinkInv, Still
    <3>2. timers' = {} /\ leds' = Dark
      BY <2>2, <3>1 DEF LedType
    <3> QED
      BY <2>2, <2>3, <2>4, <3>2 DEF BlinkInv, Still, stop_timer
  <2>5. CASE On
    <3>1. timers = {k \in Led : k >= ledI} /\ \A k \in Led : k < ledI => leds[k] = 0
      BY <2>1, <2>2, <2>5 DEF BlinkInv, BlinkFrom, Handled
    <3>2. timers' = {k \in Led : k >= ledI + 1} /\ \A k \in Led : k < ledI + 1 => leds'[k] = 0
      BY <2>2, <3>1 DEF LedType
    <3>3. CASE ledI = NUM_LED - 1
      <4>1. ledPc' = "free"
        BY <2>1, <3>3 DEF stop_timer, Blinkers
      <4>2. timers' = {} /\ \A k \in Led : leds'[k] = 0
        BY <3>2, <3>3
      <4>3. leds' = Dark
        BY <2>2, <4>2 DEF LedType
      <4> QED
        BY <2>2, <4>1, <4>2, <4>3 DEF BlinkInv, Still
    <3>4. CASE ledI # NUM_LED - 1
      <4>1. ledPc' = "stop" /\ ledI' = ledI + 1
        BY <2>2, <3>4 DEF stop_timer
      <4> QED
        BY <2>2, <2>3, <2>5, <3>2, <4>1 DEF BlinkInv, BlinkFrom, Handled
    <3> QED
      BY <3>3, <3>4
  <2> QED
    BY <2>4, <2>5
<1>4. CounterInv'
  BY DEF LedType, LedTasks, ContextInv, CounterInv, ShowInv, Lit, DarkTo, DarkFrom, Buttoned,
     Loaded, stop_timer, DelTimers, unchangedByExit, history
<1>5. ClickInv'
  BY DEF LedType, LedTasks, ContextInv, ClickInv, Buttoned, Loaded, stop_timer, DelTimers,
     unchangedByExit, history
<1> QED
  BY <1>1, <1>2, <1>3, <1>4, <1>5

(* task2_4 deletes its timer.                                              *)
LEMMA DelTimerKeeps ==
    ASSUME LedInv, del_timer
    PROVE  LedInv'
<1> USE LedAssumption DEF LedInv, Led, Dark, Quiet
<1>1. LedType'
  BY DEF LedType, LedTasks, del_timer, unchangedByExit, history
<1>2. ContextInv'
  BY DEF LedType, LedTasks, ContextInv, CounterInv, BlinkInv, Still, On, Buttoned, Blinkers,
     Loaded, del_timer, unchangedByExit, history
<1>3. BlinkInv'
  BY DEF LedType, LedTasks, ContextInv, BlinkInv, Buttoned, Blinkers, Loaded, On, Still,
     BlinkFrom, Handled, del_timer, unchangedByExit, history
<1>4. CounterInv'
  BY DEF LedType, LedTasks, ContextInv, CounterInv, ShowInv, Lit, DarkTo, DarkFrom, Buttoned,
     Loaded, del_timer, unchangedByExit, history
<1>5. ClickInv'
  BY DEF LedType, LedTasks, ContextInv, ClickInv, Buttoned, Loaded, del_timer, unchangedByExit,
     history
<1> QED
  BY <1>1, <1>2, <1>3, <1>4, <1>5

(* The interrupt is freed and the driver is gone.                          *)
LEMMA FreeGpiosKeeps ==
    ASSUME LedInv, free_gpios
    PROVE  LedInv'
<1> USE LedAssumption DEF LedInv, Led, Dark, Quiet
<1>1. LedType'
  <2>1. task' \in LedTasks /\ ledPc' \in {"none", "init", "run", "stop", "delete", "free", "dead"}
    BY DEF LedType, LedTasks, free_gpios, unchangedByExit, history
  <2>2. ledI' \in Led /\ timers' \in SUBSET Led /\ data' \in {"LIGHTDOWN", "LIGHTUP"}
    BY DEF LedType, free_gpios, unchangedByExit, history
  <2>3. leds' \in [Led -> {0, 1}]
    BY DEF LedType, free_gpios, unchangedByExit, history
  <2>4. soft' \in [at : {"none", "read", "set", "arm", "show"}, led : Led, cur : {0, 1},
                   ptr : {"LIGHTDOWN", "LIGHTUP"}, torn : BOOLEAN]
    BY DEF LedType, free_gpios, unchangedByExit, history
  <2>5. irqOn' \in BOOLEAN /\ edge' \in BOOLEAN /\ aged' \in BOOLEAN /\ heldLong' \in BOOLEAN
    BY DEF LedType, free_gpios, unchangedByExit, history
  <2>6. /\ missed' \in BOOLEAN /\ raced' \in BOOLEAN
        /\ stale' \in BOOLEAN /\ racedBefore' \in BOOLEAN
    BY DEF LedType, free_gpios, unchangedByExit, history
  <2>7. level' \in {0, 1} /\ timerActivated' \in {0, 1} /\ counter' \in Nat /\ clicks' \in Nat
    BY DEF LedType, free_gpios, unchangedByExit, history
  <2> QED
    BY <2>1, <2>2, <2>3, <2>4, <2>5, <2>6, <2>7 DEF LedType
<1>2. ContextInv'
  BY DEF LedType, LedTasks, ContextInv, CounterInv, BlinkInv, Still, On, Buttoned, Blinkers,
     Loaded, free_gpios, unchangedByExit, history
<1>3. BlinkInv'
  BY DEF LedType, LedTasks, ContextInv, BlinkInv, Buttoned, Blinkers, Loaded, On, Still,
     BlinkFrom, Handled, free_gpios, unchangedByExit, history
<1>4. CounterInv'
  BY DEF LedType, LedTasks, ContextInv, CounterInv, ShowInv, Lit, DarkTo, DarkFrom, Buttoned,
     Loaded, free_gpios, unchangedByExit, history
<1>5. ClickInv'
  BY DEF LedType, LedTasks, ContextInv, ClickInv, Buttoned, Loaded, free_gpios, unchangedByExit,
     history
<1> QED
  BY <1>1, <1>2, <1>3, <1>4, <1>5

----------------------------------------------------------------------------
(* Every step of a machine, whichever family of modules it loads.          *)
LEMMA LedStep == LedInv /\ [KernelNext]_allVars => LedInv'
<1>1. SUFFICES ASSUME LedInv, [KernelNext]_allVars PROVE LedInv'
  OBVIOUS
<1>2. CASE UNCHANGED ledVars
  BY <1>1, <1>2 DEF ledVars, LedInv, LedType, ContextInv, BlinkInv, CounterInv, ClickInv, Loaded,
     On, Still, Quiet, BlinkFrom, Handled, ShowInv, Lit, DarkTo, DarkFrom
<1>3. CASE LedNext
  BY <1>1, <1>3, InitCounterKeeps, ButtonMovesKeeps, TimePassesKeeps, ToggleBlinkingKeeps,
     ClickCountKeeps, ExpireKeeps, ExpireUnloadedKeeps, ReadLedKeeps, FlipLedKeeps, AddTimerKeeps,
     ShowLedKeeps, TurnOffKeeps, ExitKeeps, StopTimerKeeps, DelTimerKeeps, FreeGpiosKeeps DEF LedNext
<1>4. CASE LedLoad
  BY <1>1, <1>4, LoadingKeeps DEF LedLoad
<1>5. UNCHANGED ledVars \/ LedNext \/ LedLoad
  BY <1>1 DEF KernelNext, allVars, InList, InHw, InPm, InLeds, Halted
<1> QED
  BY <1>2, <1>3, <1>4, <1>5

(* LedInv is inductive, for any number of LEDs and any largest counter: it *)
(* says which timers are pending and which LEDs lit at every point of a    *)
(* handler, a removal and a press, as long as the driver that is loaded    *)
(* has met no race, also with timers of a removed one still pending.       *)
THEOREM LedInvariant == KernelSpec => []LedInv
<1>1. KernelInit => LedInv
  <2>1. SUFFICES ASSUME LedInit PROVE LedInv
    BY DEF KernelInit
  <2>2. LedType
    <3>1. 0 \in Led /\ Dark \in [Led -> {0, 1}]
      BY LedAssumption DEF Led, Dark
    <3>2. NoHandler \in [at : {"none", "read", "set", "arm", "show"}, led : Led, cur : {0, 1},
                         ptr : {"LIGHTDOWN", "LIGHTUP"}, torn : BOOLEAN]
      BY <3>1 DEF NoHandler
    <3> QED
      BY <2>1, <3>1, <3>2 DEF LedInit, LedType, LedTasks
  <2>3. ContextInv /\ BlinkInv /\ CounterInv /\ ClickInv
    BY <2>1 DEF LedInit, ContextInv, BlinkInv, CounterInv, ClickInv, Buttoned, Blinkers, Loaded,
       NoHandler
  <2> QED
    BY <2>2, <2>3 DEF LedInv
<1> QED
  BY <1>1, LedStep, PTL DEF KernelSpec

(* A LED driver that is stopped or removed leaves no timer pending and no  *)
(* LED lit unless a press or an expiry came into its handler or removal,   *)
(* whatever the drivers before it left behind; the machine dies only of    *)
(* such a press.                                                           *)
THEOREM StoppedDriversAreQuiet == KernelSpec => []QuietWhenStopped
<1>1. LedInv => QuietWhenStopped
  <2>1. SUFFICES ASSUME LedInv PROVE QuietWhenStopped
    OBVIOUS
  <2>2. ledPc = "none" /\ ~ raced => Quiet
    <3>1. SUFFICES ASSUME ledPc = "none", ~ raced PROVE Quiet
      OBVIOUS
    <3>2. CASE task = "task2_1"
      BY <2>1, <3>1, <3>2 DEF LedInv, ContextInv, Quiet
    <3>3. CASE task \in Blinkers
      BY <2>1, <3>1, <3>3 DEF LedInv, BlinkInv, Still
    <3>4. CASE task = "task2_4"
      <4>1. timers = {} /\ \A k \in Led : leds[k] = 0
        BY <2>1, <3>1, <3>4, LedAssumption DEF LedInv, CounterInv, DarkTo, Led
      <4>2. leds = Dark
        BY <2>1, <4>1 DEF LedInv, LedType, Dark
      <4> QED
        BY <4>1, <4>2 DEF Quiet
    <3> QED
      BY <2>1, <3>2, <3>3, <3>4 DEF LedInv, LedType, LedTasks, Blinkers
  <2>3. ledPc = "none" /\ task # "task2_3" => timers = {}
    BY <2>1 DEF LedInv, LedType, LedTasks, ContextInv, BlinkInv, CounterInv, Still, Quiet, Blinkers,
       Buttoned
  <2>4. ledPc = "run" /\ task = "task2_2" =>
          timers = Led \ (IF soft.at = "none" THEN {} ELSE {soft.led})
    <3>1. {k \in Led : k >= 0} = Led
      BY LedAssumption DEF Led
    <3> QED
      BY <2>1, <3>1 DEF LedInv, ContextInv, BlinkInv, BlinkFrom, Handled, On, Blinkers, Buttoned
  <2>5. ledPc = "run" /\ task = "task2_3" /\ soft.at = "none" /\ ~ raced =>
          IF timerActivated = 0 THEN Quiet ELSE timers = Led
    <3>1. {k \in Led : k >= 0} = Led
      BY LedAssumption DEF Led
    <3> QED
      BY <2>1, <3>1 DEF LedInv, LedType, BlinkInv, BlinkFrom, Handled, Still, On, Blinkers
  <2>6. (stale => racedBefore) /\ (ledPc = "dead" => (raced /\ task = "task2_3") \/ stale)
    BY <2>1 DEF LedInv, ContextInv
  <2> QED
    BY <2>2, <2>3, <2>4, <2>5, <2>6 DEF QuietWhenStopped
<1> QED
  BY <1>1, LedInvariant, PTL

(* The LEDs of task2_4 show the low bits of the number of clicks, although *)
(* the interrupt counts them one edge late and in the middle of handlers.  *)
THEOREM ClicksAreShown == KernelSpec => []CounterShown
<1>1. LedInv => CounterShown
  <2>1. SUFFICES ASSUME LedInv, task = "task2_4", ledPc = "run" PROVE CounterShown
    BY DEF CounterShown
  <2>2. ShowInv /\ irqOn
    BY <2>1 DEF LedInv, CounterInv, ContextInv, Buttoned, Loaded
  <2>3. soft.at = "none" /\ data = "LIGHTDOWN" => leds = Dark
    <3>1. soft.at = "none" /\ data = "LIGHTDOWN" => \A k \in Led : leds[k] = 0
      BY <2>2, LedAssumption DEF ShowInv, DarkTo, Led
    <3> QED
      BY <2>1, <3>1 DEF LedInv, LedType, Dark
  <2>4. ~ missed /\ ~ edge => counter = clicks
    BY <2>1, <2>2 DEF LedInv, ClickInv
  <2>5. soft.at = "arm" /\ soft.ptr = "LIGHTDOWN" /\ ~ soft.torn =>
          \A k \in Led : leds[k] = 1 <=> Bit(counter, k) = 1
    BY <2>2, LedAssumption DEF ShowInv, Lit, Led
  <2> QED
    BY <2>3, <2>4, <2>5 DEF CounterShown
<1> QED
  BY <1>1, LedInvariant, PTL

----------------------------------------------------------------------------
(* The linked list module: the heap.                                       *)

PoolWords == Sent \cup {0}
Nodes == [next : Nat, v : PoolWords]

IsHeap(h) == IsFiniteSet(DOMAIN h) /\ DOMAIN h \subseteq Nat \ {0} /\ h \in [DOMAIN h -> Nodes]

\* How many nodes hold v.
Copies(h, v) == Cardinality({n \in DOMAIN h : h[n].v = v})

(* A nonempty set of naturals has a least one.                             *)
LEMMA LeastNatural ==
    ASSUME NEW T, T \subseteq Nat, T # {}
    PROVE  \E x \in T : \A y \in T : x <= y
<1>1. PICK R : IsWellFoundedOn(R, Nat) /\ \A x, y \in Nat : <<x, y>> \in R <=> x < y
  <2> DEFINE R == OpToRel(<, Nat)
  <2>1. IsWellFoundedOn(R, Nat)
    BY NatLessThanWellFounded
  <2>2. \A x, y \in Nat : <<x, y>> \in R <=> x < y
    BY DEF OpToRel
  <2> HIDE DEF R
  <2> QED
    BY <2>1, <2>2
<1>2. PICK x \in T : \A y \in T : ~ (<<y, x>> \in R)
  <2>1. IsWellFoundedOn(R, Nat)
    BY <1>1
  <2>2. \A V : V \subseteq Nat /\ V # {} => \E z \in V : \A y \in V : ~ (<<y, z>> \in R)
    BY <2>1, WFMin, Zenon
  <2> QED
    BY <2>2, Zenon
<1>3. ASSUME NEW y \in T PROVE x <= y
  <2>1. x \in Nat /\ y \in Nat /\ ~ (y < x)
    BY <1>1, <1>2
  <2> QED
    BY <2>1
<1> QED
  BY <1>3

(* The allocator finds a node, and one that is not in use.                 *)
LEMMA Allocated ==
    ASSUME IsHeap(heap) PROVE kzalloc \in Nat \ {0} /\ kzalloc \notin DOMAIN heap
<1>1. PICK D : D = DOMAIN heap
  OBVIOUS
<1>2. IsFiniteSet(D) /\ D \subseteq Nat \ {0}
  BY <1>1 DEF IsHeap
<1>3. PICK c \in Nat : c = Cardinality(D)
  BY <1>2, FS_CardinalityType
<1>4. PICK T : T = {n \in Nat \ {0} : n \notin D}
  OBVIOUS
<1>5. T # {}
  <2>1. SUFFICES ASSUME T = {} PROVE FALSE
    OBVIOUS
  <2>2. 1 .. c + 1 \in SUBSET D
    BY <2>1, <1>3, <1>4
  <2>3. Cardinality(1 .. c + 1) <= c
    BY <2>2, <1>2, <1>3, FS_Subset
  <2>4. Cardinality(1 .. c + 1) = c + 1
    BY <1>3, FS_Interval
  <2> QED
    BY <2>3, <2>4, <1>3
<1>6. PICK x \in T : \A y \in T : x <= y
  <2>1. T \subseteq Nat
    BY <1>4
  <2> QED
    BY <2>1, <1>5, LeastNatural
<1>7. x \in Nat \ {0} /\ x \notin D
  BY <1>4
<1>8. 1 .. x - 1 \in SUBSET D
  <2>1. ASSUME NEW y \in 1 .. x - 1, y \notin D PROVE FALSE
    <3>1. y \in T /\ y < x
      BY <2>1, <1>4, <1>7
    <3> QED
      BY <3>1, <1>6, <1>7
  <2> QED
    BY <2>1
<1>9. Cardinality(1 .. x - 1) = x - 1
  BY <1>7, FS_Interval
<1>10. x - 1 <= c
  <2>1. PICK U \in SUBSET D : U = 1 .. x - 1
    BY <1>8
  <2>2. Cardinality(U) <= Cardinality(D)
    BY <1>2, FS_Subset
  <2> QED
    BY <2>1, <2>2, <1>3, <1>9
<1>11. x \in 1 .. c + 1 /\ x \notin D /\ 1 .. x - 1 \subseteq D
  BY <1>7, <1>8, <1>10
<1>12. kzalloc = CHOOSE n \in 1 .. c + 1 : n \notin D /\ 1 .. n - 1 \subseteq D
  BY <1>1, <1>3 DEF kzalloc
<1>13. kzalloc \in 1 .. c + 1 /\ kzalloc \notin D
  BY <1>11, <1>12
<1> QED
  BY <1>1, <1>13

\* The heap g is h with a node n more.
Added(h, g, n, next, w) ==
    /\ IsHeap(g) /\ DOMAIN g = DOMAIN h \cup {n}
    /\ g[n].next = next /\ g[n].v = w /\ \A m \in DOMAIN h : g[m] = h[m]
    /\ Cardinality(DOMAIN g) = Cardinality(DOMAIN h) + 1
    /\ \A v : Copies(g, v) = IF w = v THEN Copies(h, v) + 1 ELSE Copies(h, v)

(* A node more.                                                            *)
LEMMA AddNode ==
    ASSUME NEW h, IsHeap(h), NEW n \in Nat \ {0}, n \notin DOMAIN h,
           NEW next \in Nat, NEW w \in PoolWords, NEW g, g = NewNode(h, n, next, w)
    PROVE  Added(h, g, n, next, w)
<1>1. PICK r \in Nodes : r = [next |-> next, v |-> w] /\ r.next = next /\ r.v = w
  <2>1. [next |-> next, v |-> w] \in Nodes
    BY DEF Nodes
  <2> QED
    BY <2>1
<1>2. g = [x \in DOMAIN h \cup {n} |-> IF x = n THEN r ELSE h[x]]
  BY <1>1 DEF NewNode
<1>3. DOMAIN g = DOMAIN h \cup {n} /\ g[n] = r /\ \A m \in DOMAIN h : g[m] = h[m]
  BY <1>2
<1>4. IsFiniteSet(DOMAIN g) /\ Cardinality(DOMAIN g) = Cardinality(DOMAIN h) + 1
  BY <1>3, FS_AddElement DEF IsHeap
<1>5. IsHeap(g)
  BY <1>2, <1>3, <1>4 DEF IsHeap
<1>6. ASSUME NEW v PROVE Copies(g, v) = IF w = v THEN Copies(h, v) + 1 ELSE Copies(h, v)
  <2>1. PICK S : S = {m \in DOMAIN h : h[m].v = v}
    OBVIOUS
  <2>2. IsFiniteSet(S) /\ n \notin S
    BY <2>1, FS_Subset DEF IsHeap
  <2>3. {m \in DOMAIN g : g[m].v = v} = IF w = v THEN S \cup {n} ELSE S
    BY <1>1, <1>3, <2>1
  <2>4. Cardinality(S \cup {n}) = Cardinality(S) + 1
    BY <2>2, FS_AddElement
  <2> QED
    BY <2>1, <2>3, <2>4 DEF Copies
<1> QED
  BY <1>1, <1>3, <1>4, <1>5, <1>6 DEF Added

\* The heap g is h without its node n.
Freed(h, g, n) ==
    /\ IsHeap(g) /\ DOMAIN g = DOMAIN h \ {n} /\ \A m \in DOMAIN g : g[m] = h[m]
    /\ Cardinality(DOMAIN g) = Cardinality(DOMAIN h) - 1
    /\ \A v : Copies(g, v) = IF h[n].v = v THEN Copies(h, v) - 1 ELSE Copies(h, v)
    /\ Copies(h, h[n].v) \in Nat \ {0}

(* kfree.                                                                  *)
LEMMA FreeNode ==
    ASSUME NEW h, IsHeap(h), NEW n \in DOMAIN h, NEW g, g = kfree(h, n)
    PROVE  Freed(h, g, n)
<1>1. g = [x \in DOMAIN h \ {n} |-> h[x]]
  BY DEF kfree, Restrict
<1>2. DOMAIN g = DOMAIN h \ {n} /\ \A m \in DOMAIN g : g[m] = h[m]
  BY <1>1
<1>3. IsFiniteSet(DOMAIN g) /\ Cardinality(DOMAIN g) = Cardinality(DOMAIN h) - 1
  BY <1>2, FS_RemoveElement DEF IsHeap
<1>4. IsHeap(g)
  BY <1>1, <1>2, <1>3 DEF IsHeap
<1>5. ASSUME NEW v PROVE Copies(g, v) = IF h[n].v = v THEN Copies(h, v) - 1 ELSE Copies(h, v)
  <2>1. PICK S : S = {m \in DOMAIN h : h[m].v = v}
    OBVIOUS
  <2>2. IsFiniteSet(S) /\ (n \in S <=> h[n].v = v)
    BY <2>1, FS_Subset DEF IsHeap
  <2>3. {m \in DOMAIN g : g[m].v = v} = S \ {n}
    BY <1>2, <2>1
  <2>4. Cardinality(S \ {n}) = IF n \in S THEN Cardinality(S) - 1 ELSE Cardinality(S)
    BY <2>2, FS_RemoveElement
  <2> QED
    BY <2>1, <2>2, <2>3, <2>4 DEF Copies
<1>6. Copies(h, h[n].v) \in Nat \ {0}
  <2>1. PICK S : S = {m \in DOMAIN h : h[m].v = h[n].v}
    OBVIOUS
  <2>2. IsFiniteSet(S) /\ n \in S
    BY <2>1, FS_Subset DEF IsHeap
  <2>3. Cardinality(S) \in Nat /\ Cardinality(S) # 0
    BY <2>2, FS_CardinalityType, FS_EmptySet
  <2> QED
    BY <2>1, <2>3 DEF Copies
<1> QED
  BY <1>2, <1>3, <1>4, <1>5, <1>6 DEF Freed

\* The heap g is h, with another pointer in c.
Relinked(h, g, c, x) ==
    /\ IsHeap(g) /\ DOMAIN g = DOMAIN h /\ g[c].next = x
    /\ \A m \in DOMAIN h : g[m].v = h[m].v
    /\ \A m \in DOMAIN h : m # c => g[m] = h[m]
    /\ \A v : Copies(g, v) = Copies(h, v)

(* A pointer is changed.                                                   *)
LEMMA Relink ==
    ASSUME NEW h, IsHeap(h), NEW c \in DOMAIN h, NEW x \in Nat
    PROVE  Relinked(h, [h EXCEPT ![c].next = x], c, x)
<1>1. PICK g : g = [h EXCEPT ![c].next = x]
  OBVIOUS
<1>2. h \in [DOMAIN h -> Nodes] /\ h[c] \in Nodes
  BY DEF IsHeap
<1>3. g = [h EXCEPT ![c] = [h[c] EXCEPT !.next = x]]
  BY <1>1
<1>4. PICK r \in Nodes : r = [h[c] EXCEPT !.next = x] /\ r.next = x /\ r.v = h[c].v
  <2>1. PICK r : r = [h[c] EXCEPT !.next = x]
    OBVIOUS
  <2>2. r \in Nodes /\ r.next = x /\ r.v = h[c].v
    BY <1>2, <2>1 DEF Nodes
  <2> QED
    BY <2>1, <2>2
<1>5. g = [h EXCEPT ![c] = r]
  BY <1>3, <1>4
<1>6. DOMAIN g = DOMAIN h /\ g[c] = r /\ \A m \in DOMAIN h : m # c => g[m] = h[m]
  BY <1>2, <1>5
<1>7. IsHeap(g)
  BY <1>2, <1>5, <1>6 DEF IsHeap
<1>8. \A m \in DOMAIN h : g[m].v = h[m].v
  BY <1>4, <1>6
<1>9. ASSUME NEW v PROVE Copies(g, v) = Copies(h, v)
  <2>1. {m \in DOMAIN g : g[m].v = v} = {m \in DOMAIN h : h[m].v = v}
    BY <1>6, <1>8
  <2> QED
    BY <2>1 DEF Copies
<1>10. Relinked(h, g, c, x)
  BY <1>4, <1>6, <1>7, <1>8, <1>9 DEF Relinked
<1> QED
  BY <1>1, <1>10

----------------------------------------------------------------------------
(* The list: a path through the heap.                                      *)

Path(p, h, first, len) ==
    /\ p \in [0 .. len -> Nat] /\ p[0] = first /\ p[len] = Null
    /\ \A k \in 0 .. len - 1 : p[k] \in DOMAIN h /\ h[p[k]].next = p[k + 1]
    /\ \A j, k \in 0 .. len - 1 : p[j] = p[k] => j = k
    /\ \A n \in DOMAIN h : \E k \in 0 .. len - 1 : p[k] = n

(* The first node and the end of a path.                                   *)
LEMMA PathEnds ==
    ASSUME NEW h, IsHeap(h), NEW p, NEW first, NEW len \in Nat, Path(p, h, first, len)
    PROVE  /\ first \in Nat
           /\ first = Null <=> len = 0
           /\ len = 0 => DOMAIN h = {}
           /\ len > 0 => first \in DOMAIN h
<1>1. p[0] = first /\ p[0] \in Nat
  BY DEF Path
<1>2. CASE len = 0
  <2>1. first = Null /\ DOMAIN h = {}
    BY <1>1, <1>2 DEF Path
  <2> QED
    BY <1>1, <1>2, <2>1
<1>3. CASE len > 0
  <2>1. 0 \in 0 .. len - 1
    BY <1>3
  <2>2. first \in DOMAIN h
    BY <1>1, <2>1 DEF Path
  <2> QED
    BY <1>1, <1>3, <2>2 DEF IsHeap, Null
<1> QED
  BY <1>2, <1>3

\* The heap g is h with n linked in behind c, and h without the node d behind c.
LinkedIn(h, g, c, n) ==
    /\ n \notin DOMAIN h /\ DOMAIN g = DOMAIN h \cup {n}
    /\ g[n].next = h[c].next /\ g[c].next = n
    /\ \A m \in DOMAIN h : m # c => g[m].next = h[m].next

LinkedOut(h, g, c, d) ==
    /\ DOMAIN g = DOMAIN h \ {d} /\ g[c].next = h[d].next
    /\ \A m \in DOMAIN g : m # c => g[m].next = h[m].next

(* A node is linked in behind the j-th.                                    *)
LEMMA PathInsert ==
    ASSUME NEW h, NEW p, NEW first, NEW len \in Nat, Path(p, h, first, len),
           NEW j \in 0 .. len - 1, NEW n \in Nat, NEW g, LinkedIn(h, g, p[j], n)
    PROVE  \E q : Path(q, g, first, len + 1)
<1>1. /\ n \notin DOMAIN h /\ DOMAIN g = DOMAIN h \cup {n}
      /\ g[n].next = h[p[j]].next /\ g[p[j]].next = n
      /\ \A m \in DOMAIN h : m # p[j] => g[m].next = h[m].next
  BY DEF LinkedIn
<1> DEFINE q == [k \in 0 .. len + 1 |-> IF k <= j THEN p[k] ELSE IF k = j + 1 THEN n ELSE p[k - 1]]
<1>2. /\ p \in [0 .. len -> Nat] /\ p[0] = first /\ p[len] = Null
      /\ \A k \in 0 .. len - 1 : p[k] \in DOMAIN h /\ h[p[k]].next = p[k + 1]
      /\ \A a, b \in 0 .. len - 1 : p[a] = p[b] => a = b
      /\ \A m \in DOMAIN h : \E k \in 0 .. len - 1 : p[k] = m
  BY DEF Path
<1>3. q \in [0 .. len + 1 -> Nat] /\ q[0] = first /\ q[len + 1] = Null
  BY <1>2
<1>4. /\ \A k \in 0 .. j : q[k] = p[k]
      /\ q[j + 1] = n
      /\ \A k \in j + 1 .. len : q[k + 1] = p[k]
  <2>1. ASSUME NEW k \in 0 .. j PROVE q[k] = p[k]
    <3>1. k \in 0 .. len + 1 /\ k <= j
      OBVIOUS
    <3> QED
      BY <3>1
  <2>2. q[j + 1] = n
    <3>1. j + 1 \in 0 .. len + 1 /\ ~ (j + 1 <= j)
      OBVIOUS
    <3> QED
      BY <3>1
  <2>3. ASSUME NEW k \in j + 1 .. len PROVE q[k + 1] = p[k]
    <3>1. k + 1 \in 0 .. len + 1 /\ ~ (k + 1 <= j) /\ k + 1 # j + 1 /\ (k + 1) - 1 = k
      OBVIOUS
    <3> QED
      BY <3>1
  <2> QED
    BY <2>1, <2>2, <2>3
<1> HIDE DEF q
<1>5. ASSUME NEW k \in 0 .. len PROVE q[k] \in DOMAIN g /\ g[q[k]].next = q[k + 1]
  <2>1. CASE k < j
    <3>1. k \in 0 .. len - 1 /\ k \in 0 .. j /\ k + 1 \in 0 .. j /\ k # j
      BY <2>1
    <3>2. q[k] = p[k] /\ q[k + 1] = p[k + 1]
      BY <3>1, <1>4
    <3>3. p[k] \in DOMAIN h /\ h[p[k]].next = p[k + 1] /\ p[k] # p[j]
      BY <3>1, <1>2
    <3> QED
      BY <1>1, <3>2, <3>3
  <2>2. CASE k = j
    <3>1. q[j] = p[j] /\ q[j + 1] = n
      BY <1>4
    <3> QED
      BY <1>1, <2>2, <3>1, <1>2
  <2>3. CASE k = j + 1
    <3>1. j + 1 \in j + 1 .. len
      OBVIOUS
    <3>2. q[j + 1] = n /\ q[(j + 1) + 1] = p[j + 1]
      BY <3>1, <1>4
    <3> QED
      BY <1>1, <2>3, <3>2, <1>2
  <2>4. CASE k > j + 1
    <3>1. PICK i \in 0 .. len - 1 : i = k - 1
      <4>1. k - 1 \in 0 .. len - 1
        BY <2>4
      <4> QED
        BY <4>1
    <3>2. i \in j + 1 .. len /\ i + 1 \in j + 1 .. len /\ k = i + 1 /\ i # j
      BY <3>1, <2>4
    <3>3. q[i + 1] = p[i] /\ q[(i + 1) + 1] = p[i + 1]
      BY <3>2, <1>4
    <3>4. p[i] \in DOMAIN h /\ h[p[i]].next = p[i + 1] /\ p[i] # p[j]
      BY <3>2, <1>2
    <3> QED
      BY <1>1, <3>2, <3>3, <3>4
  <2> QED
    BY <2>1, <2>2, <2>3, <2>4
<1>6. ASSUME NEW a \in 0 .. len, NEW b \in 0 .. len, q[a] = q[b] PROVE a = b
  <2>1. ASSUME NEW x \in 0 .. len
        PROVE  \/ x = j + 1 /\ q[x] = n
               \/ \E i \in 0 .. len - 1 : x = (IF i <= j THEN i ELSE i + 1) /\ q[x] = p[i]
    <3>1. CASE x <= j
      <4>1. x \in 0 .. j /\ x \in 0 .. len - 1
        BY <3>1
      <4> QED
        BY <3>1, <4>1, <1>4
    <3>2. CASE x = j + 1
      BY <3>2, <1>4
    <3>3. CASE x > j + 1
      <4>1. x - 1 \in j + 1 .. len /\ x - 1 \in 0 .. len - 1 /\ (x - 1) + 1 = x /\ ~ (x - 1 <= j)
        BY <3>3
      <4>2. q[(x - 1) + 1] = p[x - 1]
        BY <4>1, <1>4
      <4> QED
        BY <4>1, <4>2
    <3> QED
      BY <3>1, <3>2, <3>3
  <2>2. \A i \in 0 .. len - 1 : p[i] # n
    BY <1>1, <1>2
  <2>3. CASE a = j + 1 \/ b = j + 1
    BY <1>6, <2>1, <2>2, <2>3
  <2>4. CASE a # j + 1 /\ b # j + 1
    <3>1. PICK i \in 0 .. len - 1 : a = (IF i <= j THEN i ELSE i + 1) /\ q[a] = p[i]
      BY <2>1, <2>4
    <3>2. PICK k \in 0 .. len - 1 : b = (IF k <= j THEN k ELSE k + 1) /\ q[b] = p[k]
      BY <2>1, <2>4
    <3>3. i = k
      BY <1>2, <1>6, <3>1, <3>2
    <3> QED
      BY <3>1, <3>2, <3>3
  <2> QED
    BY <2>3, <2>4
<1>7. ASSUME NEW m \in DOMAIN g PROVE \E k \in 0 .. len : q[k] = m
  <2>1. CASE m = n
    <3>1. j + 1 \in 0 .. len
      OBVIOUS
    <3> QED
      BY <2>1, <3>1, <1>4
  <2>2. CASE m # n
    <3>1. PICK k \in 0 .. len - 1 : p[k] = m
      BY <1>1, <2>2, <1>2
    <3>2. CASE k <= j
      <4>1. k \in 0 .. len /\ k \in 0 .. j
        BY <3>2
      <4> QED
        BY <3>1, <4>1, <1>4
    <3>3. CASE k > j
      <4>1. k + 1 \in 0 .. len /\ k \in j + 1 .. len
        BY <3>3
      <4>2. q[k + 1] = p[k]
        BY <4>1, <1>4
      <4> QED
        BY <3>1, <4>1, <4>2
    <3> QED
      BY <3>2, <3>3
  <2> QED
    BY <2>1, <2>2
<1>8. (len + 1) - 1 = len
  OBVIOUS
<1>9. Path(q, g, first, len + 1)
  BY <1>3, <1>5, <1>6, <1>7, <1>8 DEF Path
<1> QED
  BY <1>9

(* The node behind the i-th is unlinked.                                   *)
LEMMA PathUnlink ==
    ASSUME NEW h, NEW p, NEW first, NEW len \in Nat, Path(p, h, first, len),
           NEW i \in 0 .. len - 2, NEW g, LinkedOut(h, g, p[i], p[i + 1])
    PROVE  \E q : Path(q, g, first, len - 1)
<1>1. /\ DOMAIN g = DOMAIN h \ {p[i + 1]} /\ g[p[i]].next = h[p[i + 1]].next
      /\ \A m \in DOMAIN g : m # p[i] => g[m].next = h[m].next
  BY DEF LinkedOut
<1> DEFINE q == [k \in 0 .. len - 1 |-> IF k <= i THEN p[k] ELSE p[k + 1]]
           s(x) == IF x <= i THEN x ELSE x + 1
<1>2. /\ p \in [0 .. len -> Nat] /\ p[0] = first /\ p[len] = Null
      /\ \A k \in 0 .. len - 1 : p[k] \in DOMAIN h /\ h[p[k]].next = p[k + 1]
      /\ \A a, b \in 0 .. len - 1 : p[a] = p[b] => a = b
      /\ \A m \in DOMAIN h : \E k \in 0 .. len - 1 : p[k] = m
  BY DEF Path
<1>3. q \in [0 .. len - 1 -> Nat] /\ q[0] = first /\ q[len - 1] = Null
  <2>1. ASSUME NEW k \in 0 .. len - 1 PROVE (IF k <= i THEN p[k] ELSE p[k + 1]) \in Nat
    <3>1. k \in 0 .. len /\ k + 1 \in 0 .. len
      OBVIOUS
    <3> QED
      BY <3>1, <1>2
  <2>2. 0 \in 0 .. len - 1 /\ 0 <= i /\ len - 1 \in 0 .. len - 1 /\ ~ (len - 1 <= i) /\ (len - 1) + 1 = len
    OBVIOUS
  <2> QED
    BY <1>2, <2>1, <2>2
<1>4. \A x \in 0 .. len - 1 : q[x] = p[s(x)]
  OBVIOUS
<1>5. \A x \in 0 .. len - 2 : s(x) \in 0 .. len - 1 /\ s(x) # i + 1 /\ (s(x) = i <=> x = i)
  OBVIOUS
<1>6. i \in 0 .. len - 1 /\ i + 1 \in 0 .. len - 1
  OBVIOUS
<1> HIDE DEF q
<1>7. ASSUME NEW k \in 0 .. len - 2 PROVE q[k] \in DOMAIN g /\ g[q[k]].next = q[k + 1]
  <2>1. k \in 0 .. len - 1 /\ k + 1 \in 0 .. len - 1
    OBVIOUS
  <2>2. q[k] = p[s(k)] /\ q[k + 1] = p[s(k + 1)]
    BY <2>1, <1>4
  <2>3. s(k) \in 0 .. len - 1 /\ s(k) # i + 1 /\ (s(k) = i <=> k = i)
    BY <1>5
  <2>4. CASE k = i
    <3>1. s(k) = i /\ s(k + 1) = (i + 1) + 1
      BY <2>4
    <3>2. p[i] \in DOMAIN g /\ h[p[i + 1]].next = p[(i + 1) + 1]
      BY <1>1, <1>2, <1>6
    <3> QED
      BY <1>1, <2>2, <3>1, <3>2
  <2>5. CASE k # i
    <3>1. s(k + 1) = s(k) + 1
      BY <2>5
    <3> HIDE DEF s
    <3>2. p[s(k)] \in DOMAIN h /\ h[p[s(k)]].next = p[s(k) + 1] /\ p[s(k)] # p[i] /\ p[s(k)] # p[i + 1]
      BY <1>2, <1>6, <2>3, <2>5
    <3> QED
      BY <1>1, <2>2, <3>1, <3>2
  <2> QED
    BY <2>4, <2>5
<1>8. ASSUME NEW a \in 0 .. len - 2, NEW b \in 0 .. len - 2, q[a] = q[b] PROVE a = b
  <2>1. s(a) = s(b)
    <3>1. a \in 0 .. len - 1 /\ b \in 0 .. len - 1
      OBVIOUS
    <3>2. PICK x \in 0 .. len - 1 : x = s(a)
      BY <1>5
    <3>3. PICK y \in 0 .. len - 1 : y = s(b)
      BY <1>5
    <3>4. q[a] = p[x] /\ q[b] = p[y]
      BY <1>4, <3>1, <3>2, <3>3
    <3>5. p[x] = p[y]
      BY <1>8, <3>4
    <3>6. \A c, d \in 0 .. len - 1 : p[c] = p[d] => c = d
      BY <1>2
    <3>7. x = y
      BY <3>5, <3>6
    <3> QED
      BY <3>2, <3>3, <3>7
  <2> QED
    BY <2>1
<1>9. ASSUME NEW m \in DOMAIN g PROVE \E k \in 0 .. len - 2 : q[k] = m
  <2>1. PICK k \in 0 .. len - 1 : p[k] = m
    BY <1>1, <1>2
  <2>2. k # i + 1
    BY <1>1, <2>1
  <2>3. CASE k <= i
    <3>1. k \in 0 .. len - 2 /\ k \in 0 .. len - 1 /\ s(k) = k
      BY <2>3
    <3> HIDE DEF s
    <3> QED
      BY <1>4, <2>1, <3>1
  <2>4. CASE k > i
    <3>1. k - 1 \in 0 .. len - 2 /\ k - 1 \in 0 .. len - 1 /\ s(k - 1) = k
      BY <2>2, <2>4
    <3> HIDE DEF s
    <3> QED
      BY <1>4, <2>1, <3>1
  <2> QED
    BY <2>3, <2>4
<1>10. (len - 1) - 1 = len - 2
  OBVIOUS
<1>11. Path(q, g, first, len - 1)
  BY <1>3, <1>7, <1>8, <1>9, <1>10 DEF Path
<1> QED
  BY <1>11

(* The first node is taken off.                                            *)
LEMMA PathBehead ==
    ASSUME NEW h, NEW p, NEW first, NEW len \in Nat \ {0}, Path(p, h, first, len),
           NEW g, DOMAIN g = DOMAIN h \ {first}, \A m \in DOMAIN g : g[m].next = h[m].next
    PROVE  h[first].next \in Nat /\ \E q : Path(q, g, h[first].next, len - 1)
<1> DEFINE q == [k \in 0 .. len - 1 |-> p[k + 1]]
<1>1. /\ p \in [0 .. len -> Nat] /\ p[0] = first /\ p[len] = Null
      /\ h[first].next = p[1]
  <2>1. 0 \in 0 .. len - 1 /\ 0 + 1 = 1
    OBVIOUS
  <2> QED
    BY <2>1 DEF Path
<1>2. q \in [0 .. len - 1 -> Nat] /\ q[0] = p[1] /\ q[len - 1] = Null
  BY <1>1
<1>3. ASSUME NEW k \in 0 .. len - 2 PROVE q[k] \in DOMAIN g /\ g[q[k]].next = q[k + 1]
  <2>1. /\ k + 1 \in 0 .. len - 1 /\ 0 \in 0 .. len - 1 /\ k + 1 # 0
        /\ q[k] = p[k + 1] /\ q[k + 1] = p[(k + 1) + 1]
    OBVIOUS
  <2>2. p[k + 1] # p[0] /\ p[k + 1] \in DOMAIN h /\ h[p[k + 1]].next = p[(k + 1) + 1]
    BY <2>1 DEF Path
  <2> QED
    BY <1>1, <2>1, <2>2
<1>4. ASSUME NEW j \in 0 .. len - 2, NEW k \in 0 .. len - 2, q[j] = q[k] PROVE j = k
  <2>1. j + 1 \in 0 .. len - 1 /\ k + 1 \in 0 .. len - 1 /\ p[j + 1] = p[k + 1]
    BY <1>4
  <2>2. j + 1 = k + 1
    BY <2>1 DEF Path
  <2> QED
    BY <2>2
<1>5. ASSUME NEW m \in DOMAIN g PROVE \E k \in 0 .. len - 2 : q[k] = m
  <2>1. PICK k \in 0 .. len - 1 : p[k] = m /\ k # 0
    BY <1>1 DEF Path
  <2>2. k - 1 \in 0 .. len - 2 /\ q[k - 1] = p[k]
    BY <2>1
  <2> QED
    BY <2>1, <2>2
<1>6. (len - 1) - 1 = len - 2
  OBVIOUS
<1>7. p[1] \in Nat
  BY <1>1
<1> HIDE DEF q
<1>8. Path(q, g, p[1], len - 1)
  BY <1>2, <1>3, <1>4, <1>5, <1>6 DEF Path
<1> QED
  BY <1>1, <1>7, <1>8

(* A list of one node.                                                     *)
LEMMA PathOne ==
    ASSUME NEW n \in Nat, NEW g, DOMAIN g = {n}, g[n].next = Null
    PROVE  \E q : Path(q, g, n, 1)
<1> DEFINE q == [k \in 0 .. 1 |-> IF k = 0 THEN n ELSE Null]
<1>1. q \in [0 .. 1 -> Nat] /\ q[0] = n /\ q[1] = Null
  BY DEF Null
<1>2. 1 - 1 = 0 /\ \A k \in 0 .. 0 : k = 0
  OBVIOUS
<1> HIDE DEF q
<1>3. Path(q, g, n, 1)
  BY <1>1, <1>2 DEF Path
<1> QED
  BY <1>3

----------------------------------------------------------------------------
(* The inductive invariant of the list and of its callers.                 *)

Replies == PoolWords \cup {-1, 0, 1}

UserRecords ==
    [pc : {"new", "open", "idle", "down", "enter", "walk", "search", "free", "up", "done", "closed"},
     v : PoolWords, cur : Nat, n : Nat, turn : Nat, ret : Replies]

ListType ==
    /\ IsHeap(heap) /\ head \in Nat /\ size \in Nat /\ sem \in {0, 1}
    /\ user \in [ListUsers -> UserRecords]

\* The positions between down and up.
Behind == {"enter", "walk", "search", "free", "up"}

SemInv ==
    /\ \A t \in ListUsers : user[t].pc \in Behind => sem = 0
    /\ \A t, u \in ListUsers : user[t].pc \in Behind /\ user[u].pc \in Behind => t = u

\* Who may be where, and which fields are in use there.
RoleOf(t, r) ==
    /\ r.pc = "walk" => t \in Writers
    /\ r.pc = "search" => t \in Readers
    /\ r.pc = "free" => t \in Closing
    /\ r.pc \notin {"walk", "search", "free"} => r.n = 0
    /\ r.pc # "up" \/ t \in Closing => r.ret = 0

RoleInv == \A t \in ListUsers : RoleOf(t, user[t])

\* main closes the device when its threads have ended.
MainInv == user[Main].pc # "open" => \A t \in Readers \cup Writers : user[t].pc = "done"

\* Where a writer's walk and a reader's search stand on the path p.
CursorOf(p, r) ==
    /\ r.pc = "walk" => \E j \in 0 .. size - 1 : r.cur = p[j] /\ j + r.n < size
    /\ r.pc = "search" =>
           /\ r.n \in 0 .. size - 1 /\ r.cur = p[r.n]
           /\ \A i \in 0 .. r.n : heap[p[i]].v # r.v

Cursors(p) == \A t \in ListUsers : CursorOf(p, user[t])

PathInv ==
    /\ Rest \in Nat /\ Cardinality(DOMAIN heap) = Rest
    /\ \E p : Path(p, heap, First, Rest) /\ Cursors(p)

ListInv == ListType /\ SemInv /\ RoleInv /\ MainInv /\ PathInv

(* The list as a whole, when nobody frees it and when t does.              *)
LEMMA NotFreeing ==
    /\ (\A t \in Closing : user[t].pc # "free") => Freeing = {} /\ First = head /\ Rest = size
    /\ (\A t \in Closing : user'[t].pc # "free") => Freeing' = {} /\ First' = head' /\ Rest' = size'
  BY DEF Freeing, First, Rest, At

(* While t frees the list, what is left begins at its cur.                 *)
LEMMA WhileFreeing ==
    ASSUME NEW t \in Closing
    PROVE  /\ SemInv /\ user[t].pc = "free" =>
                  Freeing = {t} /\ First = user[t].cur /\ Rest = size - user[t].n
           /\ SemInv' /\ user'[t].pc = "free" =>
                  Freeing' = {t} /\ First' = user'[t].cur /\ Rest' = size' - user'[t].n
<1>1. ASSUME SemInv, user[t].pc = "free"
      PROVE  Freeing = {t} /\ First = user[t].cur /\ Rest = size - user[t].n
  <2>1. Freeing = {t}
    BY <1>1 DEF SemInv, Freeing, At, ListUsers, Behind
  <2>2. (CHOOSE x \in Freeing : TRUE) = t
    BY <2>1
  <2> QED
    BY <2>1, <2>2 DEF First, Rest
<1>2. ASSUME SemInv', user'[t].pc = "free"
      PROVE  Freeing' = {t} /\ First' = user'[t].cur /\ Rest' = size' - user'[t].n
  <2>1. Freeing' = {t}
    BY <1>2 DEF SemInv, Freeing, At, ListUsers, Behind
  <2>2. (CHOOSE x \in Freeing' : TRUE) = t
    BY <2>1
  <2> QED
    BY <2>1, <2>2 DEF First, Rest
<1> QED
  BY <1>1, <1>2

(* One thread moves: what the others rely on.                              *)
LEMMA UserMoves ==
    ASSUME ListType, SemInv, RoleInv, MainInv,
           NEW t \in ListUsers, NEW u \in UserRecords, user' = [user EXCEPT ![t] = u],
           RoleOf(t, u), sem' \in {0, 1},
           u.pc \in Behind => sem' = 0 /\ (user[t].pc \in Behind \/ sem = 1),
           sem' = 0 \/ sem' = sem \/ user[t].pc \in Behind,
           t \in Readers \cup Writers => user[t].pc # "done",
           t = Main /\ user[t].pc = "open" => \A r \in Readers \cup Writers : user[r].pc = "done"
    PROVE  /\ user' \in [ListUsers -> UserRecords] /\ SemInv' /\ RoleInv' /\ MainInv'
           /\ user'[t] = u /\ \A x \in ListUsers : x # t => user'[x] = user[x]
<1>1. /\ user' \in [ListUsers -> UserRecords]
      /\ user'[t] = u /\ \A x \in ListUsers : x # t => user'[x] = user[x]
  BY DEF ListType
<1>2. SemInv'
  <2>1. ASSUME NEW x \in ListUsers, user'[x].pc \in Behind PROVE sem' = 0
    BY <1>1, <2>1 DEF SemInv
  <2>2. ASSUME NEW x \in ListUsers, NEW y \in ListUsers,
               user'[x].pc \in Behind, user'[y].pc \in Behind
        PROVE  x = y
    BY <1>1, <2>2 DEF SemInv
  <2> QED
    BY <2>1, <2>2 DEF SemInv
<1>3. RoleInv'
  BY <1>1 DEF RoleInv
<1>4. MainInv'
  <2>1. Main \in ListUsers /\ Readers \cup Writers \subseteq ListUsers /\ Main \notin Readers \cup Writers
    BY ListAssumption DEF ListUsers, Closing
  <2>2. SUFFICES ASSUME user'[Main].pc # "open", NEW r \in Readers \cup Writers
                 PROVE  user'[r].pc = "done"
    BY DEF MainInv
  <2>3. user[r].pc = "done" /\ r # t
    BY <1>1, <2>1, <2>2 DEF MainInv
  <2> QED
    BY <1>1, <2>1, <2>3
<1> QED
  BY <1>1, <1>2, <1>3, <1>4

(* A step that leaves the list and the release of it alone.                *)
LEMMA PathStays ==
    ASSUME ListType, SemInv, SemInv', PathInv, UNCHANGED <<heap, head, size>>,
           NEW t \in ListUsers, user[t].pc # "free", user'[t].pc # "free",
           \A x \in ListUsers : x # t => user'[x] = user[x],
           \A p : Path(p, heap, First, Rest) /\ Cursors(p) => CursorOf(p, user'[t])
    PROVE  PathInv'
<1>1. First' = First /\ Rest' = Rest
  <2>1. Closing \subseteq ListUsers
    BY DEF ListUsers
  <2>2. CASE \A f \in Closing : user[f].pc # "free"
    <3>1. \A f \in Closing : user'[f].pc # "free"
      BY <2>1, <2>2
    <3> QED
      BY <2>2, <3>1, NotFreeing
  <2>3. CASE \E f \in Closing : user[f].pc = "free"
    <3>1. PICK f \in Closing : user[f].pc = "free"
      BY <2>3
    <3>2. f # t /\ user'[f] = user[f]
      BY <2>1, <3>1
    <3> QED
      BY <3>1, <3>2, WhileFreeing
  <2> QED
    BY <2>2, <2>3
<1>2. PICK p : Path(p, heap, First, Rest) /\ Cursors(p)
  BY DEF PathInv
<1>3. \A r : CursorOf(p, r) => CursorOf(p, r)'
  BY DEF CursorOf
<1>4. CursorOf(p, user'[t])
  BY <1>2
<1>5. Cursors(p)'
  <2>1. ASSUME NEW x \in ListUsers PROVE CursorOf(p, user[x])'
    BY <1>2, <1>4, <2>1 DEF Cursors, CursorOf
  <2> QED
    BY <2>1 DEF Cursors
<1>6. Path(p, heap', First', Rest')
  BY <1>1, <1>2
<1> QED
  BY <1>1, <1>5, <1>6 DEF PathInv

(* A step before, after or at the edge of a critical section.              *)
LEMMA OuterStep ==
    ASSUME ListInv, UNCHANGED <<heap, head, size>>,
           NEW t \in ListUsers, NEW u \in UserRecords, user' = [user EXCEPT ![t] = u],
           RoleOf(t, u), sem' \in {0, 1},
           u.pc \in Behind => sem' = 0 /\ (user[t].pc \in Behind \/ sem = 1),
           sem' = 0 \/ sem' = sem \/ user[t].pc \in Behind,
           t \in Readers \cup Writers => user[t].pc # "done",
           t = Main /\ user[t].pc = "open" => \A r \in Readers \cup Writers : user[r].pc = "done",
           user[t].pc # "free", u.pc \notin {"walk", "search", "free"}
    PROVE  ListInv'
<1>1. /\ user' \in [ListUsers -> UserRecords] /\ SemInv' /\ RoleInv' /\ MainInv'
      /\ user'[t] = u /\ \A x \in ListUsers : x # t => user'[x] = user[x]
  BY UserMoves DEF ListInv
<1>2. ListType'
  BY <1>1 DEF ListInv, ListType
<1>3. \A p : CursorOf(p, user'[t])
  BY <1>1 DEF CursorOf
<1>4. PathInv'
  BY <1>1, <1>3, PathStays DEF ListInv
<1> QED
  BY <1>1, <1>2, <1>4 DEF ListInv

(* main creates a thread, and a process closes the device.                 *)
LEMMA CreateKeeps ==
    ASSUME ListInv, NEW t \in ListUsers, pthread_create(t) \/ dummy_release(t)
    PROVE  ListInv'
<1>1. PICK pc \in {"idle", "down"} : user' = [user EXCEPT ![t] = [user[t] EXCEPT !.pc = pc]]
  BY DEF pthread_create, dummy_release, Goto, Set
<1>2. PICK u \in UserRecords : u = [user[t] EXCEPT !.pc = pc]
  BY DEF ListInv, ListType, UserRecords
<1>3. /\ UNCHANGED <<heap, head, size, sem>> /\ user[t].pc \in {"new", "open"}
      /\ t = Main /\ user[t].pc = "open" => \A r \in Readers \cup Writers : user[r].pc = "done"
  BY DEF pthread_create, dummy_release, At
<1>4. u.pc = pc /\ u.n = user[t].n /\ u.ret = user[t].ret
  BY <1>2 DEF ListInv, ListType, UserRecords
<1>5. RoleOf(t, u)
  BY <1>3, <1>4 DEF ListInv, RoleInv, RoleOf
<1> QED
  BY <1>1, <1>2, <1>3, <1>4, <1>5, OuterStep DEF ListInv, ListType, Behind

(* The record of a thread that begins its next turn or ends.               *)
LEMMA TurnEnds ==
    ASSUME NEW r \in UserRecords
    PROVE  /\ NextTurnOf(r) \in UserRecords /\ NextTurnOf(r).pc \in {"done", "idle"}
           /\ NextTurnOf(r).n = r.n /\ NextTurnOf(r).ret = 0
<1>1. PICK pc \in {"done", "idle"} : pc = IF r.turn + 1 = NUMLOOP THEN "done" ELSE "idle"
  OBVIOUS
<1>2. NextTurnOf(r) = [r EXCEPT !.turn = r.turn + 1, !.v = 0, !.ret = 0, !.pc = pc]
  BY <1>1 DEF NextTurnOf
<1>3. r.turn + 1 \in Nat
  BY DEF UserRecords
<1>4. 0 \in PoolWords /\ 0 \in Replies
  BY DEF PoolWords, Replies
<1> QED
  BY <1>2, <1>3, <1>4 DEF UserRecords

(* A reader or a writer begins a turn; a refused write ends it at once.    *)
LEMMA RequestKeeps ==
    ASSUME ListInv, NEW t \in ListUsers, dummy_read(t) \/ dummy_write(t)
    PROVE  ListInv'
<1>1. /\ UNCHANGED <<heap, head, size, sem>> /\ user[t].pc = "idle" /\ t \in Readers \cup Writers
      /\ user[t] \in UserRecords
  BY DEF dummy_read, dummy_write, At, ListInv, ListType
<1>2. PICK v \in Sent : \/ user' = [user EXCEPT ![t] = [user[t] EXCEPT !.v = v, !.pc = "down"]]
                        \/ user' = [user EXCEPT ![t] = NextTurnOf(user[t])]
  BY DEF dummy_read, dummy_write, Set
<1>3. PICK u \in UserRecords : /\ user' = [user EXCEPT ![t] = u] /\ u.pc \in {"down", "done", "idle"}
                               /\ u.n = user[t].n /\ u.ret = 0
  <2>1. user[t].ret = 0
    BY <1>1 DEF ListInv, RoleInv, RoleOf
  <2>2. CASE user' = [user EXCEPT ![t] = [user[t] EXCEPT !.v = v, !.pc = "down"]]
    <3>1. v \in PoolWords
      BY DEF PoolWords
    <3>2. PICK u : u = [user[t] EXCEPT !.v = v, !.pc = "down"]
      OBVIOUS
    <3>3. u \in UserRecords /\ u.pc = "down" /\ u.n = user[t].n /\ u.ret = user[t].ret
      BY <1>1, <3>1, <3>2 DEF UserRecords
    <3> QED
      BY <2>1, <2>2, <3>2, <3>3
  <2>3. CASE user' = [user EXCEPT ![t] = NextTurnOf(user[t])]
    BY <1>1, <2>3, TurnEnds
  <2> QED
    BY <1>2, <2>2, <2>3
<1>4. RoleOf(t, u)
  BY <1>1, <1>3 DEF ListInv, RoleInv, RoleOf
<1>5. t # Main
  BY <1>1, ListAssumption
<1> QED
  BY <1>1, <1>3, <1>4, <1>5, OuterStep DEF ListInv, ListType, Behind

(* The semaphore is taken.                                                 *)
LEMMA DownKeeps ==
    ASSUME ListInv, NEW t \in ListUsers, down(t)
    PROVE  ListInv'
<1>1. /\ UNCHANGED <<heap, head, size>> /\ user[t].pc = "down" /\ sem > 0 /\ sem' = sem - 1
      /\ user[t] \in UserRecords /\ user' = [user EXCEPT ![t] = [user[t] EXCEPT !.pc = "enter"]]
  BY DEF down, At, Goto, Set, ListInv, ListType
<1>2. sem = 1 /\ sem' = 0
  BY <1>1 DEF ListInv, ListType
<1>3. PICK u : u = [user[t] EXCEPT !.pc = "enter"]
  OBVIOUS
<1>4. u \in UserRecords /\ u.pc = "enter" /\ u.n = user[t].n /\ u.ret = user[t].ret
  BY <1>1, <1>3 DEF UserRecords
<1>5. RoleOf(t, u)
  BY <1>1, <1>4 DEF ListInv, RoleInv, RoleOf
<1> QED
  BY <1>1, <1>2, <1>3, <1>4, <1>5, OuterStep DEF Behind

(* The semaphore is given back.                                            *)
LEMMA UpKeeps ==
    ASSUME ListInv, NEW t \in ListUsers, up(t)
    PROVE  ListInv'
<1>1. /\ UNCHANGED <<heap, head, size>> /\ user[t].pc = "up" /\ sem' = sem + 1
      /\ user[t] \in UserRecords
  BY DEF up, At, ListInv, ListType
<1>2. sem = 0 /\ sem' = 1
  BY <1>1 DEF ListInv, SemInv, Behind
<1>3. t \in Closing => t \notin Readers \cup Writers
  BY ListAssumption DEF Closing
<1>4. CASE t \in Closing
  <2>1. user' = [user EXCEPT ![t] = [user[t] EXCEPT !.pc = "closed"]]
    BY <1>4 DEF up, Set
  <2>2. PICK u : u = [user[t] EXCEPT !.pc = "closed"]
    OBVIOUS
  <2>3. u \in UserRecords /\ u.pc = "closed" /\ u.n = user[t].n /\ u.ret = user[t].ret
    BY <1>1, <2>2 DEF UserRecords
  <2>4. RoleOf(t, u)
    BY <1>1, <1>4, <2>3 DEF ListInv, RoleInv, RoleOf
  <2> QED
    BY <1>1, <1>2, <1>3, <1>4, <2>1, <2>2, <2>3, <2>4, OuterStep DEF Behind
<1>5. CASE t \notin Closing
  <2>1. user' = [user EXCEPT ![t] = NextTurnOf(user[t])]
    BY <1>5 DEF up, Set
  <2>2. PICK u \in UserRecords : /\ u = NextTurnOf(user[t]) /\ u.pc \in {"done", "idle"}
                                 /\ u.n = user[t].n /\ u.ret = 0
    BY <1>1, TurnEnds
  <2>3. RoleOf(t, u)
    BY <1>1, <2>2 DEF ListInv, RoleInv, RoleOf
  <2> QED
    BY <1>1, <1>2, <2>1, <2>2, <2>3, OuterStep DEF Behind
<1> QED
  BY <1>4, <1>5

(* Between down and up a thread that does not free has the list for itself. *)
LEMMA OwnerAlone ==
    ASSUME ListInv, NEW t \in ListUsers, user[t].pc \in Behind \ {"free"}
    PROVE  /\ Freeing = {} /\ First = head /\ Rest = size /\ sem = 0
           /\ Cardinality(DOMAIN heap) = size
           /\ \E p : Path(p, heap, head, size) /\ Cursors(p)
<1>1. \A f \in Closing : user[f].pc # "free"
  BY DEF ListInv, SemInv, Behind, ListUsers
<1>2. Freeing = {} /\ First = head /\ Rest = size
  BY <1>1, NotFreeing
<1> QED
  BY <1>2 DEF ListInv, PathInv, SemInv

(* The record of a thread that has done its work.                          *)
LEMMA DoneRecord ==
    ASSUME ListInv, NEW t \in ListUsers, NEW ret \in Replies, t \in Closing => ret = 0, Done(t, ret)
    PROVE  \E u \in UserRecords :
               /\ user' = [user EXCEPT ![t] = u] /\ RoleOf(t, u)
               /\ u.pc = "up" /\ u.v = user[t].v /\ u.ret = ret
<1>1. PICK u : u = [user[t] EXCEPT !.pc = "up", !.ret = ret, !.cur = Null, !.n = 0]
  OBVIOUS
<1>2. user[t] \in UserRecords
  BY DEF ListInv, ListType
<1>3. u \in UserRecords /\ u.pc = "up" /\ u.v = user[t].v /\ u.ret = ret /\ u.n = 0
  BY <1>1, <1>2 DEF UserRecords, Null
<1>4. RoleOf(t, u)
  BY <1>3 DEF RoleOf
<1> QED
  BY <1>1, <1>3, <1>4 DEF Done, Set

(* A step of the walk or of the search that changes no pointer.            *)
LEMMA InnerStep ==
    ASSUME ListInv, UNCHANGED <<heap, head, size, sem>>,
           NEW t \in ListUsers, user[t].pc \in Behind \ {"free"},
           NEW u \in UserRecords, user' = [user EXCEPT ![t] = u],
           RoleOf(t, u), u.pc \in Behind \ {"free"},
           \A p : Path(p, heap, head, size) /\ Cursors(p) => CursorOf(p, u)
    PROVE  ListInv'
<1>1. /\ First = head /\ Rest = size /\ sem = 0
  BY OwnerAlone
<1>2. user[t].pc # "done" /\ user[t].pc # "open"
  BY DEF Behind
<1>3. /\ user' \in [ListUsers -> UserRecords] /\ SemInv' /\ RoleInv' /\ MainInv'
      /\ user'[t] = u /\ \A x \in ListUsers : x # t => user'[x] = user[x]
  BY <1>1, <1>2, UserMoves DEF ListInv, ListType
<1>4. ListType'
  BY <1>3 DEF ListInv, ListType
<1>5. PathInv'
  BY <1>1, <1>3, PathStays DEF ListInv
<1> QED
  BY <1>3, <1>4, <1>5 DEF ListInv

(* A read that finds nothing.                                              *)
LEMMA MissKeeps ==
    ASSUME ListInv, NEW t \in ListUsers, GetEmpty(t) \/ GetNone(t)
    PROVE  ListInv'
<1>1. /\ UNCHANGED <<heap, head, size, sem>> /\ user[t].pc \in {"enter", "search"}
      /\ Done(t, -1) /\ t \in Readers
  BY DEF GetEmpty, GetNone, At, ListInv, RoleInv, RoleOf
<1>2. -1 \in Replies /\ t \notin Closing
  BY <1>1, ListAssumption DEF Replies, Closing
<1>3. PICK u \in UserRecords : user' = [user EXCEPT ![t] = u] /\ RoleOf(t, u) /\ u.pc = "up"
  BY <1>1, <1>2, DoneRecord
<1>4. \A p : CursorOf(p, u)
  BY <1>3 DEF CursorOf
<1> QED
  BY <1>1, <1>3, <1>4, InnerStep DEF Behind

(* A writer draws a position and stands at the head.                       *)
LEMMA PositionKeeps ==
    ASSUME ListInv, NEW t \in ListUsers, AllocPosition(t)
    PROVE  ListInv'
<1>1. /\ UNCHANGED <<heap, head, size, sem>> /\ user[t].pc = "enter" /\ t \in Writers
      /\ user[t] \in UserRecords /\ head \in Nat /\ size \in Nat
  BY DEF AllocPosition, At, ListInv, ListType
<1>2. PICK pos \in 0 .. size - 1 :
          user' = [user EXCEPT ![t] = [user[t] EXCEPT !.pc = "walk", !.cur = head, !.n = pos]]
  BY DEF AllocPosition, Set
<1>3. PICK u : u = [user[t] EXCEPT !.pc = "walk", !.cur = head, !.n = pos]
  OBVIOUS
<1>4. pos \in Nat /\ 0 \in 0 .. size - 1 /\ 0 + pos < size
  BY <1>1, <1>2
<1>5. u \in UserRecords /\ u.pc = "walk" /\ u.cur = head /\ u.n = pos /\ u.ret = user[t].ret
  BY <1>1, <1>3, <1>4 DEF UserRecords
<1>6. RoleOf(t, u)
  BY <1>1, <1>5, ListAssumption DEF ListInv, RoleInv, RoleOf, Closing
<1>7. \A p : Path(p, heap, head, size) => CursorOf(p, u)
  BY <1>4, <1>5 DEF Path, CursorOf
<1> QED
  BY <1>1, <1>2, <1>3, <1>5, <1>6, <1>7, InnerStep DEF Behind

(* A writer goes on to the next node.                                      *)
LEMMA WalkKeeps ==
    ASSUME ListInv, NEW t \in ListUsers, AllocWalk(t)
    PROVE  ListInv'
<1>1. /\ UNCHANGED <<heap, head, size, sem>> /\ user[t].pc = "walk" /\ user[t].n > 0
      /\ user[t] \in UserRecords /\ size \in Nat /\ IsHeap(heap)
      /\ user' = [user EXCEPT ![t] = [user[t] EXCEPT !.n = user[t].n - 1, !.cur = heap[user[t].cur].next]]
  BY DEF AllocWalk, At, Set, ListInv, ListType
<1>2. PICK p : Path(p, heap, head, size) /\ Cursors(p)
  BY <1>1, OwnerAlone DEF Behind
<1>3. \A q : Path(q, heap, head, size) /\ Cursors(q) =>
          \E j \in 0 .. size - 1 : user[t].cur = q[j] /\ j + user[t].n < size
  BY <1>1 DEF Cursors, CursorOf
<1>4. PICK j \in 0 .. size - 1 : user[t].cur = p[j] /\ j + user[t].n < size
  BY <1>2, <1>3
<1>5. PICK x \in Nat : x = heap[user[t].cur].next
  <2>1. p[j] \in DOMAIN heap
    BY <1>2 DEF Path
  <2>2. heap[p[j]] \in Nodes
    BY <1>1, <2>1 DEF IsHeap
  <2> QED
    BY <1>4, <2>2 DEF Nodes
<1>6. PICK m \in Nat : m = user[t].n - 1
  BY <1>1 DEF UserRecords
<1>7. PICK u : u = [user[t] EXCEPT !.n = m, !.cur = x]
  OBVIOUS
<1>8. u \in UserRecords /\ u.pc = "walk" /\ u.cur = x /\ u.n = m /\ u.ret = user[t].ret
  BY <1>1, <1>7 DEF UserRecords
<1>9. RoleOf(t, u)
  BY <1>1, <1>8 DEF ListInv, RoleInv, RoleOf
<1>10. ASSUME NEW q, Path(q, heap, head, size), Cursors(q) PROVE CursorOf(q, u)
  <2>1. PICK i \in 0 .. size - 1 : user[t].cur = q[i] /\ i + user[t].n < size
    BY <1>3, <1>10
  <2>2. x = q[i + 1]
    BY <1>5, <1>10, <2>1 DEF Path
  <2>3. i + 1 \in 0 .. size - 1 /\ (i + 1) + m < size
    BY <1>1, <1>6, <2>1 DEF UserRecords
  <2> QED
    BY <1>8, <2>2, <2>3 DEF CursorOf
<1>11. user' = [user EXCEPT ![t] = u]
  BY <1>1, <1>5, <1>6, <1>7
<1> QED
  BY <1>1, <1>8, <1>9, <1>10, <1>11, InnerStep DEF Behind

(* A reader finds another value at the head and begins to search.          *)
LEMMA SearchKeeps ==
    ASSUME ListInv, NEW t \in ListUsers, GetSearch(t)
    PROVE  ListInv'
<1>1. /\ UNCHANGED <<heap, head, size, sem>> /\ user[t].pc = "enter" /\ t \in Readers
      /\ user[t] \in UserRecords /\ head \in Nat /\ size \in Nat /\ size > 0
      /\ heap[head].v # user[t].v
      /\ user' = [user EXCEPT ![t] = [user[t] EXCEPT !.pc = "search", !.cur = head, !.n = 0]]
  BY DEF GetSearch, At, Set, ListInv, ListType
<1>2. PICK u : u = [user[t] EXCEPT !.pc = "search", !.cur = head, !.n = 0]
  OBVIOUS
<1>3. /\ u \in UserRecords /\ u.pc = "search" /\ u.cur = head /\ u.n = 0 /\ u.ret = user[t].ret
      /\ u.v = user[t].v
  BY <1>1, <1>2 DEF UserRecords
<1>4. RoleOf(t, u)
  BY <1>1, <1>3 DEF ListInv, RoleInv, RoleOf
<1>5. 0 \in 0 .. size - 1 /\ \A i \in 0 .. 0 : i = 0
  BY <1>1
<1>6. ASSUME NEW p, Path(p, heap, head, size) PROVE CursorOf(p, u)
  BY <1>1, <1>3, <1>5, <1>6 DEF Path, CursorOf
<1> QED
  BY <1>1, <1>2, <1>3, <1>4, <1>6, InnerStep DEF Behind

(* Where a searching reader stands.                                        *)
LEMMA SearchStands ==
    ASSUME ListInv, NEW t \in ListUsers, user[t].pc = "search",
           NEW p, Path(p, heap, head, size), Cursors(p)
    PROVE  /\ user[t].n \in 0 .. size - 1 /\ user[t].cur = p[user[t].n]
           /\ \A i \in 0 .. user[t].n : heap[p[i]].v # user[t].v
           /\ user[t].cur \in DOMAIN heap /\ heap[user[t].cur].next = p[user[t].n + 1]
<1>1. /\ user[t].n \in 0 .. size - 1 /\ user[t].cur = p[user[t].n]
      /\ \A i \in 0 .. user[t].n : heap[p[i]].v # user[t].v
  BY DEF Cursors, CursorOf
<1> QED
  BY <1>1 DEF Path

(* A reader goes on to the next node.                                      *)
LEMMA NextKeeps ==
    ASSUME ListInv, NEW t \in ListUsers, GetNext(t)
    PROVE  ListInv'
<1>1. /\ UNCHANGED <<heap, head, size, sem>> /\ user[t].pc = "search"
      /\ user[t] \in UserRecords /\ size \in Nat /\ user[t].n < size - 1
      /\ heap[heap[user[t].cur].next].v # user[t].v
      /\ user' = [user EXCEPT ![t] = [user[t] EXCEPT !.n = user[t].n + 1, !.cur = heap[user[t].cur].next]]
  BY DEF GetNext, MoreNodes, At, Set, ListInv, ListType
<1>2. PICK p : Path(p, heap, head, size) /\ Cursors(p)
  BY <1>1, OwnerAlone DEF Behind
<1>3. PICK m \in Nat : m = user[t].n + 1
  BY <1>1 DEF UserRecords
<1>4. user[t].n \in 0 .. size - 1 /\ m \in 0 .. size - 1 /\ m \in 0 .. size
  BY <1>1, <1>3 DEF UserRecords
<1>5. PICK x \in Nat : x = heap[user[t].cur].next
  <2>1. p[m] \in Nat
    BY <1>2, <1>4 DEF Path
  <2> QED
    BY <1>1, <1>2, <1>3, <2>1, SearchStands
<1>6. PICK u : u = [user[t] EXCEPT !.n = m, !.cur = x]
  OBVIOUS
<1>7. /\ u \in UserRecords /\ u.pc = "search" /\ u.cur = x /\ u.n = m /\ u.ret = user[t].ret
      /\ u.v = user[t].v
  BY <1>1, <1>6 DEF UserRecords
<1>8. RoleOf(t, u)
  BY <1>1, <1>7 DEF ListInv, RoleInv, RoleOf
<1>9. ASSUME NEW q, Path(q, heap, head, size), Cursors(q) PROVE CursorOf(q, u)
  <2>1. x = q[m] /\ \A i \in 0 .. user[t].n : heap[q[i]].v # user[t].v
    BY <1>1, <1>3, <1>5, <1>9, SearchStands
  <2>2. ASSUME NEW i \in 0 .. m PROVE heap[q[i]].v # user[t].v
    <3>1. i \in 0 .. user[t].n \/ i = m
      BY <1>3, <1>4
    <3> QED
      BY <1>1, <1>5, <2>1, <3>1
  <2> QED
    BY <1>4, <1>7, <2>1, <2>2 DEF CursorOf
<1>10. user' = [user EXCEPT ![t] = u]
  BY <1>1, <1>3, <1>5, <1>6
<1> QED
  BY <1>1, <1>7, <1>8, <1>9, <1>10, InnerStep DEF Behind

(* A step that changes the list is the last of its call.                   *)
LEMMA ChangeStep ==
    ASSUME ListInv, NEW t \in ListUsers, user[t].pc \in Behind \ {"free"}, sem' = sem,
           NEW ret \in Replies, t \notin Closing, Done(t, ret),
           IsHeap(heap'), head' \in Nat, size' \in Nat, Cardinality(DOMAIN heap') = size',
           \E q : Path(q, heap', head', size')
    PROVE  ListInv'
<1>1. PICK u \in UserRecords : user' = [user EXCEPT ![t] = u] /\ RoleOf(t, u) /\ u.pc = "up"
  BY DoneRecord
<1>2. sem = 0 /\ user[t].pc # "done" /\ user[t].pc # "open"
  BY OwnerAlone DEF Behind
<1>3. /\ user' \in [ListUsers -> UserRecords] /\ SemInv' /\ RoleInv' /\ MainInv'
      /\ user'[t] = u /\ \A x \in ListUsers : x # t => user'[x] = user[x]
  BY <1>1, <1>2, UserMoves DEF ListInv, ListType, Behind
<1>4. ListType'
  BY <1>2, <1>3 DEF ListInv, ListType
<1>5. \A x \in ListUsers : user'[x].pc \notin {"walk", "search", "free"}
  BY <1>1, <1>3 DEF ListInv, SemInv, Behind
<1>6. First' = head' /\ Rest' = size'
  BY <1>5, NotFreeing DEF ListUsers
<1>7. PICK q : Path(q, heap', head', size')
  OBVIOUS
<1>8. Cursors(q)'
  BY <1>5 DEF Cursors, CursorOf
<1>9. PathInv'
  BY <1>6, <1>7, <1>8 DEF PathInv
<1> QED
  BY <1>3, <1>4, <1>9 DEF ListInv

(* The first node: what the list is afterwards.                            *)
LEMMA HeadEffect ==
    ASSUME ListInv, NEW t \in ListUsers, AllocHead(t)
    PROVE  /\ IsHeap(heap') /\ head' \in Nat /\ size' \in Nat /\ Cardinality(DOMAIN heap') = size'
           /\ \E q : Path(q, heap', head', size')
           /\ \A v : Copies(heap', v) = IF user[t].v = v THEN Copies(heap, v) + 1 ELSE Copies(heap, v)
<1>1. /\ user[t].pc = "enter" /\ t \in Writers /\ head = Null /\ head' = kzalloc
      /\ heap' = NewNode(heap, kzalloc, Null, user[t].v) /\ size' = size + 1
      /\ user[t] \in UserRecords /\ IsHeap(heap) /\ size \in Nat
  BY DEF AllocHead, At, ListInv, ListType
<1>2. /\ Cardinality(DOMAIN heap) = size /\ \E p : Path(p, heap, head, size)
  BY <1>1, OwnerAlone DEF Behind
<1>3. size = 0 /\ DOMAIN heap = {}
  BY <1>1, <1>2, PathEnds
<1>4. PICK n \in Nat \ {0} : n = kzalloc /\ n \notin DOMAIN heap
  BY <1>1, Allocated
<1>5. PICK w \in PoolWords : w = user[t].v
  BY <1>1 DEF UserRecords
<1>6. Null \in Nat
  BY DEF Null
<1>7. PICK h, g : h = heap /\ g = heap' /\ g = NewNode(h, n, Null, w)
  BY <1>1, <1>4, <1>5
<1>8. /\ IsHeap(heap') /\ DOMAIN heap' = DOMAIN heap \cup {n} /\ heap'[n].next = Null
      /\ Cardinality(DOMAIN heap') = Cardinality(DOMAIN heap) + 1
      /\ \A v : Copies(heap', v) = IF w = v THEN Copies(heap, v) + 1 ELSE Copies(heap, v)
  <2>1. IsHeap(h) /\ n \notin DOMAIN h
    BY <1>1, <1>4, <1>7
  <2>2. Added(h, g, n, Null, w)
    BY <2>1, <1>6, <1>7, AddNode
  <2> QED
    BY <1>7, <2>2 DEF Added
<1>9. DOMAIN heap' = {n} /\ Cardinality(DOMAIN heap') = 1 /\ size' = 1
  BY <1>1, <1>2, <1>3, <1>8
<1>10. \E q : Path(q, heap', n, 1)
  BY <1>8, <1>9, PathOne
<1>11. head' = n
  BY <1>1, <1>4
<1> QED
  BY <1>5, <1>8, <1>9, <1>10, <1>11

(* A node behind another: what the list is afterwards.                     *)
LEMMA LinkEffect ==
    ASSUME ListInv, NEW t \in ListUsers, AllocLink(t)
    PROVE  /\ IsHeap(heap') /\ head' \in Nat /\ size' \in Nat /\ Cardinality(DOMAIN heap') = size'
           /\ \E q : Path(q, heap', head', size')
           /\ \A v : Copies(heap', v) = IF user[t].v = v THEN Copies(heap, v) + 1 ELSE Copies(heap, v)
<1>1. /\ user[t].pc = "walk" /\ head' = head /\ size' = size + 1
      /\ user[t] \in UserRecords /\ IsHeap(heap) /\ size \in Nat /\ head \in Nat
      /\ heap' = NewNode([heap EXCEPT ![user[t].cur].next = kzalloc],
                         kzalloc, heap[user[t].cur].next, user[t].v)
  BY DEF AllocLink, At, ListInv, ListType
<1>2. PICK p : Path(p, heap, head, size) /\ Cursors(p) /\ Cardinality(DOMAIN heap) = size
  BY <1>1, OwnerAlone DEF Behind
<1>3. PICK j \in 0 .. size - 1 : user[t].cur = p[j]
  BY <1>1, <1>2 DEF Cursors, CursorOf
<1>4. PICK n \in Nat \ {0} : n = kzalloc /\ n \notin DOMAIN heap
  BY <1>1, Allocated
<1>5. PICK w \in PoolWords : w = user[t].v
  BY <1>1 DEF UserRecords
<1>6. PICK h, g, c : h = heap /\ g = heap' /\ c = p[j]
  OBVIOUS
<1>7. IsHeap(h) /\ c \in DOMAIN h /\ n \notin DOMAIN h
  BY <1>1, <1>2, <1>4, <1>6 DEF Path
<1>8. PICK x \in Nat : x = h[c].next
  BY <1>7 DEF IsHeap, Nodes
<1>9. PICK f : f = [h EXCEPT ![c].next = n] /\ Relinked(h, f, c, n)
  <2>1. n \in Nat
    OBVIOUS
  <2> QED
    BY <1>7, <2>1, Relink
<1>10. g = NewNode(f, n, x, w)
  BY <1>1, <1>3, <1>4, <1>5, <1>6, <1>8, <1>9
<1>11. IsHeap(f) /\ n \notin DOMAIN f
  BY <1>7, <1>9 DEF Relinked
<1>12. Added(f, g, n, x, w)
  BY <1>10, <1>11, AddNode
<1>13. LinkedIn(h, g, p[j], n) /\ IsHeap(g) /\ Cardinality(DOMAIN g) = size + 1
  BY <1>2, <1>6, <1>7, <1>8, <1>9, <1>12 DEF LinkedIn, Added, Relinked
<1>14. \E q : Path(q, g, head, size + 1)
  <2>1. Path(p, h, head, size) /\ n \in Nat
    BY <1>2, <1>6
  <2> QED
    BY <1>1, <1>13, <2>1, PathInsert
<1>15. \A v : Copies(heap', v) = IF user[t].v = v THEN Copies(heap, v) + 1 ELSE Copies(heap, v)
  BY <1>5, <1>6, <1>9, <1>12 DEF Added, Relinked
<1>16. size' \in Nat
  BY <1>1
<1> QED
  BY <1>1, <1>6, <1>13, <1>14, <1>15, <1>16

(* A write.                                                                *)
LEMMA AllocKeeps ==
    ASSUME ListInv, NEW t \in ListUsers, AllocHead(t) \/ AllocLink(t)
    PROVE  ListInv'
<1>1. /\ user[t].pc \in {"enter", "walk"} /\ t \in Writers /\ Done(t, 1) /\ sem' = sem
  BY DEF AllocHead, AllocLink, At, ListInv, RoleInv, RoleOf
<1>2. t \notin Closing /\ 1 \in Replies
  BY <1>1, ListAssumption DEF Closing, Replies
<1>3. user[t].pc \in Behind \ {"free"}
  BY <1>1 DEF Behind
<1>4. /\ IsHeap(heap') /\ head' \in Nat /\ size' \in Nat /\ Cardinality(DOMAIN heap') = size'
      /\ \E q : Path(q, heap', head', size')
  BY HeadEffect, LinkEffect
<1> QED
  BY <1>1, <1>2, <1>3, <1>4, ChangeStep

(* The head is taken: what the list is afterwards.                         *)
LEMMA TakeHeadEffect ==
    ASSUME ListInv, NEW t \in ListUsers, GetHead(t)
    PROVE  /\ IsHeap(heap') /\ head' \in Nat /\ size' \in Nat /\ Cardinality(DOMAIN heap') = size'
           /\ \E q : Path(q, heap', head', size')
           /\ \A v : Copies(heap', v) = IF user[t].v = v THEN Copies(heap, v) - 1 ELSE Copies(heap, v)
           /\ Copies(heap, user[t].v) \in Nat \ {0}
<1>1. /\ user[t].pc = "enter" /\ head' = heap[head].next /\ heap' = kfree(heap, head)
      /\ size > 0 /\ size' = size - 1 /\ heap[head].v = user[t].v
      /\ IsHeap(heap) /\ size \in Nat /\ head \in Nat
  BY DEF GetHead, At, ListInv, ListType
<1>2. PICK p : Path(p, heap, head, size) /\ Cardinality(DOMAIN heap) = size
  BY <1>1, OwnerAlone DEF Behind
<1>3. PICK h, g, c : h = heap /\ g = heap' /\ c = head
  OBVIOUS
<1>4. IsHeap(h) /\ c \in DOMAIN h /\ g = kfree(h, c) /\ Path(p, h, c, size) /\ size \in Nat \ {0}
  BY <1>1, <1>2, <1>3, PathEnds
<1>5. Freed(h, g, c)
  BY <1>4, FreeNode
<1>6. h[c].next \in Nat /\ \E q : Path(q, g, h[c].next, size - 1)
  <2>1. DOMAIN g = DOMAIN h \ {c} /\ \A m \in DOMAIN g : g[m].next = h[m].next
    BY <1>5 DEF Freed
  <2> QED
    BY <1>4, <2>1, PathBehead
<1>7. Cardinality(DOMAIN heap') = size' /\ size' \in Nat
  BY <1>1, <1>2, <1>3, <1>5 DEF Freed
<1>8. /\ \A v : Copies(heap', v) = IF user[t].v = v THEN Copies(heap, v) - 1 ELSE Copies(heap, v)
      /\ Copies(heap, user[t].v) \in Nat \ {0}
  BY <1>1, <1>3, <1>5 DEF Freed
<1>9. IsHeap(heap')
  BY <1>3, <1>5 DEF Freed
<1> QED
  BY <1>1, <1>3, <1>6, <1>7, <1>8, <1>9

(* The node behind cur is taken: what the list is afterwards.              *)
LEMMA UnlinkEffect ==
    ASSUME ListInv, NEW t \in ListUsers, GetUnlink(t)
    PROVE  /\ IsHeap(heap') /\ head' \in Nat /\ size' \in Nat /\ Cardinality(DOMAIN heap') = size'
           /\ \E q : Path(q, heap', head', size')
           /\ \A v : Copies(heap', v) = IF user[t].v = v THEN Copies(heap, v) - 1 ELSE Copies(heap, v)
           /\ Copies(heap, user[t].v) \in Nat \ {0}
<1>1. /\ user[t].pc = "search" /\ head' = head /\ size' = size - 1 /\ user[t].n < size - 1
      /\ user[t] \in UserRecords /\ IsHeap(heap) /\ size \in Nat /\ head \in Nat
  BY DEF GetUnlink, MoreNodes, At, ListInv, ListType
<1>2. PICK p : Path(p, heap, head, size) /\ Cursors(p) /\ Cardinality(DOMAIN heap) = size
  BY <1>1, OwnerAlone DEF Behind
<1>3. PICK i \in 0 .. size - 2 : i = user[t].n
  BY <1>1 DEF UserRecords
<1>4. PICK h, g, c, d : h = heap /\ g = heap' /\ c = p[i] /\ d = p[i + 1]
  OBVIOUS
<1>5. i \in 0 .. size - 1 /\ i + 1 \in 0 .. size - 1 /\ i # i + 1
  BY <1>1
<1>6. IsHeap(h) /\ c \in DOMAIN h /\ d \in DOMAIN h /\ c # d /\ h[c].next = d
  BY <1>1, <1>2, <1>4, <1>5 DEF Path
<1>7. c = user[t].cur
  BY <1>1, <1>2, <1>3, <1>4, SearchStands
<1>8. h[d].v = user[t].v /\ g = kfree([h EXCEPT ![c].next = h[d].next], d)
  BY <1>4, <1>6, <1>7 DEF GetUnlink
<1>9. PICK x \in Nat : x = h[d].next
  BY <1>6 DEF IsHeap, Nodes
<1>10. PICK f : f = [h EXCEPT ![c].next = x] /\ Relinked(h, f, c, x)
  BY <1>6, Relink
<1>11. g = kfree(f, d) /\ d \in DOMAIN f /\ IsHeap(f) /\ f[d].v = user[t].v
  BY <1>6, <1>8, <1>9, <1>10 DEF Relinked
<1>12. Freed(f, g, d)
  BY <1>11, FreeNode
<1>13. LinkedOut(h, g, p[i], p[i + 1]) /\ IsHeap(g) /\ Cardinality(DOMAIN g) = size - 1
  BY <1>2, <1>4, <1>6, <1>9, <1>10, <1>12 DEF LinkedOut, Freed, Relinked
<1>14. \E q : Path(q, g, head, size - 1)
  <2>1. Path(p, h, head, size)
    BY <1>2, <1>4
  <2> QED
    BY <1>1, <1>13, <2>1, PathUnlink
<1>15. /\ \A v : Copies(heap', v) = IF user[t].v = v THEN Copies(heap, v) - 1 ELSE Copies(heap, v)
       /\ Copies(heap, user[t].v) \in Nat \ {0}
  <2>1. \A v : Copies(f, v) = Copies(heap, v)
    BY <1>4, <1>10 DEF Relinked
  <2>2. /\ \A v : Copies(g, v) = IF f[d].v = v THEN Copies(f, v) - 1 ELSE Copies(f, v)
        /\ Copies(f, f[d].v) \in Nat \ {0}
    BY <1>12 DEF Freed
  <2> QED
    BY <1>4, <1>11, <2>1, <2>2
<1>16. size' \in Nat
  BY <1>1, <1>5
<1> QED
  BY <1>1, <1>4, <1>13, <1>14, <1>15, <1>16

(* A read that finds its value.                                            *)
LEMMA TakeKeeps ==
    ASSUME ListInv, NEW t \in ListUsers, GetHead(t) \/ GetUnlink(t)
    PROVE  ListInv'
<1>1. user[t].pc \in {"enter", "search"} /\ t \in Readers /\ Done(t, user[t].v) /\ sem' = sem
  BY DEF GetHead, GetUnlink, At, ListInv, RoleInv, RoleOf
<1>2. t \notin Closing /\ user[t].v \in Replies
  BY <1>1, ListAssumption DEF Closing, Replies, ListInv, ListType, UserRecords
<1>3. user[t].pc \in Behind \ {"free"}
  BY <1>1 DEF Behind
<1>4. /\ IsHeap(heap') /\ head' \in Nat /\ size' \in Nat /\ Cardinality(DOMAIN heap') = size'
      /\ \E q : Path(q, heap', head', size')
  BY TakeHeadEffect, UnlinkEffect
<1> QED
  BY <1>1, <1>2, <1>3, <1>4, ChangeStep

(* A closing process begins to free the list at its head.                  *)
LEMMA FirstKeeps ==
    ASSUME ListInv, NEW t \in ListUsers, ReleaseFirst(t)
    PROVE  ListInv'
<1>1. /\ UNCHANGED <<heap, head, size, sem>> /\ user[t].pc = "enter" /\ t \in Closing
      /\ user[t] \in UserRecords /\ head \in Nat /\ size \in Nat
      /\ user' = [user EXCEPT ![t] = [user[t] EXCEPT !.pc = "free", !.cur = head]]
  BY DEF ReleaseFirst, At, Set, ListInv, ListType
<1>2. PICK u : u = [user[t] EXCEPT !.pc = "free", !.cur = head]
  OBVIOUS
<1>3. user[t].n = 0 /\ user[t].ret = 0
  BY <1>1 DEF ListInv, RoleInv, RoleOf
<1>4. u \in UserRecords /\ u.pc = "free" /\ u.cur = head /\ u.n = 0 /\ u.ret = 0
  BY <1>1, <1>2, <1>3 DEF UserRecords
<1>5. RoleOf(t, u)
  BY <1>1, <1>4 DEF RoleOf
<1>6. user[t].pc \in Behind \ {"free"} /\ t \notin Readers \cup Writers
  BY <1>1, ListAssumption DEF Behind, Closing
<1>7. sem = 0 /\ Cardinality(DOMAIN heap) = size /\ \E p : Path(p, heap, head, size)
  BY <1>6, OwnerAlone
<1>8. /\ user' \in [ListUsers -> UserRecords] /\ SemInv' /\ RoleInv' /\ MainInv'
      /\ user'[t] = u /\ \A x \in ListUsers : x # t => user'[x] = user[x]
  BY <1>1, <1>2, <1>4, <1>5, <1>6, <1>7, UserMoves DEF ListInv, Behind
<1>9. ListType'
  BY <1>1, <1>8 DEF ListInv, ListType
<1>10. First' = head /\ Rest' = size
  <2>1. First' = user'[t].cur /\ Rest' = size' - user'[t].n
    BY <1>1, <1>4, <1>8, WhileFreeing
  <2> QED
    BY <1>1, <1>4, <1>8, <2>1
<1>11. \A x \in ListUsers : user'[x].pc \notin {"walk", "search"}
  BY <1>4, <1>8 DEF SemInv, Behind
<1>12. PICK p : Path(p, heap, head, size)
  BY <1>7
<1>13. Cursors(p)'
  BY <1>11 DEF Cursors, CursorOf
<1>14. PathInv'
  BY <1>1, <1>7, <1>10, <1>12, <1>13 DEF PathInv
<1> QED
  BY <1>8, <1>9, <1>14 DEF ListInv

(* What is left of the list while t frees it.                              *)
LEMMA FreerAlone ==
    ASSUME ListInv, NEW t \in ListUsers, user[t].pc = "free"
    PROVE  /\ t \in Closing /\ t \notin Readers \cup Writers /\ Freeing = {t} /\ sem = 0
           /\ size - user[t].n \in Nat /\ Cardinality(DOMAIN heap) = size - user[t].n
           /\ \E p : Path(p, heap, user[t].cur, size - user[t].n)
<1>1. t \in Closing
  BY DEF ListInv, RoleInv, RoleOf
<1>2. Freeing = {t} /\ First = user[t].cur /\ Rest = size - user[t].n
  BY <1>1, WhileFreeing DEF ListInv
<1>3. sem = 0
  BY DEF ListInv, SemInv, Behind
<1>4. t \notin Readers \cup Writers
  BY <1>1, ListAssumption DEF Closing
<1> QED
  BY <1>1, <1>2, <1>3, <1>4 DEF ListInv, PathInv

(* A node is freed.                                                        *)
LEMMA ReleaseKeeps ==
    ASSUME ListInv, NEW t \in ListUsers, ReleaseNode(t)
    PROVE  ListInv'
<1>1. /\ UNCHANGED <<head, size, sem>> /\ user[t].pc = "free" /\ user[t].n < size
      /\ user[t] \in UserRecords /\ IsHeap(heap) /\ size \in Nat
      /\ heap' = kfree(heap, user[t].cur)
      /\ user' = [user EXCEPT ![t] = [user[t] EXCEPT !.cur = heap[user[t].cur].next, !.n = user[t].n + 1]]
  BY DEF ReleaseNode, At, Set, ListInv, ListType
<1>2. /\ t \in Closing /\ t \notin Readers \cup Writers /\ sem = 0
      /\ size - user[t].n \in Nat /\ Cardinality(DOMAIN heap) = size - user[t].n
      /\ \E p : Path(p, heap, user[t].cur, size - user[t].n)
  BY <1>1, FreerAlone
<1>3. PICK len \in Nat \ {0} : len = size - user[t].n
  BY <1>1, <1>2 DEF UserRecords
<1>4. PICK h, g, c : h = heap /\ g = heap' /\ c = user[t].cur
  OBVIOUS
<1>5. PICK p : Path(p, h, c, len)
  BY <1>2, <1>3, <1>4
<1>6. IsHeap(h) /\ c \in DOMAIN h /\ g = kfree(h, c)
  BY <1>1, <1>3, <1>4, <1>5, PathEnds
<1>7. Freed(h, g, c)
  BY <1>6, FreeNode
<1>8. h[c].next \in Nat /\ \E q : Path(q, g, h[c].next, len - 1)
  <2>1. DOMAIN g = DOMAIN h \ {c} /\ \A m \in DOMAIN g : g[m].next = h[m].next
    BY <1>7 DEF Freed
  <2> QED
    BY <1>5, <2>1, PathBehead
<1>9. PICK x \in Nat : x = h[c].next
  BY <1>8
<1>10. PICK m \in Nat : m = user[t].n + 1
  BY <1>1 DEF UserRecords
<1>11. PICK u : u = [user[t] EXCEPT !.cur = x, !.n = m]
  OBVIOUS
<1>12. u \in UserRecords /\ u.pc = "free" /\ u.cur = x /\ u.n = m /\ u.ret = user[t].ret
  BY <1>1, <1>11 DEF UserRecords
<1>13. user' = [user EXCEPT ![t] = u]
  BY <1>1, <1>4, <1>9, <1>10, <1>11
<1>14. RoleOf(t, u)
  BY <1>1, <1>2, <1>12 DEF ListInv, RoleInv, RoleOf
<1>15. user[t].pc \in Behind
  BY <1>1 DEF Behind
<1>16. /\ user' \in [ListUsers -> UserRecords] /\ SemInv' /\ RoleInv' /\ MainInv'
       /\ user'[t] = u /\ \A y \in ListUsers : y # t => user'[y] = user[y]
  BY <1>1, <1>2, <1>12, <1>13, <1>14, <1>15, UserMoves DEF ListInv
<1>17. ListType'
  BY <1>1, <1>4, <1>7, <1>16 DEF ListInv, ListType, Freed
<1>18. First' = x /\ Rest' = len - 1
  <2>1. First' = user'[t].cur /\ Rest' = size' - user'[t].n
    BY <1>2, <1>12, <1>16, WhileFreeing
  <2> QED
    BY <1>1, <1>3, <1>10, <1>12, <1>16, <2>1 DEF UserRecords
<1>19. \A y \in ListUsers : user'[y].pc \notin {"walk", "search"}
  BY <1>12, <1>16 DEF SemInv, Behind
<1>20. PICK q : Path(q, heap', x, len - 1)
  BY <1>4, <1>8, <1>9
<1>21. Cursors(q)'
  BY <1>19 DEF Cursors, CursorOf
<1>22. Cardinality(DOMAIN heap') = len - 1 /\ len - 1 \in Nat
  BY <1>2, <1>3, <1>4, <1>7 DEF Freed
<1>23. PathInv'
  BY <1>18, <1>20, <1>21, <1>22 DEF PathInv
<1> QED
  BY <1>16, <1>17, <1>23 DEF ListInv

(* The list is freed.                                                      *)
LEMMA ReleaseEndKeeps ==
    ASSUME ListInv, NEW t \in ListUsers, ReleaseEnd(t)
    PROVE  ListInv' /\ DOMAIN heap = {}
<1>1. /\ UNCHANGED <<heap, sem>> /\ user[t].pc = "free" /\ user[t].n = size
      /\ IsHeap(heap) /\ size \in Nat /\ size' = 0 /\ head' = Null /\ Done(t, 0)
  BY DEF ReleaseEnd, At, ListInv, ListType
<1>2. /\ t \in Closing /\ t \notin Readers \cup Writers /\ sem = 0
      /\ size - user[t].n \in Nat /\ Cardinality(DOMAIN heap) = size - user[t].n
      /\ \E p : Path(p, heap, user[t].cur, size - user[t].n)
  BY <1>1, FreerAlone
<1>3. size - user[t].n = 0
  BY <1>1
<1>4. PICK p : Path(p, heap, user[t].cur, 0)
  BY <1>2, <1>3
<1>5. user[t].cur = Null /\ DOMAIN heap = {}
  BY <1>1, <1>4, PathEnds
<1>6. PICK u \in UserRecords : user' = [user EXCEPT ![t] = u] /\ RoleOf(t, u) /\ u.pc = "up"
  <2>1. 0 \in Replies
    BY DEF Replies
  <2> QED
    BY <1>1, <2>1, DoneRecord
<1>7. user[t].pc \in Behind
  BY <1>1 DEF Behind
<1>8. /\ user' \in [ListUsers -> UserRecords] /\ SemInv' /\ RoleInv' /\ MainInv'
      /\ user'[t] = u /\ \A y \in ListUsers : y # t => user'[y] = user[y]
  BY <1>1, <1>2, <1>6, <1>7, UserMoves DEF ListInv
<1>9. ListType'
  BY <1>1, <1>8 DEF ListInv, ListType, Null
<1>10. \A y \in ListUsers : user'[y].pc \notin {"walk", "search", "free"}
  BY <1>6, <1>7, <1>8 DEF ListInv, SemInv, Behind
<1>11. First' = head' /\ Rest' = size'
  BY <1>10, NotFreeing DEF ListUsers
<1>12. Cursors(p)'
  BY <1>10 DEF Cursors, CursorOf
<1>13. PathInv'
  BY <1>1, <1>2, <1>3, <1>4, <1>5, <1>11, <1>12 DEF PathInv
<1> QED
  BY <1>5, <1>8, <1>9, <1>13 DEF ListInv

(* A module that has just been loaded.                                     *)
LEMMA ListLoaded == ListInit => ListInv
<1>1. SUFFICES ASSUME ListInit PROVE ListInv
  OBVIOUS
<1>2. /\ heap = << >> /\ head = 0 /\ size = 0 /\ sem = 1 /\ user = [t \in ListUsers |-> Fresh(t)]
  BY <1>1 DEF ListInit, Null
<1>3. IsHeap(heap) /\ DOMAIN heap = {} /\ Cardinality(DOMAIN heap) = 0
  <2>1. DOMAIN heap = {}
    BY <1>2
  <2>2. heap \in [DOMAIN heap -> Nodes]
    BY <1>2
  <2> QED
    BY <2>1, <2>2, FS_EmptySet DEF IsHeap
<1>4. ASSUME NEW t \in ListUsers
      PROVE  /\ Fresh(t) \in UserRecords /\ Fresh(t).pc \in {"new", "open"} /\ Fresh(t).n = 0
             /\ Fresh(t).ret = 0 /\ (t \in Closing => Fresh(t).pc = "open")
  BY DEF Fresh, UserRecords, PoolWords, Replies, Null
<1>5. ListType
  BY <1>2, <1>3, <1>4 DEF ListType
<1>6. \A t \in ListUsers : user[t] = Fresh(t)
  BY <1>2
<1>7. SemInv /\ RoleInv
  BY <1>4, <1>6 DEF SemInv, RoleInv, RoleOf, Behind
<1>8. MainInv
  <2>1. Main \in ListUsers /\ Main \in Closing
    BY DEF ListUsers, Closing
  <2> QED
    BY <1>4, <1>6, <2>1 DEF MainInv
<1>9. First = 0 /\ Rest = 0
  <2>1. \A t \in Closing : user[t].pc # "free"
    BY <1>4, <1>6 DEF ListUsers
  <2> QED
    BY <1>2, <2>1, NotFreeing
<1>10. PICK p : p = [k \in 0 .. 0 |-> 0]
  OBVIOUS
<1>11. Path(p, heap, 0, 0)
  BY <1>3, <1>10 DEF Path, Null
<1>12. Cursors(p)
  BY <1>4, <1>6 DEF Cursors, CursorOf
<1>13. PathInv
  BY <1>3, <1>9, <1>11, <1>12 DEF PathInv
<1> QED
  BY <1>5, <1>7, <1>8, <1>13 DEF ListInv

(* The module is removed and loaded again.                                 *)
LEMMA ReloadKeeps == dummy_exit => ListInv'
<1>1. dummy_exit => ListInit'
  BY DEF dummy_exit, ListInit, Fresh, ListUsers
<1>2. ListInit' => ListInv'
  BY ListLoaded, PTL
<1> QED
  BY <1>1, <1>2

(* ListInv is inductive.                                                   *)
LEMMA ListInvStep == ListInv /\ [KernelNext]_allVars => ListInv'
<1>1. SUFFICES ASSUME ListInv, [KernelNext]_allVars PROVE ListInv'
  OBVIOUS
<1>2. CASE UNCHANGED listVars
  <2>1. heap' = heap /\ head' = head /\ size' = size /\ sem' = sem /\ user' = user
    BY <1>2 DEF listVars
  <2>2. ListType' /\ SemInv' /\ RoleInv' /\ MainInv'
    BY <1>1, <2>1 DEF ListInv, ListType, SemInv, RoleInv, MainInv
  <2>3. First' = First /\ Rest' = Rest
    BY <2>1 DEF First, Rest, Freeing, At
  <2>4. \A p : Cursors(p)' = Cursors(p)
    BY <2>1 DEF Cursors, CursorOf
  <2>5. PathInv'
    BY <1>1, <2>1, <2>3, <2>4 DEF ListInv, PathInv
  <2> QED
    BY <2>2, <2>5 DEF ListInv
<1>3. CASE ListNext
  BY <1>1, <1>3, CreateKeeps, RequestKeeps, DownKeeps, UpKeeps, AllocKeeps, PositionKeeps,
     WalkKeeps,
     MissKeeps, TakeKeeps, SearchKeeps, NextKeeps, FirstKeeps, ReleaseKeeps, ReleaseEndKeeps
     DEF ListNext, ListStep
<1>4. CASE dummy_exit
  BY <1>4, ReloadKeeps
<1>5. UNCHANGED listVars \/ ListNext \/ dummy_exit
  BY <1>1 DEF KernelNext, allVars, InList, InHw, InPm, InLeds
<1> QED
  BY <1>2, <1>3, <1>4, <1>5

(* The inductive invariant of the list.                                    *)
THEOREM ListInvariant == KernelSpec => []ListInv
<1>1. KernelInit => ListInv
  BY ListLoaded DEF KernelInit
<1> QED
  BY <1>1, ListInvStep, PTL DEF KernelSpec

(* Following next from First is walking along the path, and the only way   *)
(* to follow it.                                                           *)
LEMMA ReachedIsPath ==
    ASSUME NEW p, Path(p, heap, First, Rest), Rest \in Nat
    PROVE  \A k \in 0 .. Rest : Reached[k] = p[k]
<1>1. PICK N \in Nat : N = Rest
  OBVIOUS
<1>2. PICK z : z = First
  OBVIOUS
<1> DEFINE Solves(f) == f = [k \in 0 .. N |-> IF k = 0 THEN z
                             ELSE IF f[k - 1] \in DOMAIN heap THEN heap[f[k - 1]].next ELSE -1]
<1>3. /\ p \in [0 .. N -> Nat] /\ p[0] = z
      /\ \A k \in 0 .. N - 1 : p[k] \in DOMAIN heap /\ heap[p[k]].next = p[k + 1]
  BY <1>1, <1>2 DEF Path
<1>4. ASSUME NEW k \in 0 .. N, k # 0 PROVE p[k - 1] \in DOMAIN heap /\ heap[p[k - 1]].next = p[k]
  <2>1. k - 1 \in 0 .. N - 1 /\ (k - 1) + 1 = k
    BY <1>4
  <2> QED
    BY <1>3, <2>1
<1>5. Solves(p)
  BY <1>3, <1>4
<1>6. Reached = CHOOSE f : Solves(f)
  BY <1>1, <1>2 DEF Reached
<1>7. Solves(Reached)
  BY <1>5, <1>6
<1>8. PICK f : f = Reached /\ Solves(f)
  BY <1>7
<1>9. /\ f[0] = z
      /\ \A k \in 0 .. N : k # 0 =>
             f[k] = IF f[k - 1] \in DOMAIN heap THEN heap[f[k - 1]].next ELSE -1
  <2>1. PICK g : g = [k \in 0 .. N |-> IF k = 0 THEN z
                      ELSE IF f[k - 1] \in DOMAIN heap THEN heap[f[k - 1]].next ELSE -1]
    OBVIOUS
  <2>2. f = g
    BY <1>8, <2>1
  <2>3. 0 \in 0 .. N
    OBVIOUS
  <2>4. g[0] = z
    BY <2>1, <2>3
  <2>5. ASSUME NEW k \in 0 .. N, k # 0
        PROVE  g[k] = IF f[k - 1] \in DOMAIN heap THEN heap[f[k - 1]].next ELSE -1
    BY <2>1, <2>5
  <2> HIDE DEF Solves
  <2> QED
    BY <2>2, <2>4, <2>5
<1> HIDE DEF Solves
<1>10. SUFFICES ASSUME \E k \in 0 .. N : f[k] # p[k] PROVE FALSE
  BY <1>1, <1>8
<1>11. PICK T : T = {k \in 0 .. N : f[k] # p[k]}
  OBVIOUS
<1>12. PICK k \in T : \A y \in T : k <= y
  <2>1. T \subseteq Nat /\ T # {}
    BY <1>10, <1>11
  <2> QED
    BY <2>1, LeastNatural
<1>13. k \in 0 .. N /\ f[k] # p[k] /\ k # 0
  BY <1>3, <1>9, <1>11, <1>12
<1>14. k - 1 \in 0 .. N /\ ~ (k <= k - 1)
  BY <1>13
<1>15. f[k - 1] = p[k - 1]
  BY <1>11, <1>12, <1>14
<1> QED
  BY <1>4, <1>9, <1>13, <1>15

(* The list is well-formed at every moment: following next meets every     *)
(* allocated node exactly once and ends at NULL, in the middle of a walk,  *)
(* a search and a release too, so nothing is leaked, freed twice or used   *)
(* after it was freed.                                                     *)
THEOREM ListIsWellFormed == KernelSpec => []ListShape
<1>1. ASSUME ListInv PROVE ListShape
  <2>1. PICK p : Path(p, heap, First, Rest) /\ Cursors(p)
    BY <1>1 DEF ListInv, PathInv
  <2>2. Rest \in Nat /\ Cardinality(DOMAIN heap) = Rest
    BY <1>1 DEF ListInv, PathInv
  <2>3. \A k \in 0 .. Rest : Reached[k] = p[k]
    BY <2>1, <2>2, ReachedIsPath
  <2>4. Rest \in 0 .. Rest /\ \A k \in 0 .. Rest - 1 : k \in 0 .. Rest
    BY <2>2
  <2>5. {Reached[k] : k \in 0 .. Rest - 1} = DOMAIN heap
    <3>1. ASSUME NEW k \in 0 .. Rest - 1 PROVE Reached[k] \in DOMAIN heap
      BY <2>1, <2>3, <2>4 DEF Path
    <3>2. ASSUME NEW n \in DOMAIN heap PROVE \E k \in 0 .. Rest - 1 : Reached[k] = n
      <4>1. PICK k \in 0 .. Rest - 1 : p[k] = n
        BY <2>1 DEF Path
      <4> QED
        BY <2>3, <2>4, <4>1
    <3> QED
      BY <3>1, <3>2
  <2>6. Reached[Rest] = Null
    BY <2>1, <2>3, <2>4 DEF Path
  <2>7. ASSUME NEW t \in ListUsers, At(t, "walk") \/ At(t, "search") PROVE user[t].cur \in DOMAIN heap
    <3>1. user[t].pc \in Behind \ {"free"} /\ user[t].pc \in {"walk", "search"}
      BY <2>7 DEF At, Behind
    <3>2. First = head /\ Rest = size
      BY <1>1, <3>1, OwnerAlone
    <3>3. PICK j \in 0 .. size - 1 : user[t].cur = p[j]
      BY <2>1, <3>1 DEF Cursors, CursorOf
    <3> QED
      BY <2>1, <3>2, <3>3 DEF Path
  <2> QED
    BY <2>2, <2>5, <2>6, <2>7 DEF ListShape
<1>2. ListInv => ListShape
  BY <1>1
<1> QED
  BY <1>2, ListInvariant, PTL

----------------------------------------------------------------------------
(* The list implements the pool of values.                                 *)

(* The values stored, as long as the list is not being freed.              *)
LEMMA StoredCopies ==
    /\ Freeing = {} => Stored = [v \in PoolWords |-> Copies(heap, v)]
    /\ Freeing # {} => Stored = [v \in PoolWords |-> 0]
  BY DEF Stored, PoolWords, Copies

(* The same after a step.                                                  *)
LEMMA StoredCopiesNext ==
    /\ Freeing' = {} => Stored' = [v \in PoolWords |-> Copies(heap', v)]
    /\ Freeing' # {} => Stored' = [v \in PoolWords |-> 0]
  BY DEF Stored, PoolWords, Copies

(* A step that leaves the heap alone, and does not begin or end a release. *)
LEMMA StoredSame ==
    ASSUME heap' = heap, NEW t \in ListUsers, user[t].pc = "free" <=> user'[t].pc = "free",
           \A x \in ListUsers : x # t => user'[x] = user[x]
    PROVE  Stored' = Stored
<1>1. Freeing' = Freeing
  BY DEF Freeing, At, ListUsers
<1> QED
  BY <1>1 DEF Stored

(* The three kinds of calls.                                               *)
LEMMA CallKinds ==
    ASSUME NEW r
    PROVE  /\ r.pc \in {"new", "open", "idle", "done", "closed"} => CallOf(r) = Pool!Idle
           /\ r.pc \in {"free", "up"} => CallOf(r) = Pool!Told(r.v, r.ret)
           /\ r.pc \in {"down", "enter", "walk", "search"} => CallOf(r) = Pool!Asked(r.v)
  BY DEF CallOf, Pool!Idle, Pool!Told, Pool!Asked

(* They are different.                                                     *)
LEMMA CallsDiffer ==
    \A v, w, x : /\ Pool!Idle # Pool!Asked(v) /\ Pool!Idle # Pool!Told(w, x)
                 /\ Pool!Asked(v) # Pool!Told(w, x)
<1>1. ASSUME NEW v, NEW w, NEW x
      PROVE  /\ Pool!Idle.st = "idle" /\ Pool!Asked(v).st = "asked" /\ Pool!Told(w, x).st = "told"
  BY DEF Pool!Idle, Pool!Told, Pool!Asked
<1> QED
  BY <1>1, Zenon

(* A thread's step in the words of the pool.                               *)
LEMMA CallMoves ==
    ASSUME NEW t \in ListUsers, NEW u, user \in [ListUsers -> UserRecords],
           user' = [user EXCEPT ![t] = u]
    PROVE  /\ Calls[t] = CallOf(user[t]) /\ Calls'[t] = CallOf(u)
           /\ Calls' = [Calls EXCEPT ![t] = CallOf(u)]
           /\ user'[t] = u /\ \A x \in ListUsers : x # t => user'[x] = user[x]
<1>1. user'[t] = u /\ \A x \in ListUsers : x # t => user'[x] = user[x]
  OBVIOUS
<1> QED
  BY <1>1 DEF Calls

(* The callers of the pool are the users of the list.                      *)
LEMMA PoolUsers == Pool!Users = ListUsers
  BY DEF Pool!Users, ListUsers

(* A step that the pool does not see.                                      *)
LEMMA HiddenCall ==
    ASSUME NEW t \in ListUsers, NEW u, user \in [ListUsers -> UserRecords],
           user' = [user EXCEPT ![t] = u], CallOf(u) = CallOf(user[t])
    PROVE  Calls' = Calls
<1>1. Calls' = [Calls EXCEPT ![t] = Calls[t]]
  BY CallMoves
<1> QED
  BY <1>1 DEF Calls

\* Creating a thread, refusing a write, taking the semaphore and every
\* step on the list but the last do not show.
LEMMA PoolHidden ==
    ASSUME ListInv, NEW t \in ListUsers,
           \/ pthread_create(t) \/ down(t)
           \/ AllocPosition(t) \/ AllocWalk(t) \/ GetSearch(t) \/ GetNext(t)
    PROVE  Stored' = Stored /\ Calls' = Calls
<1>1. user \in [ListUsers -> UserRecords] /\ user[t] \in UserRecords /\ heap' = heap
  BY DEF ListInv, ListType, pthread_create, down, AllocPosition, AllocWalk, GetSearch, GetNext
<1>2. PICK u : /\ user' = [user EXCEPT ![t] = u] /\ u.v = user[t].v
               /\ \/ user[t].pc = "new" /\ u.pc = "idle"
                  \/ user[t].pc \in {"down", "enter", "walk", "search"} /\ u.pc \in {"enter", "walk", "search"}
  <2>1. CASE pthread_create(t) \/ down(t)
    <3>1. PICK pc \in {"idle", "enter"} :
              /\ user' = [user EXCEPT ![t] = [user[t] EXCEPT !.pc = pc]]
              /\ \/ user[t].pc = "new" /\ pc = "idle"
                 \/ user[t].pc = "down" /\ pc = "enter"
      BY <2>1 DEF pthread_create, down, Goto, Set, At
    <3>2. PICK u : u = [user[t] EXCEPT !.pc = pc]
      OBVIOUS
    <3>3. u.pc = pc /\ u.v = user[t].v
      BY <1>1, <3>2 DEF UserRecords
    <3> QED
      BY <3>1, <3>2, <3>3
  <2>2. CASE AllocPosition(t) \/ AllocWalk(t) \/ GetSearch(t) \/ GetNext(t)
    <3>1. PICK pc, x, n :
              /\ user' = [user EXCEPT ![t] = [user[t] EXCEPT !.pc = pc, !.cur = x, !.n = n]]
              /\ user[t].pc \in {"enter", "walk", "search"} /\ pc \in {"walk", "search"}
      <4>1. CASE AllocPosition(t)
        BY <4>1 DEF AllocPosition, Set, At
      <4>2. CASE GetSearch(t)
        BY <4>2 DEF GetSearch, Set, At
      <4>3. CASE AllocWalk(t) \/ GetNext(t)
        <5>1. PICK x, n : /\ user' = [user EXCEPT ![t] = [user[t] EXCEPT !.n = n, !.cur = x]]
                          /\ user[t].pc \in {"walk", "search"}
          BY <4>3 DEF AllocWalk, GetNext, Set, At
        <5>2. [user[t] EXCEPT !.n = n, !.cur = x] = [user[t] EXCEPT !.pc = user[t].pc, !.cur = x, !.n = n]
          BY <1>1 DEF UserRecords
        <5> QED
          BY <5>1, <5>2
      <4> QED
        BY <2>2, <4>1, <4>2, <4>3
    <3>2. PICK u : u = [user[t] EXCEPT !.pc = pc, !.cur = x, !.n = n]
      OBVIOUS
    <3>3. u.pc = pc /\ u.v = user[t].v
      BY <1>1, <3>2 DEF UserRecords
    <3> QED
      BY <3>1, <3>2, <3>3
  <2> QED
    BY <2>1, <2>2
<1>3. user'[t] = u /\ \A x \in ListUsers : x # t => user'[x] = user[x]
  BY <1>1, <1>2, CallMoves
<1>4. CallOf(u) = CallOf(user[t])
  BY <1>2, CallKinds
<1>5. Calls' = Calls
  BY <1>1, <1>2, <1>4, HiddenCall
<1>6. user[t].pc # "free" /\ user'[t].pc # "free"
  BY <1>2, <1>3
<1> QED
  BY <1>1, <1>3, <1>5, <1>6, StoredSame

(* A call begins.                                                          *)
LEMMA PoolBegins ==
    ASSUME ListInv, NEW t \in ListUsers, dummy_release(t) \/ dummy_read(t) \/ dummy_write(t)
    PROVE  Pool!PoolNext \/ (Stored' = Stored /\ Calls' = Calls)
<1>1. user \in [ListUsers -> UserRecords] /\ user[t] \in UserRecords /\ heap' = heap
  BY DEF ListInv, ListType, dummy_release, dummy_read, dummy_write
<1>2. CallOf(user[t]) = Pool!Idle /\ user[t].pc # "free"
  <2>1. user[t].pc \in {"open", "idle"}
    BY DEF dummy_release, dummy_read, dummy_write, At
  <2> QED
    BY <2>1, CallKinds
<1>3. CASE user' = [user EXCEPT ![t] = NextTurnOf(user[t])]
  <2>1. PICK u : u = NextTurnOf(user[t]) /\ u.pc \in {"done", "idle"}
    BY <1>1, TurnEnds
  <2>2. CallOf(u) = CallOf(user[t])
    BY <1>2, <2>1, CallKinds
  <2>3. Calls' = Calls
    BY <1>1, <1>3, <2>1, <2>2, HiddenCall
  <2>4. user'[t] = u /\ \A x \in ListUsers : x # t => user'[x] = user[x]
    BY <1>1, <1>3, <2>1, CallMoves
  <2> QED
    BY <1>1, <1>2, <2>1, <2>3, <2>4, StoredSame
<1>4. ASSUME NEW v \in PoolWords, NEW u \in UserRecords,
             user' = [user EXCEPT ![t] = u], u.pc = "down", u.v = v
      PROVE  Pool!PoolNext
  <2>1. CallOf(u) = Pool!Asked(v)
    BY <1>4, CallKinds
  <2>2. /\ Calls[t] = Pool!Idle /\ Calls'[t] = Pool!Asked(v)
        /\ Calls' = [Calls EXCEPT ![t] = Pool!Asked(v)]
        /\ user'[t] = u /\ \A x \in ListUsers : x # t => user'[x] = user[x]
    BY <1>1, <1>2, <1>4, <2>1, CallMoves
  <2>3. Stored' = Stored
    BY <1>1, <1>2, <1>4, <2>2, StoredSame
  <2>4. Pool!Begin(t, v)
    BY <2>2, <2>3 DEF Pool!Begin
  <2>5. Calls'[t] # Calls[t]
    BY <2>2, CallsDiffer
  <2> QED
    BY <2>4, <2>5, PoolUsers DEF Pool!PoolNext, PoolWords
<1>5. CASE dummy_release(t)
  <2>1. PICK u : u = [user[t] EXCEPT !.pc = "down"]
    OBVIOUS
  <2>2. u \in UserRecords /\ u.pc = "down" /\ u.v \in PoolWords
    BY <1>1, <2>1 DEF UserRecords
  <2>3. user' = [user EXCEPT ![t] = u]
    BY <1>5, <2>1 DEF dummy_release, Goto, Set
  <2> QED
    BY <1>4, <2>2, <2>3
<1>6. CASE dummy_read(t) \/ dummy_write(t)
  <2>1. PICK v \in Sent : \/ user' = [user EXCEPT ![t] = [user[t] EXCEPT !.v = v, !.pc = "down"]]
                          \/ user' = [user EXCEPT ![t] = NextTurnOf(user[t])]
    BY <1>6 DEF dummy_read, dummy_write, Set
  <2>2. PICK u : u = [user[t] EXCEPT !.v = v, !.pc = "down"]
    OBVIOUS
  <2>3. v \in PoolWords
    BY DEF PoolWords
  <2>4. u \in UserRecords /\ u.pc = "down" /\ u.v = v
    BY <1>1, <2>2, <2>3 DEF UserRecords
  <2> QED
    BY <1>3, <1>4, <2>1, <2>2, <2>3, <2>4
<1> QED
  BY <1>5, <1>6

(* The last step of a write or a read on the list.                         *)
LEMMA PoolTells ==
    ASSUME ListInv, NEW t \in ListUsers, t \notin Closing, user[t].pc \in {"enter", "walk", "search"},
           NEW ret \in Replies, Done(t, ret)
    PROVE  /\ Calls[t] = Pool!Asked(user[t].v) /\ Calls'[t] # Calls[t]
           /\ Calls' = [Calls EXCEPT ![t] = Pool!Told(user[t].v, ret)]
           /\ user[t].v \in PoolWords
           /\ Stored = [v \in PoolWords |-> Copies(heap, v)]
           /\ Stored' = [v \in PoolWords |-> Copies(heap', v)]
<1>1. user \in [ListUsers -> UserRecords] /\ user[t] \in UserRecords
  BY DEF ListInv, ListType
<1>2. PICK u \in UserRecords : /\ user' = [user EXCEPT ![t] = u]
                               /\ u.pc = "up" /\ u.v = user[t].v /\ u.ret = ret
  BY DoneRecord
<1>3. CallOf(user[t]) = Pool!Asked(user[t].v) /\ CallOf(u) = Pool!Told(user[t].v, ret)
  BY <1>2, CallKinds
<1>4. /\ Calls[t] = CallOf(user[t]) /\ Calls'[t] = CallOf(u) /\ Calls' = [Calls EXCEPT ![t] = CallOf(u)]
      /\ user'[t] = u /\ \A x \in ListUsers : x # t => user'[x] = user[x]
  BY <1>1, <1>2, CallMoves
<1>5. Freeing = {} /\ Freeing' = {}
  <2>1. Freeing = {}
    BY OwnerAlone DEF Behind
  <2> QED
    BY <1>4, <2>1 DEF Freeing, At, ListUsers
<1>6. user[t].v \in PoolWords
  BY <1>1 DEF UserRecords
<1>7. Calls'[t] # Calls[t]
  BY <1>3, <1>4, CallsDiffer
<1> QED
  BY <1>3, <1>4, <1>5, <1>6, <1>7, StoredCopies, StoredCopiesNext

(* A write puts its value.                                                 *)
LEMMA PoolPuts ==
    ASSUME ListInv, NEW t \in ListUsers, AllocHead(t) \/ AllocLink(t)
    PROVE  Pool!PoolNext
<1>1. user[t].pc \in {"enter", "walk", "search"} /\ t \in Writers /\ Done(t, 1)
  BY DEF AllocHead, AllocLink, At, ListInv, RoleInv, RoleOf
<1>2. t \notin Closing /\ 1 \in Replies
  BY <1>1, ListAssumption DEF Closing, Replies
<1>3. /\ Calls[t] = Pool!Asked(user[t].v) /\ Calls'[t] # Calls[t]
      /\ Calls' = [Calls EXCEPT ![t] = Pool!Told(user[t].v, 1)]
      /\ user[t].v \in PoolWords
      /\ Stored = [v \in PoolWords |-> Copies(heap, v)]
      /\ Stored' = [v \in PoolWords |-> Copies(heap', v)]
  BY <1>1, <1>2, PoolTells
<1>4. \A v : Copies(heap', v) = IF user[t].v = v THEN Copies(heap, v) + 1 ELSE Copies(heap, v)
  BY HeadEffect, LinkEffect
<1>5. PICK w \in PoolWords : w = user[t].v
  BY <1>3
<1>6. Stored' = [Stored EXCEPT ![w] = Stored[w] + 1]
  BY <1>3, <1>4, <1>5
<1>7. Pool!Put(t, w)
  BY <1>1, <1>3, <1>5, <1>6 DEF Pool!Put
<1> QED
  BY <1>3, <1>7, PoolUsers DEF Pool!PoolNext, PoolWords

(* A read takes a copy of its value.                                       *)
LEMMA PoolTakes ==
    ASSUME ListInv, NEW t \in ListUsers, GetHead(t) \/ GetUnlink(t)
    PROVE  Pool!PoolNext
<1>1. user[t].pc \in {"enter", "walk", "search"} /\ t \in Readers /\ Done(t, user[t].v)
  BY DEF GetHead, GetUnlink, At, ListInv, RoleInv, RoleOf
<1>2. t \notin Closing /\ user[t].v \in Replies
  BY <1>1, ListAssumption DEF Closing, Replies, ListInv, ListType, UserRecords
<1>3. /\ Calls[t] = Pool!Asked(user[t].v) /\ Calls'[t] # Calls[t]
      /\ Calls' = [Calls EXCEPT ![t] = Pool!Told(user[t].v, user[t].v)]
      /\ user[t].v \in PoolWords
      /\ Stored = [v \in PoolWords |-> Copies(heap, v)]
      /\ Stored' = [v \in PoolWords |-> Copies(heap', v)]
  BY <1>1, <1>2, PoolTells
<1>4. /\ \A v : Copies(heap', v) = IF user[t].v = v THEN Copies(heap, v) - 1 ELSE Copies(heap, v)
      /\ Copies(heap, user[t].v) \in Nat \ {0}
  BY TakeHeadEffect, UnlinkEffect
<1>5. PICK w \in PoolWords : w = user[t].v
  BY <1>3
<1>6. Stored' = [Stored EXCEPT ![w] = Stored[w] - 1]
  BY <1>3, <1>4, <1>5
<1>7. Stored[w] > 0
  BY <1>3, <1>4, <1>5
<1>8. Pool!Take(t, w)
  BY <1>1, <1>3, <1>5, <1>6, <1>7 DEF Pool!Take
<1> QED
  BY <1>3, <1>8, PoolUsers DEF Pool!PoolNext, PoolWords

(* A read fails only when no copy is there.                                *)
LEMMA PoolMisses ==
    ASSUME ListInv, NEW t \in ListUsers, GetEmpty(t) \/ GetNone(t)
    PROVE  Pool!PoolNext
<1>1. user[t].pc \in {"enter", "walk", "search"} /\ t \in Readers /\ Done(t, -1) /\ heap' = heap
  BY DEF GetEmpty, GetNone, At, ListInv, RoleInv, RoleOf
<1>2. t \notin Closing /\ -1 \in Replies
  BY <1>1, ListAssumption DEF Closing, Replies
<1>3. /\ Calls[t] = Pool!Asked(user[t].v) /\ Calls'[t] # Calls[t]
      /\ Calls' = [Calls EXCEPT ![t] = Pool!Told(user[t].v, -1)]
      /\ user[t].v \in PoolWords
      /\ Stored = [v \in PoolWords |-> Copies(heap, v)]
      /\ Stored' = [v \in PoolWords |-> Copies(heap', v)]
  BY <1>1, <1>2, PoolTells
<1>4. PICK p : Path(p, heap, head, size) /\ Cursors(p)
  BY <1>1, OwnerAlone DEF Behind
<1>5. ASSUME NEW n \in DOMAIN heap PROVE heap[n].v # user[t].v
  <2>1. size \in Nat /\ user[t].n \in Nat
    BY DEF ListInv, ListType, UserRecords
  <2>2. PICK k \in 0 .. size - 1 : p[k] = n
    BY <1>4 DEF Path
  <2>3. CASE GetEmpty(t)
    BY <2>1, <2>2, <2>3 DEF GetEmpty
  <2>4. CASE GetNone(t)
    <3>1. user[t].pc = "search" /\ ~ (user[t].n < size - 1)
      BY <2>4 DEF GetNone, MoreNodes, At
    <3>2. \A i \in 0 .. user[t].n : heap[p[i]].v # user[t].v
      BY <1>4, <3>1, SearchStands
    <3>3. k \in 0 .. user[t].n
      BY <2>1, <2>2, <3>1
    <3> QED
      BY <2>2, <3>2, <3>3
  <2> QED
    BY <2>3, <2>4
<1>6. Copies(heap, user[t].v) = 0
  <2>1. {n \in DOMAIN heap : heap[n].v = user[t].v} = {}
    BY <1>5
  <2> QED
    BY <2>1, FS_EmptySet DEF Copies
<1>7. PICK w \in PoolWords : w = user[t].v
  BY <1>3
<1>8. Stored[w] = 0 /\ Stored' = Stored
  BY <1>1, <1>3, <1>6, <1>7
<1>9. Pool!Miss(t, w)
  BY <1>1, <1>3, <1>7, <1>8 DEF Pool!Miss
<1> QED
  BY <1>3, <1>9, PoolUsers DEF Pool!PoolNext, PoolWords

(* A close clears the pool when it begins to free the list.                *)
LEMMA PoolClears ==
    ASSUME ListInv, NEW t \in ListUsers, ReleaseFirst(t)
    PROVE  Pool!PoolNext
<1>1. /\ user[t].pc = "enter" /\ t \in Closing
      /\ user \in [ListUsers -> UserRecords] /\ user[t] \in UserRecords /\ head \in Nat
      /\ user' = [user EXCEPT ![t] = [user[t] EXCEPT !.pc = "free", !.cur = head]]
  BY DEF ReleaseFirst, At, Set, ListInv, ListType
<1>2. user[t].ret = 0
  BY <1>1 DEF ListInv, RoleInv, RoleOf
<1>3. PICK u : u = [user[t] EXCEPT !.pc = "free", !.cur = head]
  OBVIOUS
<1>4. u.pc = "free" /\ u.ret = 0 /\ u.v = user[t].v
  BY <1>1, <1>2, <1>3 DEF UserRecords
<1>5. PICK w \in PoolWords : w = user[t].v
  BY <1>1 DEF UserRecords
<1>6. CallOf(user[t]) = Pool!Asked(w) /\ CallOf(u) = Pool!Told(w, 0)
  BY <1>1, <1>4, <1>5, CallKinds
<1>7. /\ Calls[t] = CallOf(user[t]) /\ Calls'[t] = CallOf(u) /\ Calls' = [Calls EXCEPT ![t] = CallOf(u)]
      /\ user'[t] = u
  BY <1>1, <1>3, CallMoves
<1>8. Freeing' # {}
  BY <1>1, <1>4, <1>7 DEF Freeing, At
<1>9. Stored' = [v \in PoolWords |-> 0]
  BY <1>8, StoredCopiesNext
<1>10. Pool!Clear(t, w)
  BY <1>1, <1>6, <1>7, <1>9 DEF Pool!Clear, PoolWords
<1>11. Calls'[t] # Calls[t]
  BY <1>6, <1>7, CallsDiffer
<1> QED
  BY <1>10, <1>11, PoolUsers DEF Pool!PoolNext, PoolWords

(* Freeing the nodes does not show.                                        *)
LEMMA PoolFrees ==
    ASSUME ListInv, NEW t \in ListUsers, ReleaseNode(t) \/ ReleaseEnd(t)
    PROVE  Stored' = Stored /\ Calls' = Calls
<1>1. user[t].pc = "free" /\ user \in [ListUsers -> UserRecords] /\ user[t] \in UserRecords
  BY DEF ReleaseNode, ReleaseEnd, At, ListInv, ListType
<1>2. t \in Closing /\ Freeing = {t} /\ user[t].ret = 0
  BY <1>1, FreerAlone DEF ListInv, RoleInv, RoleOf
<1>3. Stored = [v \in PoolWords |-> 0]
  BY <1>2, StoredCopies
<1>4. CASE ReleaseNode(t)
  <2>1. PICK x, n : user' = [user EXCEPT ![t] = [user[t] EXCEPT !.cur = x, !.n = n]]
    BY <1>4 DEF ReleaseNode, Set
  <2>2. PICK u : u = [user[t] EXCEPT !.cur = x, !.n = n]
    OBVIOUS
  <2>3. u.pc = "free" /\ u.v = user[t].v /\ u.ret = user[t].ret
    BY <1>1, <2>2 DEF UserRecords
  <2>4. CallOf(u) = CallOf(user[t])
    BY <1>1, <2>3, CallKinds
  <2>5. Calls' = Calls /\ user'[t] = u
    BY <1>1, <2>1, <2>2, <2>4, HiddenCall, CallMoves
  <2>6. Freeing' # {}
    BY <1>2, <2>3, <2>5 DEF Freeing, At
  <2> QED
    BY <1>3, <2>5, <2>6, StoredCopiesNext
<1>5. CASE ReleaseEnd(t)
  <2>1. 0 \in Replies /\ Done(t, 0) /\ heap' = heap
    BY <1>5 DEF Replies, ReleaseEnd
  <2>2. PICK u \in UserRecords : /\ user' = [user EXCEPT ![t] = u]
                                 /\ u.pc = "up" /\ u.v = user[t].v /\ u.ret = 0
    BY <2>1, DoneRecord
  <2>3. CallOf(u) = CallOf(user[t])
    BY <1>1, <1>2, <2>2, CallKinds
  <2>4. /\ Calls' = Calls /\ user'[t] = u /\ \A x \in ListUsers : x # t => user'[x] = user[x]
    BY <1>1, <2>2, <2>3, HiddenCall, CallMoves
  <2>5. Freeing' = {}
    BY <1>2, <2>2, <2>4 DEF Freeing, At, ListUsers
  <2>6. DOMAIN heap' = {}
    BY <1>5, <2>1, ReleaseEndKeeps
  <2>7. \A v : Copies(heap', v) = 0
    <3>1. \A v : {n \in DOMAIN heap' : heap'[n].v = v} = {}
      BY <2>6
    <3> QED
      BY <3>1, FS_EmptySet DEF Copies
  <2> QED
    BY <1>3, <2>4, <2>5, <2>7, StoredCopiesNext
<1> QED
  BY <1>4, <1>5

(* A call returns.                                                         *)
LEMMA PoolReturns ==
    ASSUME ListInv, NEW t \in ListUsers, up(t)
    PROVE  Pool!PoolNext
<1>1. /\ user[t].pc = "up" /\ user \in [ListUsers -> UserRecords] /\ user[t] \in UserRecords
      /\ heap' = heap
  BY DEF up, At, ListInv, ListType
<1>2. PICK u : /\ user' = [user EXCEPT ![t] = u] /\ u.pc \in {"closed", "done", "idle"}
  <2>1. CASE t \in Closing
    <3>1. PICK u : u = [user[t] EXCEPT !.pc = "closed"]
      OBVIOUS
    <3>2. u.pc = "closed"
      BY <1>1, <3>1 DEF UserRecords
    <3> QED
      BY <2>1, <3>1, <3>2 DEF up, Set
  <2>2. CASE t \notin Closing
    BY <1>1, <2>2, TurnEnds DEF up, Set
  <2> QED
    BY <2>1, <2>2
<1>3. PICK w \in PoolWords, ret \in Replies : w = user[t].v /\ ret = user[t].ret
  BY <1>1 DEF UserRecords
<1>4. CallOf(user[t]) = Pool!Told(w, ret) /\ CallOf(u) = Pool!Idle
  BY <1>1, <1>2, <1>3, CallKinds
<1>5. /\ Calls[t] = CallOf(user[t]) /\ Calls'[t] = CallOf(u) /\ Calls' = [Calls EXCEPT ![t] = CallOf(u)]
      /\ user'[t] = u /\ \A x \in ListUsers : x # t => user'[x] = user[x]
  BY <1>1, <1>2, CallMoves
<1>6. Stored' = Stored
  BY <1>1, <1>2, <1>5, StoredSame
<1>7. Pool!Return(t, w)
  BY <1>3, <1>4, <1>5, <1>6 DEF Pool!Return, Replies, PoolWords
<1>8. Calls'[t] # Calls[t]
  BY <1>4, <1>5, CallsDiffer
<1> QED
  BY <1>7, <1>8, PoolUsers DEF Pool!PoolNext, PoolWords

\* Nothing is stored and nobody is in a call.
PoolEmpty == Stored = [v \in PoolWords |-> 0] /\ Calls = [t \in ListUsers |-> Pool!Idle]

(* A module that has just been loaded holds nothing.                       *)
LEMMA PoolLoaded == ListInit => PoolEmpty
<1>1. SUFFICES ASSUME ListInit PROVE PoolEmpty
  OBVIOUS
<1>2. heap = << >> /\ user = [t \in ListUsers |-> Fresh(t)]
  BY <1>1 DEF ListInit
<1>3. ASSUME NEW t \in ListUsers PROVE user[t].pc \in {"new", "open"}
  BY <1>2 DEF Fresh
<1>4. Calls = [t \in ListUsers |-> Pool!Idle]
  BY <1>3, CallKinds DEF Calls
<1>5. \A v : Copies(heap, v) = 0
  <2>1. \A v : {n \in DOMAIN heap : heap[n].v = v} = {}
    BY <1>2
  <2> QED
    BY <2>1, FS_EmptySet DEF Copies
<1>6. Stored = [v \in PoolWords |-> 0]
  BY <1>5, StoredCopies
<1> QED
  BY <1>4, <1>6 DEF PoolEmpty

(* Neither does one that is loaded again.                                  *)
LEMMA PoolReloaded == dummy_exit => PoolEmpty'
<1>1. dummy_exit => ListInit'
  BY DEF dummy_exit, ListInit, Fresh, ListUsers
<1>2. ListInit' => PoolEmpty'
  BY PoolLoaded, PTL
<1> QED
  BY <1>1, <1>2

(* Removing the module.                                                    *)
LEMMA PoolUnloads == ASSUME ListInv, dummy_exit PROVE Pool!PoolNext
<1>1. PoolEmpty'
  BY PoolReloaded
<1>2. ASSUME NEW t \in ListUsers PROVE user[t].pc \in {"closed", "done"}
  BY DEF dummy_exit, At, ListInv, MainInv, ListUsers, Closing
<1>3. Calls = [t \in ListUsers |-> Pool!Idle]
  BY <1>2, CallKinds DEF Calls
<1>4. Pool!Unload
  BY <1>1, <1>3, PoolUsers DEF Pool!Unload, PoolEmpty, PoolWords
<1> QED
  BY <1>4 DEF Pool!PoolNext

(* The list implements the pool of values, for any readers, writers and    *)
(* values: a read fails only when no copy of its value is there, although  *)
(* writers, searches and releases work pointer by pointer.                 *)
THEOREM ListImplementsPool == KernelSpec => ImplementsPool
<1>1. KernelInit => Pool!PoolInit
  BY PoolLoaded, PoolUsers DEF KernelInit, PoolEmpty, Pool!PoolInit, PoolWords
<1>2. ListInv /\ [KernelNext]_allVars => [Pool!PoolNext]_<<Stored, Calls>>
  <2>1. SUFFICES ASSUME ListInv, [KernelNext]_allVars
                 PROVE  Pool!PoolNext \/ (Stored' = Stored /\ Calls' = Calls)
    OBVIOUS
  <2>2. CASE UNCHANGED listVars
    BY <2>2 DEF listVars, Stored, Freeing, At, Calls, CallOf
  <2>3. CASE ListNext
    BY <2>1, <2>3, PoolHidden, PoolBegins, PoolPuts, PoolTakes, PoolMisses, PoolClears, PoolFrees,
       PoolReturns DEF ListNext, ListStep
  <2>4. CASE dummy_exit
    BY <2>1, <2>4, PoolUnloads
  <2>5. UNCHANGED listVars \/ ListNext \/ dummy_exit
    BY <2>1 DEF KernelNext, allVars, InList, InHw, InPm, InLeds
  <2> QED
    BY <2>2, <2>3, <2>4, <2>5
<1> QED
  BY <1>1, <1>2, ListInvariant, PTL DEF KernelSpec, ImplementsPool, Pool!PoolSpec

----------------------------------------------------------------------------
(* The process monitor: the inductive invariant.                           *)

DataRows == [pid : Int, virt : Int, rss : Int, io : Int]

CriterionWords == {"pid", "virt", "rss", "io"}

ListerRecords ==
    [pc : {"idle", "sort", "print"}, data : Seq(DataRows), i : Nat, j : Nat, disturbed : BOOLEAN]

\* The buffer shared by the writers, as one that runs alone finds it.
AloneInv(c) ==
    /\ \A d \in Choosers : d # c => chooser[d].pc = "idle"
    /\ chooser[c].pc # "test" => chooser[c].k = 1
    /\ chooser[c].pc = "copy" => sortingBuf.from = {}
    /\ chooser[c].pc \in {"trim", "test"} => sortingBuf.from = {chooser[c].req.word}
    /\ chooser[c].pc = "test" =>
           /\ ~sortingBuf.space
           /\ \A k \in 1 .. 4 : k < chooser[c].k => Criteria[k] # chooser[c].req.word

Words == {r.word : r \in Requests} \cup {None}

ChooserRecords ==
    [pc : {"idle", "copy", "trim", "test"}, req : Requests \cup {NoRequest.req}, k : 1 .. 4,
     overlapped : BOOLEAN]

ChooseType ==
    /\ currentValue \in CriterionWords
    /\ sortingBuf \in [from : SUBSET Words, space : BOOLEAN]
    /\ chooser \in [Choosers -> ChooserRecords]

ChooseInv ==
    /\ ChooseType /\ asked \in {None, currentValue}
    /\ \A c \in Choosers : chooser[c].pc # "idle" /\ ~chooser[c].overlapped => AloneInv(c)

\* p tells where in the table each row comes from.
Permutes(p, n) ==
    /\ p \in [1 .. n -> 1 .. n] /\ \A a, b \in 1 .. n : p[a] = p[b] => a = b
    /\ \A x \in 1 .. n : \E k \in 1 .. n : p[k] = x

\* The last i entries are in their places, the others behind none of them, and the
\* entry at j is the least so far.  Equal ones are still in the order of the table.
Ordered(K, p, n, i, j) ==
    /\ \A a, b \in 1 .. n : a < b /\ K[a] = K[b] => p[a] < p[b]
    /\ \A a, b \in 1 .. n : a < b /\ b > n - i => K[a] >= K[b]
    /\ \A a \in 1 .. j : K[a] >= K[j + 1]

Keys(d, c) == [k \in DOMAIN d |-> Key(d[k], c)]

Rounds(r, n) ==
    /\ r.pc = "sort" => r.i < n - 1 /\ r.j < n - r.i - 1
    /\ r.pc = "print" => r.i >= n - 1 /\ r.j = 0

SortInv(r, t, p) ==
    /\ Len(r.data) = Len(t) /\ Permutes(p, Len(t)) /\ Rounds(r, Len(t))
    /\ \A k \in 1 .. Len(t) : r.data[k] = Sample(t[p[k]])
    /\ r.disturbed \/ Ordered(Keys(r.data, currentValue), p, Len(t), r.i, r.j)

ListingInv ==
    /\ lister \in [Listers -> ListerRecords]
    /\ \A l \in Listers : lister[l].pc # "idle" => \E t \in Tables : \E p : SortInv(lister[l], t, p)

PmInv == ChooseInv /\ ListingInv

(* The keys are integers.                                                  *)
LEMMA KeyType == \A row \in DataRows, c \in CriterionWords : Key(row, c) \in Int
  BY DEF Key, DataRows, CriterionWords

(* A comparison looks at the keys.                                         *)
LEMMA WrongOrderKey ==
    ASSUME currentValue \in CriterionWords, NEW a \in DataRows, NEW b \in DataRows
    PROVE  WrongOrder(a, b) <=> Key(a, currentValue) < Key(b, currentValue)
<1>1. a.pid \in Int /\ b.pid \in Int
  BY DEF DataRows
<1>2. CASE currentValue = "pid"
  <2>1. Key(a, currentValue) = -a.pid /\ Key(b, currentValue) = -b.pid
    BY <1>2 DEF Key
  <2>2. WrongOrder(a, b) <=> a.pid > b.pid
    BY <1>2 DEF WrongOrder
  <2> QED
    BY <1>1, <2>1, <2>2
<1>3. CASE currentValue = "virt"
  BY <1>3 DEF Key, WrongOrder
<1>4. CASE currentValue = "rss"
  BY <1>4 DEF Key, WrongOrder
<1>5. CASE currentValue = "io"
  BY <1>5 DEF Key, WrongOrder
<1> QED
  BY <1>2, <1>3, <1>4, <1>5 DEF CriterionWords

(* What is sampled of a process.                                           *)
LEMMA SampleType == \A r \in Rows : Sample(r) \in DataRows /\ Sample(r).pid = r.pid
<1>1. SUFFICES ASSUME NEW r \in Rows PROVE Sample(r) \in DataRows /\ Sample(r).pid = r.pid
  OBVIOUS
<1>2. /\ r.pid \in Int /\ r.total_vm * PageKB \in Int
      /\ (Positive(r.filepages) + Positive(r.anonpages)) * PageKB \in Int
      /\ r.read \div 1024 + r.write \div 1024 \in Int
  BY <1>1 DEF Rows, Positive, PageKB
<1>3. PICK x \in Int : x = IF r.mm THEN r.total_vm * PageKB ELSE 0
  BY <1>2
<1>4. PICK y \in Int : y = IF r.mm THEN (Positive(r.filepages) + Positive(r.anonpages)) * PageKB ELSE 0
  BY <1>2
<1>5. PICK z \in Int : z = r.read \div 1024 + r.write \div 1024
  BY <1>2
<1>6. Sample(r) = [pid |-> r.pid, virt |-> x, rss |-> y, io |-> z]
  BY <1>3, <1>4, <1>5 DEF Sample
<1> QED
  BY <1>2, <1>6 DEF DataRows

\* g is f with the entries at m and m + 1 exchanged.
Swapped(f, g, n, m) ==
    /\ g[m] = f[m + 1] /\ g[m + 1] = f[m]
    /\ \A x \in 1 .. n : x # m /\ x # m + 1 => g[x] = f[x]

\* Where the entry at a comes from.
Origin(a, x, m) ==
    (a = m => x = m + 1) /\ (a = m + 1 => x = m) /\ (a # m /\ a # m + 1 => x = a)

(* Exchanging two neighbours.                                              *)
LEMMA SwapValues ==
    ASSUME NEW n \in Nat, NEW S, NEW f \in [1 .. n -> S], NEW m \in 1 .. n - 1
    PROVE  Swap(f, m) \in [1 .. n -> S] /\ Swapped(f, Swap(f, m), n, m)
<1>1. m \in 1 .. n /\ m + 1 \in 1 .. n /\ m # m + 1
  OBVIOUS
<1>2. f[m] \in S /\ f[m + 1] \in S
  BY <1>1
<1> QED
  BY <1>1, <1>2 DEF Swap, Swapped

(* Every entry comes from somewhere.                                       *)
LEMMA OriginExists ==
    ASSUME NEW n \in Nat, NEW m \in 1 .. n - 1, NEW a \in 1 .. n
    PROVE  \E x \in 1 .. n : Origin(a, x, m)
<1>1. m \in 1 .. n /\ m + 1 \in 1 .. n /\ m # m + 1
  OBVIOUS
<1> QED
  BY <1>1 DEF Origin

(* The order of two entries other than the exchanged ones.                 *)
LEMMA OriginsOrdered ==
    ASSUME NEW n \in Nat, NEW m \in 1 .. n - 1, NEW a \in 1 .. n, NEW b \in 1 .. n,
           NEW x \in 1 .. n, NEW y \in 1 .. n, Origin(a, x, m), Origin(b, y, m)
    PROVE  /\ a < b /\ ~(a = m /\ b = m + 1) => x < y
           /\ x = y => a = b
           /\ b > m + 1 => y = b
<1>1. a \in Int /\ b \in Int /\ m \in Int /\ x \in Int /\ y \in Int
  OBVIOUS
<1> QED
  BY <1>1 DEF Origin

(* A permutation stays one.                                                *)
LEMMA SwapPermutes ==
    ASSUME NEW n \in Nat, NEW p, Permutes(p, n), NEW m \in 1 .. n - 1
    PROVE  Permutes(Swap(p, m), n)
<1>1. PICK q : q = Swap(p, m)
  OBVIOUS
<1>2. /\ p \in [1 .. n -> 1 .. n] /\ \A a, b \in 1 .. n : p[a] = p[b] => a = b
      /\ \A x \in 1 .. n : \E k \in 1 .. n : p[k] = x
  BY DEF Permutes
<1>3. q \in [1 .. n -> 1 .. n] /\ Swapped(p, q, n, m)
  BY <1>1, <1>2, SwapValues
<1>4. ASSUME NEW a \in 1 .. n, NEW b \in 1 .. n, q[a] = q[b] PROVE a = b
  <2>1. PICK x \in 1 .. n : Origin(a, x, m)
    BY OriginExists
  <2>2. PICK y \in 1 .. n : Origin(b, y, m)
    BY OriginExists
  <2>3. q[a] = p[x]
    BY <1>3, <2>1 DEF Origin, Swapped
  <2>4. q[b] = p[y]
    BY <1>3, <2>2 DEF Origin, Swapped
  <2>5. x = y
    BY <1>2, <1>4, <2>3, <2>4
  <2> QED
    BY <2>1, <2>2, <2>5, OriginsOrdered
<1>5. ASSUME NEW x \in 1 .. n PROVE \E k \in 1 .. n : q[k] = x
  <2>1. PICK y \in 1 .. n : p[y] = x
    BY <1>2
  <2>2. m \in 1 .. n /\ m + 1 \in 1 .. n
    OBVIOUS
  <2> QED
    BY <1>3, <2>1, <2>2 DEF Swapped
<1>6. Permutes(q, n)
  BY <1>3, <1>4, <1>5 DEF Permutes
<1> QED
  BY <1>1, <1>6

(* Up to m is m or before it.                                              *)
LEMMA SplitRange ==
    ASSUME NEW n \in Nat, NEW m \in 1 .. n - 1, NEW a \in 1 .. m
    PROVE  a \in 1 .. n /\ (a \in 1 .. m - 1 \/ a = m)
  OBVIOUS

(* One comparison and what follows it keep the order reached so far.       *)
LEMMA ComparisonOrders ==
    ASSUME NEW n \in Nat, NEW i \in Nat, NEW j \in Nat, i < n - 1, j < n - i - 1,
           NEW K \in [1 .. n -> Int], NEW p \in [1 .. n -> 1 .. n], Ordered(K, p, n, i, j),
           NEW L \in [1 .. n -> Int], NEW q \in [1 .. n -> 1 .. n],
           \/ K[j + 1] < K[j + 2] /\ L = Swap(K, j + 1) /\ q = Swap(p, j + 1)
           \/ ~ (K[j + 1] < K[j + 2]) /\ L = K /\ q = p
    PROVE  /\ Ordered(L, q, n, i, j + 1)
           /\ j + 1 >= n - i - 1 => Ordered(L, q, n, i + 1, 0)
<1>1. PICK m \in 1 .. n - 1 : m = j + 1
  <2>1. j + 1 \in 1 .. n - 1
    OBVIOUS
  <2> QED
    BY <2>1
<1>2. m \in 1 .. n /\ m + 1 \in 1 .. n /\ j + 2 = m + 1 /\ m + 1 <= n - i /\ 1 .. j = 1 .. m - 1
  BY <1>1
<1>3. /\ \A a, b \in 1 .. n : a < b /\ K[a] = K[b] => p[a] < p[b]
      /\ \A a, b \in 1 .. n : a < b /\ b > n - i => K[a] >= K[b]
      /\ \A a \in 1 .. m - 1 : K[a] >= K[m]
  BY <1>1, <1>2 DEF Ordered
<1>4. /\ \A a \in 1 .. m : L[a] >= L[m + 1]
      /\ \A a, b \in 1 .. n : a < b /\ L[a] = L[b] => q[a] < q[b]
      /\ \A a, b \in 1 .. n : a < b /\ b > n - i => L[a] >= L[b]
  <2>1. CASE ~ (K[m] < K[m + 1]) /\ L = K /\ q = p
    <3>1. ASSUME NEW a \in 1 .. m PROVE K[a] >= K[m + 1]
      <4>1. a \in 1 .. n /\ (a \in 1 .. m - 1 \/ a = m)
        BY SplitRange
      <4>2. PICK u \in Int, v \in Int, w \in Int : u = K[a] /\ v = K[m] /\ w = K[m + 1]
        BY <1>2, <4>1
      <4>3. u >= v
        <5>1. a \in 1 .. m - 1 => K[a] >= K[m]
          BY <1>3
        <5>2. a = m => u = v
          BY <4>2
        <5> QED
          BY <4>1, <4>2, <5>1, <5>2
      <4>4. v >= w
        BY <2>1, <4>2
      <4>5. u >= w
        BY <4>3, <4>4
      <4> QED
        BY <4>2, <4>5
    <3> QED
      BY <1>3, <2>1, <3>1
  <2>2. CASE K[m] < K[m + 1] /\ L = Swap(K, m) /\ q = Swap(p, m)
    <3>1. Swapped(K, L, n, m)
      BY <2>2, SwapValues
    <3>2. Swapped(p, q, n, m)
      BY <2>2, SwapValues
    <3>3. K[m] \in Int /\ K[m + 1] \in Int
      BY <1>2
    <3>4. ASSUME NEW a \in 1 .. m PROVE L[a] >= L[m + 1]
      <4>1. a \in 1 .. m - 1 \/ a = m
        OBVIOUS
      <4>2. CASE a \in 1 .. m - 1
        <5>1. a \in 1 .. n /\ a # m /\ a # m + 1
          BY <4>2
        <5> QED
          BY <1>3, <3>1, <4>2, <5>1 DEF Swapped
      <4>3. CASE a = m
        BY <2>2, <3>1, <3>3, <4>3 DEF Swapped
      <4> QED
        BY <4>1, <4>2, <4>3
    <3>5. ASSUME NEW a \in 1 .. n, NEW b \in 1 .. n, a < b
          PROVE  (L[a] = L[b] => q[a] < q[b]) /\ (b > n - i => L[a] >= L[b])
      <4>1. PICK x \in 1 .. n : Origin(a, x, m)
        BY OriginExists
      <4>2. PICK y \in 1 .. n : Origin(b, y, m)
        BY OriginExists
      <4>3. L[a] = K[x]
        BY <3>1, <4>1 DEF Origin, Swapped
      <4>4. q[a] = p[x]
        BY <3>2, <4>1 DEF Origin, Swapped
      <4>5. L[b] = K[y]
        BY <3>1, <4>2 DEF Origin, Swapped
      <4>6. q[b] = p[y]
        BY <3>2, <4>2 DEF Origin, Swapped
      <4>7. CASE a = m /\ b = m + 1
        <5>1. L[a] = K[m + 1] /\ L[b] = K[m]
          BY <3>1, <4>7 DEF Swapped
        <5> QED
          BY <1>2, <2>2, <3>3, <4>7, <5>1
      <4>8. CASE ~ (a = m /\ b = m + 1)
        <5>1. x < y
          <6>1. a \in Int /\ b \in Int /\ m \in Int /\ x \in Int /\ y \in Int
            OBVIOUS
          <6> QED
            BY <3>5, <4>1, <4>2, <4>8, <6>1 DEF Origin
        <5>2. b > n - i => y > n - i
          <6>1. b > n - i => b > m + 1
            BY <1>2
          <6> QED
            BY <6>1, <4>1, <4>2, OriginsOrdered
        <5>3. (K[x] = K[y] => p[x] < p[y]) /\ (y > n - i => K[x] >= K[y])
          BY <1>3, <5>1
        <5> QED
          BY <4>3, <4>4, <4>5, <4>6, <5>2, <5>3
      <4> QED
        BY <4>7, <4>8
    <3> QED
      BY <3>4, <3>5
  <2> QED
    BY <1>1, <1>2, <2>1, <2>2
<1>5. Ordered(L, q, n, i, j + 1)
  BY <1>1, <1>2, <1>4 DEF Ordered
<1>6. ASSUME j + 1 >= n - i - 1 PROVE Ordered(L, q, n, i + 1, 0)
  <2>1. m + 1 = n - i /\ n - (i + 1) = m
    BY <1>1, <1>2, <1>6
  <2>2. ASSUME NEW a \in 1 .. n, NEW b \in 1 .. n, a < b, b > n - (i + 1) PROVE L[a] >= L[b]
    <3>1. b = m + 1 \/ b > n - i
      BY <2>1, <2>2
    <3>2. CASE b = m + 1
      <4>1. a \in 1 .. m
        BY <2>2, <3>2
      <4> QED
        BY <1>4, <3>2, <4>1
    <3>3. CASE b > n - i
      BY <1>4, <2>2, <3>3
    <3> QED
      BY <3>1, <3>2, <3>3
  <2> QED
    BY <1>4, <2>2 DEF Ordered
<1> QED
  BY <1>5, <1>6

(* A word of a request is one of the words.                                *)
LEMMA RequestWord == \A r \in Requests \cup {NoRequest.req} : r.word \in Words
  BY DEF Words, NoRequest

(* The criteria, in the order of the tests.                                *)
LEMMA CriteriaWords ==
    /\ \A k \in 1 .. 4 : Criteria[k] \in CriterionWords
    /\ None \notin CriterionWords
<1>1. 1 .. 4 = {1, 2, 3, 4}
  OBVIOUS
<1>2. /\ Criteria[1] = "pid" /\ Criteria[2] = "virt" /\ Criteria[3] = "rss" /\ Criteria[4] = "io"
  BY DEF Criteria
<1> QED
  BY <1>1, <1>2, ProcMonAssumption DEF CriterionWords

(* memset: a writer that finds another at work is marked, and marks it.    *)
LEMMA ChooseMemset ==
    ASSUME ChooseInv, NEW c \in Choosers, SelectionMemset(c)
    PROVE  ChooseInv'
<1>1. PICK req \in Requests : chooser' = [d \in Choosers |->
           IF d = c THEN [pc |-> "copy", req |-> req, k |-> 1,
                          overlapped |-> {x \in Choosers \ {c} : ~ChooserAt(x, "idle")} # {}]
           ELSE IF d \in {x \in Choosers \ {c} : ~ChooserAt(x, "idle")}
                THEN [chooser[d] EXCEPT !.overlapped = TRUE]
           ELSE chooser[d]]
  BY DEF SelectionMemset
<1>2. sortingBuf' = Cleared /\ UNCHANGED <<currentValue, asked>> /\ chooser[c].pc = "idle"
  BY DEF SelectionMemset, ChooserAt
<1>3. ChooseType
  BY DEF ChooseInv
<1>4. PICK o \in BOOLEAN :
          /\ chooser'[c] = [pc |-> "copy", req |-> req, k |-> 1, overlapped |-> o]
          /\ ~ o => \A x \in Choosers : x # c => chooser[x].pc = "idle"
  <2>1. PICK o \in BOOLEAN : o = ({x \in Choosers \ {c} : ~ChooserAt(x, "idle")} # {})
    OBVIOUS
  <2>2. ~ o => \A x \in Choosers : x # c => chooser[x].pc = "idle"
    BY <2>1 DEF ChooserAt
  <2>3. chooser'[c] = [pc |-> "copy", req |-> req, k |-> 1, overlapped |-> o]
    BY <1>1, <2>1
  <2> QED
    BY <2>2, <2>3
<1>5. ASSUME NEW d \in Choosers, d # c
      PROVE  /\ chooser[d].pc = "idle" => chooser'[d] = chooser[d]
             /\ chooser[d].pc # "idle" => chooser'[d] = [chooser[d] EXCEPT !.overlapped = TRUE]
  BY <1>1, <1>5 DEF ChooserAt
<1>6. ASSUME NEW d \in Choosers PROVE chooser'[d] \in ChooserRecords
  <2>1. CASE d = c
    BY <1>4, <2>1 DEF ChooserRecords
  <2>2. CASE d # c
    BY <1>3, <1>5, <2>2 DEF ChooseType, ChooserRecords
  <2> QED
    BY <2>1, <2>2
<1>7. ChooseType'
  BY <1>1, <1>2, <1>3, <1>6 DEF ChooseType, Cleared
<1>8. ASSUME NEW d \in Choosers, chooser'[d].pc # "idle", ~chooser'[d].overlapped PROVE AloneInv(d)'
  <2>1. d = c
    <3>1. ASSUME d # c PROVE FALSE
      <4>1. chooser[d] \in ChooserRecords
        BY <1>3 DEF ChooseType
      <4> QED
        BY <1>5, <1>8, <3>1, <4>1 DEF ChooserRecords
    <3> QED
      BY <3>1
  <2>2. \A x \in Choosers : x # c => chooser'[x].pc = "idle"
    <3>1. ~ o
      BY <1>4, <1>8, <2>1
    <3> QED
      BY <1>4, <1>5, <3>1
  <2> QED
    BY <1>2, <1>4, <2>1, <2>2 DEF AloneInv, Cleared
<1> QED
  BY <1>2, <1>7, <1>8 DEF ChooseInv

\* What a step of c alone may do to the writers.
OwnStep(c, r) == chooser' = [chooser EXCEPT ![c] = r] /\ r \in ChooserRecords

(* A step of one writer that is not overlapped finds the others idle.      *)
LEMMA ChooseOwn ==
    ASSUME ChooseType, NEW c \in Choosers, NEW r, OwnStep(c, r),
           \A d \in Choosers : chooser[d].pc # "idle" /\ ~chooser[d].overlapped => AloneInv(d),
           chooser[c].pc # "idle", r.overlapped = chooser[c].overlapped \/ r.pc = "idle"
    PROVE  /\ chooser' \in [Choosers -> ChooserRecords]
           /\ chooser'[c] = r
           /\ \A d \in Choosers : d # c => chooser'[d] = chooser[d]
           /\ \A d \in Choosers : chooser'[d].pc # "idle" /\ ~chooser'[d].overlapped =>
                  /\ d = c /\ AloneInv(c)
                  /\ \A e \in Choosers : e # c => chooser'[e].pc = "idle"
<1>1. /\ chooser' \in [Choosers -> ChooserRecords] /\ chooser'[c] = r
      /\ \A d \in Choosers : d # c => chooser'[d] = chooser[d]
  BY DEF ChooseType, OwnStep
<1>2. ASSUME NEW d \in Choosers, chooser'[d].pc # "idle", ~chooser'[d].overlapped
      PROVE  d = c /\ AloneInv(c) /\ \A e \in Choosers : e # c => chooser'[e].pc = "idle"
  <2>1. d = c
    <3>1. ASSUME d # c PROVE FALSE
      <4>1. AloneInv(d)
        BY <1>1, <1>2, <3>1
      <4> QED
        BY <3>1, <4>1 DEF AloneInv
    <3> QED
      BY <3>1
  <2>2. AloneInv(c)
    BY <1>1, <1>2, <2>1
  <2> QED
    BY <1>1, <2>1, <2>2 DEF AloneInv
<1> QED
  BY <1>1, <1>2

(* A call that ends leaves the others as they were.                        *)
LEMMA ChooseEnds ==
    ASSUME ChooseInv, NEW c \in Choosers, chooser[c].pc # "idle", SetChooser(c, NoRequest),
           ChooseType', asked' \in {None, currentValue'}
    PROVE  ChooseInv'
<1>1. OwnStep(c, NoRequest) /\ NoRequest.pc = "idle"
  BY DEF SetChooser, OwnStep, NoRequest, ChooserRecords
<1>2. \A d \in Choosers : chooser'[d].pc # "idle" /\ ~chooser'[d].overlapped => d = c
  BY <1>1, ChooseOwn DEF ChooseInv
<1>3. chooser'[c].pc = "idle"
  BY <1>1 DEF ChooseInv, ChooseType, OwnStep
<1> QED
  BY <1>2, <1>3 DEF ChooseInv

(* The word arrives in a buffer that was cleared.                          *)
LEMMA ChooseCopy ==
    ASSUME ChooseInv, NEW c \in Choosers, copy_from_user(c)
    PROVE  ChooseInv'
<1>1. PICK r : r = [chooser[c] EXCEPT !.pc = "trim"]
  OBVIOUS
<1>2. chooser[c] \in ChooserRecords /\ chooser[c].pc = "copy"
  BY DEF ChooseInv, ChooseType, copy_from_user, ChooserAt
<1>3. /\ r \in ChooserRecords /\ r.pc = "trim" /\ r.req = chooser[c].req
      /\ r.overlapped = chooser[c].overlapped /\ r.k = chooser[c].k
  BY <1>1, <1>2 DEF ChooserRecords
<1>4. OwnStep(c, r)
  BY <1>1, <1>3 DEF copy_from_user, SetChooser, OwnStep
<1>5. /\ chooser' \in [Choosers -> ChooserRecords]
      /\ chooser'[c] = r
      /\ \A d \in Choosers : d # c => chooser'[d] = chooser[d]
      /\ \A d \in Choosers : chooser'[d].pc # "idle" /\ ~chooser'[d].overlapped =>
             /\ d = c /\ AloneInv(c)
             /\ \A e \in Choosers : e # c => chooser'[e].pc = "idle"
  BY <1>2, <1>3, <1>4, ChooseOwn DEF ChooseInv
<1>6. PICK w, s : w = chooser[c].req.word /\ s = (sortingBuf.space \/ chooser[c].req.space)
  OBVIOUS
<1>7. sortingBuf' = [from |-> sortingBuf.from \cup {w}, space |-> s] /\ UNCHANGED <<currentValue, asked>>
  BY <1>6 DEF copy_from_user
<1>8. w \in Words
  BY <1>2, <1>6, RequestWord DEF ChooserRecords
<1>9. ChooseType'
  <2>1. s \in BOOLEAN
    BY <1>6
  <2> QED
    BY <1>5, <1>7, <1>8, <2>1 DEF ChooseInv, ChooseType
<1>10. ASSUME NEW d \in Choosers, chooser'[d].pc # "idle", ~chooser'[d].overlapped PROVE AloneInv(d)'
  <2>1. d = c /\ AloneInv(c) /\ \A e \in Choosers : e # c => chooser'[e].pc = "idle"
    BY <1>5, <1>10
  <2>2. sortingBuf'.from = {chooser'[c].req.word}
    <3>1. sortingBuf.from = {}
      BY <1>2, <2>1 DEF AloneInv
    <3> QED
      BY <1>3, <1>5, <1>6, <1>7, <3>1
  <2> QED
    BY <1>2, <1>3, <1>5, <2>1, <2>2 DEF AloneInv
<1> QED
  BY <1>7, <1>9, <1>10 DEF ChooseInv

(* The white space after the word is cut off.                              *)
LEMMA ChooseTrim ==
    ASSUME ChooseInv, NEW c \in Choosers, Trim(c)
    PROVE  ChooseInv'
<1>1. PICK r : r = [chooser[c] EXCEPT !.pc = "test"]
  OBVIOUS
<1>2. chooser[c] \in ChooserRecords /\ chooser[c].pc = "trim"
  BY DEF ChooseInv, ChooseType, Trim, ChooserAt
<1>3. /\ r \in ChooserRecords /\ r.pc = "test" /\ r.req = chooser[c].req
      /\ r.overlapped = chooser[c].overlapped /\ r.k = chooser[c].k
  BY <1>1, <1>2 DEF ChooserRecords
<1>4. OwnStep(c, r)
  BY <1>1, <1>3 DEF Trim, SetChooser, OwnStep
<1>5. /\ chooser' \in [Choosers -> ChooserRecords]
      /\ chooser'[c] = r
      /\ \A d \in Choosers : d # c => chooser'[d] = chooser[d]
      /\ \A d \in Choosers : chooser'[d].pc # "idle" /\ ~chooser'[d].overlapped =>
             /\ d = c /\ AloneInv(c)
             /\ \A e \in Choosers : e # c => chooser'[e].pc = "idle"
  BY <1>2, <1>3, <1>4, ChooseOwn DEF ChooseInv
<1>6. sortingBuf' = [sortingBuf EXCEPT !.space = FALSE] /\ UNCHANGED <<currentValue, asked>>
  BY DEF Trim
<1>7. ChooseType'
  BY <1>5, <1>6 DEF ChooseInv, ChooseType
<1>8. ASSUME NEW d \in Choosers, chooser'[d].pc # "idle", ~chooser'[d].overlapped PROVE AloneInv(d)'
  <2>1. d = c /\ AloneInv(c) /\ \A e \in Choosers : e # c => chooser'[e].pc = "idle"
    BY <1>5, <1>8
  <2>2. sortingBuf'.from = {chooser'[c].req.word} /\ ~sortingBuf'.space
    BY <1>2, <1>3, <1>5, <1>6, <2>1 DEF AloneInv, ChooseInv, ChooseType
  <2> QED
    BY <1>2, <1>3, <1>5, <2>1, <2>2 DEF AloneInv
<1> QED
  BY <1>6, <1>7, <1>8 DEF ChooseInv

(* A copy that faults ends the call.                                       *)
LEMMA ChooseFails ==
    ASSUME ChooseInv, NEW c \in Choosers, copy_fails(c)
    PROVE  ChooseInv'
<1>1. chooser[c] \in ChooserRecords /\ chooser[c].pc = "copy"
  BY DEF ChooseInv, ChooseType, copy_fails, ChooserAt
<1>2. chooser[c].req.word \in Words
  BY <1>1, RequestWord DEF ChooserRecords
<1>3. sortingBuf' \in [from : SUBSET Words, space : BOOLEAN]
  BY <1>2 DEF ChooseInv, ChooseType, copy_fails
<1>4. chooser' \in [Choosers -> ChooserRecords]
  BY DEF ChooseInv, ChooseType, copy_fails, SetChooser, NoRequest, ChooserRecords
<1>5. UNCHANGED <<currentValue, asked>> /\ SetChooser(c, NoRequest)
  BY DEF copy_fails
<1>6. ChooseType'
  BY <1>3, <1>4, <1>5 DEF ChooseInv, ChooseType
<1> QED
  BY <1>1, <1>5, <1>6, ChooseEnds DEF ChooseInv

(* What is chosen is what was written, if nobody else wrote.               *)
LEMMA ChooseSet ==
    ASSUME ChooseInv, NEW c \in Choosers, SelectionSet(c)
    PROVE  ChooseInv'
<1>1. chooser[c] \in ChooserRecords /\ chooser[c].pc = "test"
  BY DEF ChooseInv, ChooseType, SelectionSet, ChooserAt
<1>2. PICK k \in 1 .. 4 : k = chooser[c].k
  BY <1>1 DEF ChooserRecords
<1>3. /\ currentValue' = Criteria[k] /\ asked' = Wish(c) /\ SetChooser(c, NoRequest)
      /\ UNCHANGED sortingBuf /\ Criteria[k] \in sortingBuf.from
  BY <1>2 DEF SelectionSet, MayEqual
<1>4. chooser' \in [Choosers -> ChooserRecords]
  BY <1>3 DEF ChooseInv, ChooseType, SetChooser, NoRequest, ChooserRecords
<1>5. ChooseType'
  BY <1>3, <1>4, CriteriaWords DEF ChooseInv, ChooseType
<1>6. asked' \in {None, currentValue'}
  <2>1. CASE chooser[c].overlapped
    BY <1>3, <2>1 DEF Wish
  <2>2. CASE ~chooser[c].overlapped
    <3>1. sortingBuf.from = {chooser[c].req.word}
      BY <1>1, <2>2 DEF ChooseInv, AloneInv
    <3>2. chooser[c].req.word = Criteria[k]
      BY <1>3, <3>1
    <3> QED
      BY <1>3, <2>2, <3>2 DEF Wish
  <2> QED
    BY <2>1, <2>2
<1> QED
  BY <1>1, <1>3, <1>5, <1>6, ChooseEnds

(* A word that no test recognises changes nothing.                         *)
LEMMA ChooseTest ==
    ASSUME ChooseInv, NEW c \in Choosers, SelectionTest(c)
    PROVE  ChooseInv'
<1>1. chooser[c] \in ChooserRecords /\ chooser[c].pc = "test"
  BY DEF ChooseInv, ChooseType, SelectionTest, ChooserAt
<1>2. PICK k \in 1 .. 4 : k = chooser[c].k
  BY <1>1 DEF ChooserRecords
<1>3. UNCHANGED <<currentValue, sortingBuf>> /\ (sortingBuf.from # {Criteria[k]} \/ sortingBuf.space)
  BY <1>2 DEF SelectionTest, MayDiffer
<1>4. ASSUME ~chooser[c].overlapped
      PROVE  /\ AloneInv(c) /\ Criteria[k] # chooser[c].req.word
  <2>1. AloneInv(c)
    BY <1>1, <1>4 DEF ChooseInv
  <2> QED
    BY <1>1, <1>3, <2>1 DEF AloneInv
<1>5. CASE k < 4
  <2>1. PICK r : r = [chooser[c] EXCEPT !.k = k + 1]
    OBVIOUS
  <2>2. k + 1 \in 1 .. 4
    BY <1>5
  <2>3. /\ r \in ChooserRecords /\ r.pc = "test" /\ r.req = chooser[c].req
        /\ r.overlapped = chooser[c].overlapped /\ r.k = k + 1
    BY <1>1, <2>1, <2>2 DEF ChooserRecords
  <2>4. OwnStep(c, r) /\ UNCHANGED asked
    BY <1>2, <1>5, <2>1, <2>3 DEF SelectionTest, SetChooser, OwnStep
  <2>5. /\ chooser' \in [Choosers -> ChooserRecords]
        /\ chooser'[c] = r
        /\ \A d \in Choosers : d # c => chooser'[d] = chooser[d]
        /\ \A d \in Choosers : chooser'[d].pc # "idle" /\ ~chooser'[d].overlapped =>
               /\ d = c /\ AloneInv(c)
               /\ \A e \in Choosers : e # c => chooser'[e].pc = "idle"
    BY <1>1, <2>3, <2>4, ChooseOwn DEF ChooseInv
  <2>6. ChooseType'
    BY <1>3, <2>5 DEF ChooseInv, ChooseType
  <2>7. ASSUME NEW d \in Choosers, chooser'[d].pc # "idle", ~chooser'[d].overlapped PROVE AloneInv(d)'
    <3>1. d = c /\ AloneInv(c) /\ \A e \in Choosers : e # c => chooser'[e].pc = "idle"
      BY <2>5, <2>7
    <3>2. \A x \in 1 .. 4 : x < k => Criteria[x] # chooser[c].req.word
      BY <1>1, <1>2, <3>1 DEF AloneInv
    <3>3. Criteria[k] # chooser[c].req.word
      BY <1>4, <2>3, <2>5, <2>7, <3>1
    <3>4. \A x \in 1 .. 4 : x < k + 1 => x < k \/ x = k
      OBVIOUS
    <3>5. \A x \in 1 .. 4 : x < chooser'[c].k => Criteria[x] # chooser'[c].req.word
      BY <2>3, <2>5, <3>2, <3>3, <3>4
    <3>6. sortingBuf'.from = {chooser'[c].req.word} /\ ~sortingBuf'.space
      BY <1>1, <1>3, <2>3, <2>5, <3>1 DEF AloneInv
    <3> QED
      BY <2>3, <2>5, <3>1, <3>5, <3>6 DEF AloneInv
  <2> QED
    BY <1>3, <2>4, <2>6, <2>7 DEF ChooseInv
<1>6. CASE ~ (k < 4)
  <2>1. SetChooser(c, NoRequest) /\ asked' = Wish(c)
    BY <1>2, <1>6 DEF SelectionTest
  <2>2. chooser' \in [Choosers -> ChooserRecords]
    BY <2>1 DEF ChooseInv, ChooseType, SetChooser, NoRequest, ChooserRecords
  <2>3. ChooseType'
    BY <1>3, <2>2 DEF ChooseInv, ChooseType
  <2>4. asked' \in {None, currentValue'}
    <3>1. CASE chooser[c].overlapped
      BY <2>1, <3>1 DEF Wish
    <3>2. CASE ~chooser[c].overlapped
      <4>1. \A x \in 1 .. 4 : x < k => Criteria[x] # chooser[c].req.word
        BY <1>1, <1>2, <1>4, <3>2 DEF AloneInv
      <4>2. \A x \in 1 .. 4 : x < k \/ x = k
        BY <1>6
      <4>3. ~ \E x \in 1 .. 4 : Criteria[x] = chooser[c].req.word
        BY <1>4, <3>2, <4>1, <4>2
      <4> QED
        BY <1>3, <2>1, <3>2, <4>3 DEF Wish, ChooseInv
    <3> QED
      BY <3>1, <3>2
  <2> QED
    BY <1>1, <2>1, <2>3, <2>4, ChooseEnds
<1> QED
  BY <1>5, <1>6

(* The rows of a table.                                                    *)
LEMMA TableRows ==
    ASSUME NEW t \in Tables
    PROVE  /\ Len(t) \in Nat /\ DOMAIN t = 1 .. Len(t) /\ \A k \in 1 .. Len(t) : t[k] \in Rows
           /\ \A a, b \in 1 .. Len(t) : t[a].pid = t[b].pid => a = b
  BY ProcMonAssumption

(* A listing starts with the rows as for_each_process meets them.          *)
LEMMA ListingStarts ==
    ASSUME ChooseInv, ListingInv, NEW l \in Listers, for_each_process(l)
    PROVE  ListingInv'
<1>1. PICK t \in Tables : lister' = [lister EXCEPT ![l] =
          [NoListing EXCEPT !.pc = Round(Len(t), 0), !.data = [k \in DOMAIN t |-> Sample(t[k])]]]
  BY DEF for_each_process
<1>2. PICK n \in Nat : n = Len(t)
  BY TableRows
<1>3. PICK d : d = [k \in 1 .. n |-> Sample(t[k])]
  OBVIOUS
<1>4. DOMAIN t = 1 .. n /\ \A k \in 1 .. n : t[k] \in Rows
  BY <1>2, TableRows
<1>5. d \in Seq(DataRows) /\ Len(d) = n /\ \A k \in 1 .. n : d[k] = Sample(t[k])
  <2>1. d \in [1 .. n -> DataRows]
    BY <1>3, <1>4, SampleType
  <2> QED
    BY <1>3, <2>1
<1>6. PICK r : r = [pc |-> Round(n, 0), data |-> d, i |-> 0, j |-> 0, disturbed |-> FALSE]
  OBVIOUS
<1>7. lister' = [lister EXCEPT ![l] = r]
  <2>1. lister' = [lister EXCEPT ![l] = [NoListing EXCEPT !.pc = Round(n, 0), !.data = d]]
    BY <1>1, <1>2, <1>3, <1>4
  <2>2. PICK w : w = Round(n, 0)
    OBVIOUS
  <2>3. [NoListing EXCEPT !.pc = w, !.data = d] = r
    <3>1. PICK z, f : z = << >> /\ f = FALSE
      OBVIOUS
    <3>2. NoListing = [pc |-> "idle", data |-> z, i |-> 0, j |-> 0, disturbed |-> f]
      BY <3>1 DEF NoListing
    <3>3. PICK b : b = [NoListing EXCEPT !.pc = w]
      OBVIOUS
    <3>4. b = [pc |-> w, data |-> z, i |-> 0, j |-> 0, disturbed |-> f]
      BY <3>2, <3>3
    <3>5. [b EXCEPT !.data = d] = [pc |-> w, data |-> d, i |-> 0, j |-> 0, disturbed |-> f]
      BY <3>4
    <3> QED
      BY <1>6, <2>2, <3>1, <3>3, <3>5
  <2> QED
    BY <2>1, <2>2, <2>3
<1>8. Round(n, 0) \in {"sort", "print"}
  BY DEF Round
<1>9. r \in ListerRecords
  BY <1>5, <1>6, <1>8 DEF ListerRecords
<1>10. PICK p : p = [k \in 1 .. n |-> k]
  OBVIOUS
<1>11. Permutes(p, n)
  BY <1>10 DEF Permutes
<1>12. Rounds(r, n)
  BY <1>6 DEF Rounds, Round
<1>13. Ordered(Keys(d, currentValue), p, n, 0, 0)
  BY <1>10 DEF Ordered
<1>14. \A k \in 1 .. n : r.data[k] = Sample(t[p[k]])
  BY <1>5, <1>6, <1>10
<1>15. SortInv(r, t, p)'
  <2>1. SortInv(r, t, p)
    BY <1>2, <1>5, <1>6, <1>11, <1>12, <1>13, <1>14 DEF SortInv
  <2>2. currentValue' = currentValue
    BY DEF for_each_process
  <2> QED
    BY <2>1, <2>2 DEF SortInv
<1>16. ASSUME NEW m \in Listers, m # l, lister'[m].pc # "idle"
       PROVE  \E u \in Tables : \E q : SortInv(lister[m], u, q)'
  <2>1. lister'[m] = lister[m]
    BY <1>7, <1>16 DEF ListingInv
  <2>2. PICK u \in Tables : \E q : SortInv(lister[m], u, q)
    BY <1>16, <2>1 DEF ListingInv
  <2>3. PICK q : SortInv(lister[m], u, q)
    BY <2>2
  <2>4. SortInv(lister[m], u, q)'
    BY <2>1, <2>3 DEF SortInv, for_each_process
  <2> QED
    BY <2>4
<1>17. lister' \in [Listers -> ListerRecords] /\ lister'[l] = r
  BY <1>7, <1>9 DEF ListingInv
<1>18. SortInv(lister[l], t, p)'
  BY <1>15, <1>17
<1> QED
  BY <1>16, <1>17, <1>18 DEF ListingInv

(* A listing is printed and gone.                                          *)
LEMMA ListingEnds ==
    ASSUME ListingInv, NEW l \in Listers, Printed(l)
    PROVE  ListingInv'
<1>1. NoListing \in ListerRecords /\ NoListing.pc = "idle"
  BY DEF NoListing, ListerRecords
<1>2. lister' \in [Listers -> ListerRecords] /\ lister'[l].pc = "idle"
  BY <1>1 DEF Printed, ListingInv
<1>3. ASSUME NEW m \in Listers, lister'[m].pc # "idle"
      PROVE  \E u \in Tables : \E q : SortInv(lister[m], u, q)'
  <2>1. lister'[m] = lister[m]
    BY <1>2, <1>3 DEF ListingInv, Printed
  <2>2. PICK u \in Tables : \E q : SortInv(lister[m], u, q)
    BY <1>3, <2>1 DEF ListingInv
  <2>3. PICK q : SortInv(lister[m], u, q)
    BY <2>2
  <2>4. SortInv(lister[m], u, q)'
    BY <2>1, <2>3 DEF SortInv, Printed
  <2> QED
    BY <2>4
<1> QED
  BY <1>2, <1>3 DEF ListingInv

(* Setting the criterion disturbs every listing in progress.               *)
LEMMA ListingDisturbed ==
    ASSUME ListingInv, NEW c \in Choosers, SelectionSet(c)
    PROVE  ListingInv'
<1>1. lister' = [l \in Listers |->
          IF lister[l].pc = "idle" THEN lister[l] ELSE [lister[l] EXCEPT !.disturbed = TRUE]]
  BY DEF SelectionSet
<1>2. ASSUME NEW l \in Listers
      PROVE  /\ lister'[l] \in ListerRecords /\ lister'[l].pc = lister[l].pc
             /\ lister'[l].data = lister[l].data /\ lister'[l].i = lister[l].i
             /\ lister'[l].j = lister[l].j
             /\ lister[l].pc # "idle" => lister'[l].disturbed
  BY <1>1 DEF ListingInv, ListerRecords
<1>3. ASSUME NEW l \in Listers, lister'[l].pc # "idle"
      PROVE  \E t \in Tables : \E p : SortInv(lister[l], t, p)'
  <2>1. PICK t \in Tables : \E p : SortInv(lister[l], t, p)
    BY <1>2, <1>3 DEF ListingInv
  <2>2. PICK p : SortInv(lister[l], t, p)
    BY <2>1
  <2>3. Rounds(lister'[l], Len(t))
    BY <1>2, <2>2 DEF SortInv, Rounds
  <2>4. SortInv(lister[l], t, p)'
    BY <1>2, <1>3, <2>2, <2>3 DEF SortInv
  <2> QED
    BY <2>4
<1> QED
  BY <1>1, <1>2, <1>3 DEF ListingInv

(* The keys of exchanged rows are the exchanged keys.                      *)
LEMMA SwapKeys ==
    ASSUME NEW n \in Nat, NEW d \in [1 .. n -> DataRows], NEW m \in 1 .. n - 1,
           NEW c \in CriterionWords
    PROVE  /\ Keys(d, c) \in [1 .. n -> Int]
           /\ Keys(Swap(d, m), c) = Swap(Keys(d, c), m)
<1>1. m \in 1 .. n /\ m + 1 \in 1 .. n /\ m # m + 1
  OBVIOUS
<1>2. Keys(d, c) \in [1 .. n -> Int] /\ \A k \in 1 .. n : Keys(d, c)[k] = Key(d[k], c)
  BY KeyType DEF Keys
<1>3. PICK K : K = Keys(d, c)
  OBVIOUS
<1>4. PICK e : e = Swap(d, m)
  OBVIOUS
<1>5. e \in [1 .. n -> DataRows] /\ Swapped(d, e, n, m)
  BY <1>4, SwapValues
<1>6. Keys(e, c) \in [1 .. n -> Int] /\ \A k \in 1 .. n : Keys(e, c)[k] = Key(e[k], c)
  BY <1>5, KeyType DEF Keys
<1>7. Swap(K, m) \in [1 .. n -> Int] /\ Swapped(K, Swap(K, m), n, m)
  BY <1>2, <1>3, SwapValues
<1>8. ASSUME NEW k \in 1 .. n PROVE Keys(e, c)[k] = Swap(K, m)[k]
  <2>1. PICK x \in 1 .. n : Origin(k, x, m)
    BY OriginExists
  <2>2. e[k] = d[x]
    BY <1>5, <2>1 DEF Origin, Swapped
  <2>3. Swap(K, m)[k] = K[x]
    BY <1>7, <2>1 DEF Origin, Swapped
  <2> QED
    BY <1>2, <1>3, <1>6, <2>2, <2>3
<1>9. Keys(e, c) = Swap(K, m)
  BY <1>6, <1>7, <1>8
<1> QED
  BY <1>2, <1>3, <1>4, <1>9

\* What a comparison at m leaves of the rows d and their origins p.
Compared(d, e, p, q, m) ==
    IF WrongOrder(d[m], d[m + 1]) THEN e = Swap(d, m) /\ q = Swap(p, m) ELSE e = d /\ q = p

(* A comparison exchanges rows of the table.                               *)
LEMMA ComparedRows ==
    ASSUME NEW n \in Nat, NEW d \in [1 .. n -> DataRows], NEW p, Permutes(p, n),
           NEW m \in 1 .. n - 1, NEW t, NEW e, NEW q, Compared(d, e, p, q, m),
           \A k \in 1 .. n : d[k] = Sample(t[p[k]])
    PROVE  /\ e \in [1 .. n -> DataRows] /\ Permutes(q, n)
           /\ \A k \in 1 .. n : e[k] = Sample(t[q[k]])
<1>1. CASE e = d /\ q = p
  BY <1>1
<1>2. CASE e = Swap(d, m) /\ q = Swap(p, m)
  <2>1. e \in [1 .. n -> DataRows] /\ Swapped(d, e, n, m)
    BY <1>2, SwapValues
  <2>2. p \in [1 .. n -> 1 .. n]
    BY DEF Permutes
  <2>3. Swapped(p, q, n, m)
    BY <1>2, <2>2, SwapValues
  <2>4. Permutes(q, n)
    BY <1>2, SwapPermutes
  <2>5. ASSUME NEW k \in 1 .. n PROVE e[k] = Sample(t[q[k]])
    <3>1. PICK x \in 1 .. n : Origin(k, x, m)
      BY OriginExists
    <3>2. e[k] = d[x]
      BY <2>1, <3>1 DEF Origin, Swapped
    <3>3. q[k] = p[x]
      BY <2>3, <3>1 DEF Origin, Swapped
    <3>4. d[x] = Sample(t[p[x]])
      OBVIOUS
    <3> QED
      BY <3>2, <3>3, <3>4
  <2> QED
    BY <2>1, <2>4, <2>5
<1> QED
  BY <1>1, <1>2 DEF Compared

(* And brings their keys closer to the order.                              *)
LEMMA ComparedKeys ==
    ASSUME NEW n \in Nat, NEW i \in Nat, NEW j \in Nat, i < n - 1, j < n - i - 1,
           currentValue \in CriterionWords, NEW d \in [1 .. n -> DataRows], NEW p, Permutes(p, n),
           NEW e, NEW q, Compared(d, e, p, q, j + 1), Permutes(q, n),
           Ordered(Keys(d, currentValue), p, n, i, j)
    PROVE  /\ Ordered(Keys(e, currentValue), q, n, i, j + 1)
           /\ j + 1 >= n - i - 1 => Ordered(Keys(e, currentValue), q, n, i + 1, 0)
<1>1. PICK m \in 1 .. n - 1 : m = j + 1
  <2>1. j + 1 \in 1 .. n - 1
    OBVIOUS
  <2> QED
    BY <2>1
<1>2. m \in 1 .. n /\ m + 1 \in 1 .. n /\ j + 2 = m + 1
  BY <1>1
<1>3. PICK K : K = Keys(d, currentValue)
  OBVIOUS
<1>4. PICK L : L = Keys(e, currentValue)
  OBVIOUS
<1>5. K \in [1 .. n -> Int] /\ Keys(Swap(d, m), currentValue) = Swap(K, m)
  BY <1>3, SwapKeys
<1>6. K[m] = Key(d[m], currentValue) /\ K[m + 1] = Key(d[m + 1], currentValue)
  BY <1>2, <1>3 DEF Keys
<1>7. WrongOrder(d[m], d[m + 1]) <=> K[m] < K[m + 1]
  <2>1. d[m] \in DataRows /\ d[m + 1] \in DataRows
    BY <1>2
  <2> QED
    BY <1>6, <2>1, WrongOrderKey
<1>8. \/ K[m] < K[m + 1] /\ L = Swap(K, m) /\ q = Swap(p, m)
      \/ ~ (K[m] < K[m + 1]) /\ L = K /\ q = p
  BY <1>1, <1>3, <1>4, <1>5, <1>7 DEF Compared
<1>9. L \in [1 .. n -> Int]
  <2>1. Swap(K, m) \in [1 .. n -> Int]
    BY <1>5, SwapValues
  <2> QED
    BY <1>5, <1>8, <2>1
<1>10. p \in [1 .. n -> 1 .. n] /\ q \in [1 .. n -> 1 .. n]
  BY DEF Permutes
<1>11. \/ K[j + 1] < K[j + 2] /\ L = Swap(K, j + 1) /\ q = Swap(p, j + 1)
       \/ ~ (K[j + 1] < K[j + 2]) /\ L = K /\ q = p
  BY <1>1, <1>2, <1>8
<1>12. Ordered(K, p, n, i, j)
  BY <1>3
<1>13. /\ Ordered(L, q, n, i, j + 1)
       /\ j + 1 >= n - i - 1 => Ordered(L, q, n, i + 1, 0)
  BY <1>5, <1>9, <1>10, <1>11, <1>12, ComparisonOrders
<1> QED
  BY <1>4, <1>13

\* The record of a lister, by its fields.
ListerIs(r, pc, d, i, j, o) ==
    r \in ListerRecords /\ r.pc = pc /\ r.data = d /\ r.i = i /\ r.j = j /\ r.disturbed = o

(* The rows and the place in the inner loop are replaced.                  *)
LEMMA ListerInner ==
    ASSUME NEW a, NEW pc, NEW c, NEW i, NEW k, NEW o, ListerIs(a, pc, c, i, k, o),
           NEW d \in Seq(DataRows), NEW j \in Nat
    PROVE  ListerIs([a EXCEPT !.data = d, !.j = j], pc, d, i, j, o)
<1>1. PICK S : S = Seq(DataRows)
  OBVIOUS
<1>2. PICK b : b = [a EXCEPT !.data = d]
  OBVIOUS
<1>3. ListerIs(b, pc, d, i, k, o)
  BY <1>1, <1>2 DEF ListerIs, ListerRecords
<1>4. ListerIs([b EXCEPT !.j = j], pc, d, i, j, o)
  BY <1>1, <1>3 DEF ListerIs, ListerRecords
<1> QED
  BY <1>2, <1>4

(* One comparison of a sort, and the loops after it.                       *)
LEMMA ListingSorts ==
    ASSUME ChooseInv, ListingInv, NEW l \in Listers, bubblesort(l)
    PROVE  ListingInv'
<1>1. lister[l] \in ListerRecords /\ lister[l].pc = "sort" /\ currentValue' = currentValue
  BY DEF ListingInv, bubblesort
<1>2. PICK t \in Tables : \E p : SortInv(lister[l], t, p)
  BY <1>1 DEF ListingInv
<1>3. PICK p : SortInv(lister[l], t, p)
  BY <1>2
<1>4. PICK n \in Nat : n = Len(t)
  BY TableRows
<1>5. PICK d \in Seq(DataRows), i \in Nat, j \in Nat, o \in BOOLEAN :
          d = lister[l].data /\ i = lister[l].i /\ j = lister[l].j /\ o = lister[l].disturbed
  BY <1>1 DEF ListerRecords
<1>6. /\ Len(d) = n /\ d \in [1 .. n -> DataRows] /\ Permutes(p, n) /\ i < n - 1 /\ j < n - i - 1
      /\ \A k \in 1 .. n : d[k] = Sample(t[p[k]])
      /\ o \/ Ordered(Keys(d, currentValue), p, n, i, j)
  BY <1>1, <1>3, <1>4, <1>5 DEF SortInv, Rounds
<1>7. PICK m : m = j + 1
  OBVIOUS
<1>8. m \in 1 .. n - 1 /\ j + 2 = m + 1
  BY <1>6, <1>7
<1>9. PICK e : e = IF WrongOrder(d[m], d[m + 1]) THEN Swap(d, m) ELSE d
  OBVIOUS
<1>10. PICK q : q = IF WrongOrder(d[m], d[m + 1]) THEN Swap(p, m) ELSE p
  OBVIOUS
<1>11. Compared(d, e, p, q, m)
  BY <1>9, <1>10 DEF Compared
<1>12. /\ e \in [1 .. n -> DataRows] /\ Permutes(q, n)
       /\ \A k \in 1 .. n : e[k] = Sample(t[q[k]])
  BY <1>6, <1>8, <1>11, ComparedRows
<1>13. ASSUME ~ o
       PROVE  /\ Ordered(Keys(e, currentValue), q, n, i, j + 1)
              /\ j + 1 >= n - i - 1 => Ordered(Keys(e, currentValue), q, n, i + 1, 0)
  <2>1. currentValue \in CriterionWords
    BY DEF ChooseInv, ChooseType
  <2>2. Compared(d, e, p, q, j + 1)
    BY <1>7, <1>11
  <2> QED
    BY <1>6, <1>12, <1>13, <2>1, <2>2, ComparedKeys
<1>14. e \in Seq(DataRows) /\ Len(e) = n
  BY <1>12
<1>15. PICK r : r = IF j + 1 < n - i - 1
                    THEN [lister[l] EXCEPT !.data = e, !.j = j + 1]
                    ELSE [lister[l] EXCEPT !.data = e, !.j = 0, !.i = i + 1, !.pc = Round(n, i + 1)]
  OBVIOUS
<1>16. lister' = [lister EXCEPT ![l] = r]
  BY <1>1, <1>5, <1>6, <1>7, <1>8, <1>9, <1>15 DEF bubblesort, InnerEnd, ListingInv
<1>17. r \in ListerRecords /\ SortInv(r, t, q)
  <2>1. CASE j + 1 < n - i - 1
    <3>1. /\ r \in ListerRecords /\ r.pc = "sort" /\ r.data = e /\ r.i = i /\ r.j = j + 1
          /\ r.disturbed = o
      <4>1. ListerIs(lister[l], "sort", d, i, j, o)
        BY <1>1, <1>5 DEF ListerIs
      <4>2. r = [lister[l] EXCEPT !.data = e, !.j = j + 1] /\ j + 1 \in Nat
        BY <1>15, <2>1
      <4>3. ListerIs(r, "sort", e, i, j + 1, o)
        BY <1>14, <4>1, <4>2, ListerInner
      <4> QED
        BY <4>3 DEF ListerIs
    <3>2. Rounds(r, n)
      BY <1>6, <2>1, <3>1 DEF Rounds
    <3> QED
      BY <1>4, <1>12, <1>13, <1>14, <3>1, <3>2 DEF SortInv
  <2>2. CASE ~ (j + 1 < n - i - 1)
    <3>1. PICK w \in {"sort", "print"} : w = Round(n, i + 1)
      BY DEF Round
    <3>2. r = [lister[l] EXCEPT !.data = e, !.j = 0, !.i = i + 1, !.pc = w]
      BY <1>15, <2>2, <3>1
    <3>3. /\ r \in ListerRecords /\ r.pc = w /\ r.data = e /\ r.i = i + 1 /\ r.j = 0
          /\ r.disturbed = o
      <4>1. ListerIs(lister[l], "sort", d, i, j, o)
        BY <1>1, <1>5 DEF ListerIs
      <4>2. PICK h \in Nat, z \in Nat : h = i + 1 /\ z = 0
        OBVIOUS
      <4>3. PICK b : b = [lister[l] EXCEPT !.data = e, !.j = z]
        OBVIOUS
      <4>4. ListerIs(b, "sort", e, i, z, o)
        BY <1>14, <4>1, <4>3, ListerInner
      <4>5. PICK c : c = [b EXCEPT !.i = h]
        OBVIOUS
      <4>6. ListerIs(c, "sort", e, h, z, o)
        BY <4>4, <4>5 DEF ListerIs, ListerRecords
      <4>7. ListerIs([c EXCEPT !.pc = w], w, e, h, z, o)
        BY <4>6 DEF ListerIs, ListerRecords
      <4>8. r = [c EXCEPT !.pc = w]
        BY <3>2, <4>2, <4>3, <4>5
      <4>9. ListerIs(r, w, e, h, z, o)
        BY <4>7, <4>8
      <4> QED
        BY <4>2, <4>9 DEF ListerIs
    <3>4. Rounds(r, n)
      BY <3>1, <3>3 DEF Rounds, Round
    <3>5. j + 1 >= n - i - 1
      BY <2>2
    <3> QED
      BY <1>4, <1>12, <1>13, <1>14, <3>3, <3>4, <3>5 DEF SortInv
  <2> QED
    BY <2>1, <2>2
<1>18. lister' \in [Listers -> ListerRecords] /\ lister'[l] = r
  BY <1>16, <1>17 DEF ListingInv
<1>19. SortInv(lister[l], t, q)'
  BY <1>1, <1>17, <1>18 DEF SortInv
<1>20. ASSUME NEW x \in Listers, x # l, lister'[x].pc # "idle"
       PROVE  \E u \in Tables : \E s : SortInv(lister[x], u, s)'
  <2>1. lister'[x] = lister[x]
    BY <1>16, <1>20 DEF ListingInv
  <2>2. PICK u \in Tables : \E s : SortInv(lister[x], u, s)
    BY <1>20, <2>1 DEF ListingInv
  <2>3. PICK s : SortInv(lister[x], u, s)
    BY <2>2
  <2>4. SortInv(lister[x], u, s)'
    BY <1>1, <2>1, <2>3 DEF SortInv
  <2> QED
    BY <2>4
<1> QED
  BY <1>18, <1>19, <1>20 DEF ListingInv

(* A reading of what is chosen, and of the listings, that nothing touched. *)
LEMMA PmUntouched ==
    /\ ChooseInv /\ UNCHANGED <<currentValue, sortingBuf, chooser, asked>> => ChooseInv'
    /\ ListingInv /\ UNCHANGED <<currentValue, lister>> => ListingInv'
<1>1. ASSUME ChooseInv, UNCHANGED <<currentValue, sortingBuf, chooser, asked>> PROVE ChooseInv'
  BY <1>1 DEF ChooseInv, ChooseType, AloneInv
<1>2. ASSUME ListingInv, UNCHANGED <<currentValue, lister>> PROVE ListingInv'
  BY <1>2 DEF ListingInv, SortInv
<1> QED
  BY <1>1, <1>2

(* procmon as it is loaded.                                                *)
LEMMA PmLoaded == PmInit => PmInv
<1>1. SUFFICES ASSUME PmInit PROVE PmInv
  OBVIOUS
<1>2. NoRequest \in ChooserRecords /\ NoRequest.pc = "idle"
  BY DEF NoRequest, ChooserRecords
<1>3. NoListing \in ListerRecords /\ NoListing.pc = "idle"
  BY DEF NoListing, ListerRecords
<1>4. Cleared \in [from : SUBSET Words, space : BOOLEAN]
  BY DEF Cleared
<1>5. ChooseInv
  BY <1>1, <1>2, <1>4 DEF PmInit, ChooseInv, ChooseType, CriterionWords
<1>6. ListingInv
  BY <1>1, <1>3 DEF PmInit, ListingInv
<1> QED
  BY <1>5, <1>6 DEF PmInv

(* And as it is removed, when nobody uses it.                              *)
LEMMA PmUnloads ==
    ASSUME PmInv, exit_procmon
    PROVE  PmInv'
<1>1. /\ currentValue' = "pid" /\ asked' = "pid" /\ sortingBuf' = Cleared
      /\ chooser' = chooser /\ lister' = lister
      /\ \A c \in Choosers : chooser[c].pc = "idle"
      /\ \A l \in Listers : lister[l].pc = "idle"
  BY DEF exit_procmon, ChooserAt
<1>2. Cleared \in [from : SUBSET Words, space : BOOLEAN]
  BY DEF Cleared
<1>3. ChooseInv'
  BY <1>1, <1>2 DEF PmInv, ChooseInv, ChooseType, CriterionWords
<1>4. ListingInv'
  BY <1>1 DEF PmInv, ListingInv
<1> QED
  BY <1>3, <1>4 DEF PmInv

(* Every step keeps the invariant.                                         *)
LEMMA PmInvStep == PmInv /\ [KernelNext]_allVars => PmInv'
<1>1. SUFFICES ASSUME PmInv, [KernelNext]_allVars PROVE PmInv'
  OBVIOUS
<1>2. ChooseInv /\ ListingInv
  BY <1>1 DEF PmInv
<1>3. CASE UNCHANGED pmVars
  BY <1>2, <1>3, PmUntouched DEF pmVars, PmInv
<1>4. CASE PmNext
  <2>1. CASE \E c \in Choosers : \/ SelectionMemset(c) \/ copy_from_user(c) \/ copy_fails(c)
                                \/ Trim(c) \/ SelectionSet(c) \/ SelectionTest(c)
    <3>1. PICK c \in Choosers : \/ SelectionMemset(c) \/ copy_from_user(c) \/ copy_fails(c)
                                \/ Trim(c) \/ SelectionSet(c) \/ SelectionTest(c)
      BY <2>1
    <3>2. ChooseInv'
      BY <1>2, <3>1, ChooseMemset, ChooseCopy, ChooseFails, ChooseTrim, ChooseSet, ChooseTest
    <3>3. CASE SelectionSet(c)
      BY <1>2, <3>2, <3>3, ListingDisturbed DEF PmInv
    <3>4. CASE UNCHANGED <<currentValue, lister>>
      BY <1>2, <3>2, <3>4, PmUntouched DEF PmInv
    <3>5. SelectionSet(c) \/ UNCHANGED <<currentValue, lister>>
      BY <3>1 DEF SelectionMemset, copy_from_user, copy_fails, Trim, SelectionTest
    <3> QED
      BY <3>3, <3>4, <3>5
  <2>2. CASE \E l \in Listers : for_each_process(l) \/ bubblesort(l) \/ Printed(l)
    <3>1. PICK l \in Listers : for_each_process(l) \/ bubblesort(l) \/ Printed(l)
      BY <2>2
    <3>2. ListingInv'
      BY <1>2, <3>1, ListingStarts, ListingSorts, ListingEnds
    <3>3. UNCHANGED <<currentValue, sortingBuf, chooser, asked>>
      BY <3>1 DEF for_each_process, bubblesort, Printed
    <3> QED
      BY <1>2, <3>2, <3>3, PmUntouched DEF PmInv
  <2> QED
    BY <1>4, <2>1, <2>2 DEF PmNext
<1>5. CASE exit_procmon
  BY <1>1, <1>5, PmUnloads
<1>6. UNCHANGED pmVars \/ PmNext \/ exit_procmon
  BY <1>1 DEF KernelNext, allVars, InList, InHw, InPm, InLeds
<1> QED
  BY <1>3, <1>4, <1>5, <1>6

(* The inductive invariant of the process monitor.                         *)
THEOREM PmInvariant == KernelSpec => []PmInv
<1>1. KernelInit => PmInv
  BY PmLoaded DEF KernelInit
<1> QED
  BY <1>1, PmInvStep, PTL DEF KernelSpec

(* A sort that has ended has the rows of the table it started from.        *)
LEMMA SortedRows ==
    ASSUME NEW r \in ListerRecords, NEW t \in Tables, NEW p, SortInv(r, t, p)
    PROVE  RowsOf(r.data, t)
<1>1. PICK n \in Nat : n = Len(t)
  BY TableRows
<1>2. DOMAIN t = 1 .. n /\ DOMAIN r.data = 1 .. n /\ Len(r.data) = n
  BY <1>1, TableRows DEF SortInv, ListerRecords
<1>3. /\ p \in [1 .. n -> 1 .. n] /\ \A k \in 1 .. n : r.data[k] = Sample(t[p[k]])
      /\ \A x \in 1 .. n : \E k \in 1 .. n : p[k] = x
  BY <1>1 DEF SortInv, Permutes
<1>4. {r.data[k] : k \in 1 .. n} = {Sample(t[k]) : k \in 1 .. n}
  <2>1. ASSUME NEW x \in 1 .. n PROVE \E k \in 1 .. n : r.data[k] = Sample(t[x])
    <3>1. PICK k \in 1 .. n : p[k] = x
      BY <1>3
    <3> QED
      BY <1>3, <3>1
  <2>2. ASSUME NEW k \in 1 .. n PROVE \E x \in 1 .. n : r.data[k] = Sample(t[x])
    <3>1. p[k] \in 1 .. n
      BY <1>3
    <3> QED
      BY <1>3, <3>1
  <2> QED
    BY <2>1, <2>2
<1> QED
  BY <1>1, <1>2, <1>4 DEF RowsOf

(* In the order of their keys, unless a write came between.                *)
LEMMA SortedOrder ==
    ASSUME NEW r \in ListerRecords, NEW t \in Tables, NEW p, SortInv(r, t, p), r.pc = "print",
           ~r.disturbed, currentValue \in CriterionWords
    PROVE  SortedBy(r.data, t, currentValue)
<1>1. PICK n \in Nat : n = Len(t)
  BY TableRows
<1>2. PICK d \in Seq(DataRows), i \in Nat : d = r.data /\ i = r.i
  BY DEF ListerRecords
<1>3. DOMAIN t = 1 .. n /\ Len(d) = n /\ DOMAIN d = 1 .. n /\ \A k \in 1 .. n : t[k] \in Rows
  BY <1>1, <1>2, TableRows DEF SortInv
<1>4. PICK K : K = Keys(d, currentValue)
  OBVIOUS
<1>5. ASSUME NEW k \in 1 .. n PROVE K[k] = Key(d[k], currentValue) /\ K[k] \in Int
  BY <1>3, <1>4, KeyType DEF Keys
<1>6. i >= n - 1 /\ Ordered(K, p, n, i, 0)
  BY <1>1, <1>2, <1>4 DEF SortInv, Rounds
<1>7. p \in [1 .. n -> 1 .. n] /\ \A k \in 1 .. n : d[k] = Sample(t[p[k]])
  BY <1>1, <1>2 DEF SortInv, Permutes
<1>8. ASSUME NEW k \in 1 .. n PROVE p[k] \in 1 .. n /\ t[p[k]].pid = d[k].pid
  <2>1. p[k] \in 1 .. n
    BY <1>7
  <2> QED
    BY <1>3, <1>7, <2>1, SampleType
<1>9. ASSUME NEW a \in 1 .. n, NEW b \in 1 .. n, a < b
      PROVE  \/ Key(d[a], currentValue) > Key(d[b], currentValue)
             \/ /\ Key(d[a], currentValue) = Key(d[b], currentValue)
                /\ \E x, y \in 1 .. n : x < y /\ t[x].pid = d[a].pid /\ t[y].pid = d[b].pid
  <2>1. b > n - i
    BY <1>6, <1>9
  <2>2. K[a] >= K[b] /\ (K[a] = K[b] => p[a] < p[b])
    BY <1>6, <1>9, <2>1 DEF Ordered
  <2>3. K[a] > K[b] \/ K[a] = K[b]
    BY <1>5, <2>2
  <2> QED
    BY <1>5, <1>8, <2>2, <2>3
<1>10. RowsOf(d, t)
  BY <1>2, SortedRows
<1>11. SortedBy(d, t, currentValue)
  BY <1>3, <1>9, <1>10 DEF SortedBy
<1> QED
  BY <1>2, <1>11

(* A listing of procmon has every process once, and is sorted, stably, as  *)
(* was asked for last: whatever the tables, the requests and the number of *)
(* readers and writers, although the writers share one buffer and nothing  *)
(* is locked.                                                              *)
THEOREM ListingsAreAsAsked == KernelSpec => []ListingAsAsked
<1>1. PmInv => ListingAsAsked
  <2>1. SUFFICES ASSUME PmInv, NEW l \in Listers, lister[l].pc = "print"
                 PROVE  /\ \E t \in Tables : RowsOf(lister[l].data, t)
                        /\ \/ lister[l].disturbed \/ asked = None
                           \/ \E t \in Tables : SortedBy(lister[l].data, t, asked)
    BY DEF ListingAsAsked
  <2>2. lister[l] \in ListerRecords
    BY <2>1 DEF PmInv, ListingInv
  <2>3. PICK t \in Tables : \E p : SortInv(lister[l], t, p)
    BY <2>1 DEF PmInv, ListingInv
  <2>4. PICK p : SortInv(lister[l], t, p)
    BY <2>3
  <2>5. RowsOf(lister[l].data, t)
    BY <2>2, <2>4, SortedRows
  <2>6. currentValue \in CriterionWords /\ asked \in {None, currentValue}
    BY <2>1 DEF PmInv, ChooseInv, ChooseType
  <2>7. ~lister[l].disturbed => SortedBy(lister[l].data, t, currentValue)
    BY <2>1, <2>2, <2>4, <2>6, SortedOrder
  <2> QED
    BY <2>5, <2>6, <2>7
<1> QED
  BY <1>1, PmInvariant, PTL

----------------------------------------------------------------------------
(* The driver of hw1.                                                      *)

USE DEF HwAt, HwGoto, HwHolds

Inside == {"modify", "store", "drop", "unlock"}

HwTypeOK ==
    /\ stack \in [0 .. TopIndex + 1 -> Bytes \cup {0}]
    /\ stackpointer \in -1 .. TopIndex
    /\ hwPc \in [Procs -> {"idle", "lock"} \cup Inside]
    /\ hwWord \in [Procs -> Int]

(* A process between mutex_lock and mutex_unlock is the owner of my_mutex. *)
OwnerInv == \A p \in Procs : hwPc[p] \in Inside <=> my_mutex = p

(* What a process holds at each place of its call.                         *)
WordInv ==
    \A p \in Procs :
        /\ hwPc[p] = "idle" => hwWord[p] = 0
        /\ p \in Providers /\ hwPc[p] \in {"lock", "modify", "store"} => hwWord[p] \in Bytes
        /\ p \in Consumers /\ hwPc[p] \in {"lock", "modify"} => hwWord[p] = 0
        /\ p \in Cleaners => hwWord[p] = 0

(* Between the two accesses of a push or a pop the entry is a valid one.   *)
HalfWayInv ==
    \A p \in Procs :
        /\ hwPc[p] = "store" => p \in Providers /\ stackpointer >= 0
        /\ hwPc[p] = "drop" => /\ p \in Consumers /\ stackpointer >= 0
                               /\ hwWord[p] = stack[stackpointer]

HwInv == HwTypeOK /\ OwnerInv /\ WordInv /\ HalfWayInv

----------------------------------------------------------------------------
(* Initially nobody is in a call and the stack is empty.                   *)
LEMMA InitHwInv == HwInit => HwInv
  BY Hw1Assumption DEF HwInit, HwInv, HwTypeOK, OwnerInv, WordInv, HalfWayInv, Procs, Inside

(* Every step of a process keeps the invariant.                            *)
LEMMA StepHwInv ==
    ASSUME HwInv, NEW p \in Procs, HwStep(p)
    PROVE  HwInv'
<1> USE Hw1Assumption DEF HwInv, HwTypeOK, OwnerInv, WordInv, HalfWayInv, Procs, Inside
<1>1. CASE hw1_write(p)
  BY <1>1 DEF hw1_write
<1>2. CASE hw1_read(p)
  BY <1>2 DEF hw1_read
<1>3. CASE hw1_ioctl(p)
  BY <1>3 DEF hw1_ioctl
<1>4. CASE mutex_lock(p)
  BY <1>4 DEF mutex_lock
<1>5. CASE mutex_unlock(p)
  BY <1>5 DEF mutex_unlock
<1>6. CASE PushFull(p)
  BY <1>6 DEF PushFull, Sentinel
<1>7. CASE PushMove(p)
  BY <1>7 DEF PushMove, full
<1>8. CASE PushStore(p)
  BY <1>8 DEF PushStore
<1>9. CASE PopEmpty(p)
  BY <1>9 DEF PopEmpty, Sentinel
<1>10. CASE PopLoad(p)
  <2>1. stackpointer \in 0 .. TopIndex /\ stackpointer \in 0 .. TopIndex + 1
    BY <1>10 DEF PopLoad, empty
  <2>2. stack[stackpointer] \in Bytes \cup {0}
    BY <2>1
  <2>3. Bytes \cup {0} \subseteq Int
    OBVIOUS
  <2>4. stack[stackpointer] \in Int
    BY <2>2, <2>3
  <2>5. HwTypeOK'
    BY <1>10, <2>4 DEF PopLoad
  <2>6. OwnerInv' /\ WordInv'
    BY <1>10 DEF PopLoad
  <2>7. HalfWayInv'
    BY <1>10, <2>1 DEF PopLoad
  <2> QED
    BY <2>5, <2>6, <2>7
<1>11. CASE PopMove(p)
  BY <1>11 DEF PopMove
<1>12. CASE CleanAll(p)
  BY <1>12 DEF CleanAll
<1> QED
  BY <1>1, <1>2, <1>3, <1>4, <1>5, <1>6, <1>7, <1>8, <1>9, <1>10, <1>11, <1>12 DEF HwStep

(* A removal keeps it.                                                     *)
LEMMA ExitHwInv == ASSUME HwInv, hw1_exit PROVE HwInv'
  BY Hw1Assumption
     DEF hw1_exit, HwInv, HwTypeOK, OwnerInv, WordInv, HalfWayInv, Procs, Inside

(* So does a step of the other modules.                                   *)
LEMMA StutterHwInv == ASSUME HwInv, UNCHANGED hwVars PROVE HwInv'
  BY DEF hwVars, HwInv, HwTypeOK, OwnerInv, WordInv, HalfWayInv, Procs, Inside

(* HwInv holds throughout: only the owner of my_mutex is inside            *)
(* modifyStack, stackpointer stays inside the array although the code only *)
(* compares it for equality with the top and -1, and what a pop has loaded *)
(* is still the top when it moves down.                                    *)
THEOREM Hw1Invariant == HwSpec => []HwInv
<1>1. HwInv /\ [HwNext \/ hw1_exit]_hwVars => HwInv'
  BY StepHwInv, ExitHwInv, StutterHwInv DEF HwNext
<1> QED
  BY <1>1, InitHwInv, PTL DEF HwSpec
----------------------------------------------------------------------------
(* The refinement mapping of Stack, by name.                               *)

HIDE DEF HwGoto, HwHolds

Items == [k \in 1 .. Depth |-> stack[k - 1]]
Phase == [p \in Procs |-> IF HwAt(p, "idle") THEN "idle"
                          ELSE IF HwAt(p, "unlock") THEN "told" ELSE "asked"]
Word  == [p \in Procs |-> IF HwAt(p, "drop") THEN 0 ELSE hw1_result(p)]

(* Storing the next entry appends it.                                      *)
LEMMA NextEntry ==
    ASSUME NEW d \in Nat, NEW n \in Nat, d < n, NEW S, NEW f \in [0 .. n -> S], NEW v \in S
    PROVE  [k \in 1 .. d + 1 |-> [f EXCEPT ![d] = v][k - 1]]
               = Append([k \in 1 .. d |-> f[k - 1]], v)
<1> DEFINE s == [k \in 1 .. d |-> f[k - 1]]
           t == [k \in 1 .. d + 1 |-> [f EXCEPT ![d] = v][k - 1]]
<1>1. s \in Seq(S) /\ Len(s) = d
  OBVIOUS
<1>2. t \in Seq(S) /\ Len(t) = d + 1
  OBVIOUS
<1>3. \A k \in 1 .. d + 1 : t[k] = Append(s, v)[k]
  BY <1>1
<1> HIDE DEF s, t
<1>4. Append(s, v) \in Seq(S) /\ Len(Append(s, v)) = d + 1
  BY <1>1
<1>5. t = Append(s, v)
  BY <1>2, <1>3, <1>4
<1> QED
  BY <1>5 DEF s, t

(* Moving down by one takes the last entry off.                            *)
LEMMA LastEntry ==
    ASSUME NEW d \in Nat \ {0}, NEW f
    PROVE  [k \in 1 .. d - 1 |-> f[k - 1]] = SubSeq([k \in 1 .. d |-> f[k - 1]], 1, d - 1)
  OBVIOUS

(* At most one process is about to store, and it owns the mutex: what      *)
(* counts of the array is a sequence of bytes.                             *)
LEMMA MappedType ==
    ASSUME HwInv
    PROVE  /\ Depth \in 0 .. TopIndex + 1
           /\ Items \in Seq(Bytes \cup {0})
           /\ Len(Items) = Depth
           /\ Phase \in [Procs -> {"idle", "asked", "told"}]
           /\ Word \in [Procs -> Int]
<1>1. Depth \in 0 .. TopIndex + 1
  BY Hw1Assumption DEF HwInv, HwTypeOK, HalfWayInv, Depth
<1>2. \A k \in 1 .. Depth : stack[k - 1] \in Bytes \cup {0}
  BY <1>1, Hw1Assumption DEF HwInv, HwTypeOK
<1>3. Phase \in [Procs -> {"idle", "asked", "told"}]
  BY DEF Phase
<1>4. Word \in [Procs -> Int]
  BY DEF Word, hw1_result, HwInv, HwTypeOK
<1> QED
  BY <1>1, <1>2, <1>3, <1>4 DEF Items

(* Depth by the place of the process that owns the mutex.                  *)
LEMMA DepthInside ==
    ASSUME HwInv, NEW p \in Procs, hwPc[p] \in Inside
    PROVE  Depth = IF hwPc[p] = "store" THEN stackpointer ELSE stackpointer + 1
  BY DEF HwInv, OwnerInv, Inside, Depth

(* A process that moves to another place moves its phase only.             *)
LEMMA PhaseMoves ==
    ASSUME HwInv, NEW p \in Procs, NEW pc, HwGoto(p, pc)
    PROVE  Phase' = [Phase EXCEPT ![p] = IF pc = "idle" THEN "idle"
                                         ELSE IF pc = "unlock" THEN "told" ELSE "asked"]
  BY DEF HwInv, HwTypeOK, Phase, HwGoto

(* A process that moves changes no word but its own.                       *)
LEMMA WordMoves ==
    ASSUME HwInv, NEW p \in Procs, NEW pc, HwGoto(p, pc), NEW v, HwHolds(p, v)
    PROVE  Word' = [Word EXCEPT ![p] =
                      IF pc = "drop" THEN 0
                      ELSE IF p \in Consumers /\ v = Sentinel THEN -1 ELSE v]
  BY DEF HwInv, HwTypeOK, Word, hw1_result, HwGoto, HwHolds

(* The same when it keeps its word.                                        *)
LEMMA WordStays ==
    ASSUME HwInv, NEW p \in Procs, NEW pc, HwGoto(p, pc), UNCHANGED hwWord
    PROVE  Word' = [Word EXCEPT ![p] =
                      IF pc = "drop" THEN 0
                      ELSE IF p \in Consumers /\ hwWord[p] = Sentinel THEN -1 ELSE hwWord[p]]
  BY DEF HwInv, HwTypeOK, Word, hw1_result, HwGoto, HwHolds

(* A step that leaves the array alone and does not begin or end a store    *)
(* leaves the items alone.                                                 *)
LEMMA ItemsStay ==
    ASSUME HwInv, NEW p \in Procs, NEW pc, HwGoto(p, pc), pc # "store", hwPc[p] # "store",
           UNCHANGED <<stack, stackpointer>>
    PROVE  Items' = Items
<1>1. Depth' = Depth
  BY DEF HwInv, HwTypeOK, Depth, HwGoto
<1> QED
  BY <1>1 DEF Items
----------------------------------------------------------------------------
(* Each step of the driver is a step of the stack.                         *)

\* A call begins.
LEMMA AskStep ==
    ASSUME HwInv, NEW p \in Procs, hw1_write(p) \/ hw1_read(p) \/ hw1_ioctl(p)
    PROVE  Stack!StackNext
<1>1. HwAt(p, "idle") /\ HwGoto(p, "lock") /\ UNCHANGED <<stack, stackpointer>>
  BY DEF hw1_write, hw1_read, hw1_ioctl
<1>2. Phase[p] = "idle" /\ Phase' = [Phase EXCEPT ![p] = "asked"] /\ Phase'[p] = "asked"
  <2>1. Phase' = [Phase EXCEPT ![p] = IF "lock" = "idle" THEN "idle"
                                      ELSE IF "lock" = "unlock" THEN "told" ELSE "asked"]
    BY <1>1, PhaseMoves
  <2>2. Phase[p] = "idle"
    BY <1>1 DEF Phase
  <2> QED
    BY <2>1, <2>2, MappedType
<1>3. Items' = Items
  BY <1>1, ItemsStay
<1>4. \E v \in Bytes \cup {0} : Word' = [Word EXCEPT ![p] = v]
  <2>1. CASE hw1_write(p)
    <3>1. PICK v \in Bytes : HwHolds(p, v)
      BY <2>1 DEF hw1_write
    <3>2. ~(p \in Consumers /\ v = Sentinel)
      BY Hw1Assumption DEF Sentinel
    <3>3. Word' = [Word EXCEPT ![p] = IF "lock" = "drop" THEN 0
                        ELSE IF p \in Consumers /\ v = Sentinel THEN -1 ELSE v]
      BY <1>1, <3>1, WordMoves
    <3> QED
      BY <3>2, <3>3
  <2>2. CASE hw1_read(p) \/ hw1_ioctl(p)
    <3>1. hwWord[p] = 0 /\ UNCHANGED hwWord
      BY <1>1, <2>2 DEF HwInv, WordInv, hw1_read, hw1_ioctl
    <3>2. Word' = [Word EXCEPT ![p] = IF "lock" = "drop" THEN 0
                        ELSE IF p \in Consumers /\ hwWord[p] = Sentinel THEN -1 ELSE hwWord[p]]
      BY <1>1, <3>1, WordStays
    <3>3. hwWord[p] # Sentinel
      BY <3>1, SMT DEF Sentinel
    <3> QED
      BY <3>1, <3>2, <3>3
  <2> QED
    BY <2>1, <2>2
<1>5. p \in Stack!Callers
  BY DEF Procs, Stack!Callers
<1>6. PICK v \in Bytes \cup {0} : Stack!Ask(p, v)
  BY <1>2, <1>3, <1>4 DEF Stack!Ask, Items, Phase, Word
<1> QED
  BY <1>2, <1>5, <1>6 DEF Stack!StackNext, Phase

(* The words of a full and an empty stack are no bytes and no sizes.       *)
LEMMA SentinelIsNoByte == Sentinel \notin Bytes \cup {0}
  BY Hw1Assumption, SMT DEF Sentinel

\* Taking the mutex, moving stackpointer before a store and loading before
\* a move do not show.
LEMMA HiddenStep ==
    ASSUME HwInv, HwInv', NEW p \in Procs, mutex_lock(p) \/ PushMove(p) \/ PopLoad(p)
    PROVE  Items' = Items /\ Phase' = Phase /\ Word' = Word
<1>1. CASE mutex_lock(p)
  <2>1. HwGoto(p, "modify") /\ hwPc[p] = "lock" /\ UNCHANGED <<stack, stackpointer, hwWord>>
    BY <1>1 DEF mutex_lock
  <2>2. Items' = Items
    BY <2>1, ItemsStay
  <2>3. Phase' = Phase /\ Word' = Word
    BY <2>1 DEF HwInv, HwTypeOK, Phase, Word, hw1_result, HwGoto
  <2> QED
    BY <2>2, <2>3
<1>2. CASE PushMove(p)
  <2>1. HwGoto(p, "store") /\ hwPc[p] = "modify" /\ UNCHANGED <<stack, hwWord>>
        /\ stackpointer' = stackpointer + 1
    BY <1>2 DEF PushMove
  <2>2. Depth = stackpointer + 1
    BY <2>1, DepthInside DEF Inside
  <2>3. hwPc'[p] = "store"
    BY <2>1 DEF HwGoto, HwInv, HwTypeOK
  <2>4. Depth' = stackpointer'
    BY <2>3 DEF Depth
  <2>5. Items' = Items
    BY <2>1, <2>2, <2>4 DEF Items
  <2>6. Phase' = Phase /\ Word' = Word
    BY <2>1 DEF HwInv, HwTypeOK, Phase, Word, hw1_result, HwGoto
  <2> QED
    BY <2>5, <2>6
<1>3. CASE PopLoad(p)
  <2>1. /\ HwGoto(p, "drop") /\ hwPc[p] = "modify" /\ UNCHANGED <<stack, stackpointer>>
        /\ p \in Consumers /\ hwWord[p] = 0
        /\ hwWord' = [hwWord EXCEPT ![p] = stack[stackpointer]]
    BY <1>3 DEF PopLoad, HwHolds, HwInv, WordInv
  <2>2. Items' = Items
    BY <2>1, ItemsStay
  <2>3. Phase' = Phase
    BY <2>1 DEF HwInv, HwTypeOK, Phase, HwGoto
  <2>4. 0 # Sentinel
    BY SentinelIsNoByte
  <2>5. Word' = Word
    BY <2>1, <2>4 DEF HwInv, HwTypeOK, Word, hw1_result, HwGoto
  <2> QED
    BY <2>2, <2>3, <2>5
<1> QED
  BY <1>1, <1>2, <1>3

(* The effect of the last step of a call, in the words of the stack.       *)
LEMMA TellStep ==
    ASSUME HwInv, NEW p \in Procs, hwPc[p] \in {"modify", "store", "drop"},
           HwGoto(p, "unlock"),
           NEW v, \/ HwHolds(p, v)
                  \/ UNCHANGED hwWord /\ hwWord[p] = v
    PROVE  /\ Phase[p] = "asked" /\ Phase'[p] = "told"
           /\ Stack!Tell(p, IF p \in Consumers /\ v = Sentinel THEN -1 ELSE v)
<1>1. Phase[p] = "asked"
  BY DEF Phase
<1>2. Phase' = [Phase EXCEPT ![p] = IF "unlock" = "idle" THEN "idle"
                                    ELSE IF "unlock" = "unlock" THEN "told" ELSE "asked"]
  BY PhaseMoves
<1>3. Phase' = [Phase EXCEPT ![p] = "told"] /\ Phase'[p] = "told"
  BY <1>2, MappedType
<1>4. Word' = [Word EXCEPT ![p] = IF "unlock" = "drop" THEN 0
                   ELSE IF p \in Consumers /\ v = Sentinel THEN -1 ELSE v]
  BY WordMoves, WordStays
<1>5. Word' = [Word EXCEPT ![p] = IF p \in Consumers /\ v = Sentinel THEN -1 ELSE v]
  BY <1>4
<1> QED
  BY <1>1, <1>3, <1>5 DEF Stack!Tell, Phase, Word

\* Storing the byte is the push; the full stack refuses.
LEMMA PushStep ==
    ASSUME HwInv, HwInv', NEW p \in Procs, PushStore(p) \/ PushFull(p)
    PROVE  Stack!StackNext
<1> USE Hw1Assumption
<1>1. p \in Stack!Callers
  BY DEF Procs, Stack!Callers
<1>2. CASE PushStore(p)
  <2>1. /\ hwPc[p] = "store" /\ HwGoto(p, "unlock") /\ HwHolds(p, stackpointer + 1)
        /\ stack' = [stack EXCEPT ![stackpointer] = hwWord[p]] /\ stackpointer' = stackpointer
    BY <1>2 DEF PushStore
  <2>2. /\ p \in Providers /\ p \notin Consumers /\ stackpointer \in 0 .. TopIndex
        /\ hwWord[p] \in Bytes
    BY <2>1 DEF HwInv, HwTypeOK, HalfWayInv, WordInv
  <2>3. Depth = stackpointer /\ Len(Items) = stackpointer
    BY <2>1, DepthInside, MappedType DEF Inside
  <2>4. Depth' = stackpointer + 1
    <3>1. hwPc' = [hwPc EXCEPT ![p] = "unlock"] /\ \A q \in Procs : q # p => hwPc[q] # "store"
      BY <2>1 DEF HwGoto, HwInv, OwnerInv, Inside
    <3>2. \A q \in Procs : hwPc'[q] # "store"
      BY <3>1 DEF HwInv, HwTypeOK
    <3> QED
      BY <2>1, <3>2 DEF Depth
  <2>5. Word[p] = hwWord[p]
    BY <2>1, <2>2 DEF Word, hw1_result
  <2>6. Items' = Append(Items, hwWord[p])
    <3>1. stack \in [0 .. TopIndex + 1 -> Bytes \cup {0}] /\ hwWord[p] \in Bytes \cup {0}
      BY <2>2 DEF HwInv, HwTypeOK
    <3>2. [k \in 1 .. stackpointer + 1 |-> [stack EXCEPT ![stackpointer] = hwWord[p]][k - 1]]
             = Append([k \in 1 .. stackpointer |-> stack[k - 1]], hwWord[p])
      BY <2>2, <3>1, NextEntry
    <3> QED
      BY <2>1, <2>3, <2>4, <3>2 DEF Items
  <2>7. PICK v : v = stackpointer + 1
    OBVIOUS
  <2>8. HwHolds(p, v)
    BY <2>1, <2>7
  <2>9. /\ Phase[p] = "asked" /\ Phase'[p] = "told"
        /\ Stack!Tell(p, IF p \in Consumers /\ v = Sentinel THEN -1 ELSE v)
    BY <2>1, <2>8, TellStep
  <2>10. Stack!Tell(p, v)
    BY <2>2, <2>9
  <2>11. Stack!Push(p)
    <3>1. Len(Items) < TopIndex + 1
      BY <2>2, <2>3
    <3>2. Items' = Append(Items, Word[p])
      BY <2>5, <2>6
    <3>3. Stack!Tell(p, Len(Items) + 1)
      <4>1. Len(Items) + 1 = v
        BY <2>2, <2>3, <2>7
      <4> QED
        BY <2>10, <4>1 DEF Stack!Tell
    <3> QED
      BY <2>2, <3>1, <3>2, <3>3 DEF Stack!Push, Items, Word
  <2> QED
    BY <1>1, <2>9, <2>11 DEF Stack!StackNext, Phase
<1>3. CASE PushFull(p)
  <2>1. /\ hwPc[p] = "modify" /\ HwGoto(p, "unlock") /\ HwHolds(p, Sentinel)
        /\ p \in Providers /\ p \notin Consumers /\ stackpointer = TopIndex
        /\ UNCHANGED <<stack, stackpointer>>
    BY <1>3 DEF PushFull, full
  <2>2. Len(Items) = TopIndex + 1
    BY <2>1, DepthInside, MappedType DEF Inside
  <2>3. Items' = Items
    BY <2>1, ItemsStay
  <2>4. Phase[p] = "asked" /\ Phase'[p] = "told" /\ Stack!Tell(p, Sentinel)
    BY <2>1, TellStep
  <2>5. Stack!PushRefused(p)
    BY <2>1, <2>2, <2>3, <2>4 DEF Stack!PushRefused, Items
  <2> QED
    BY <1>1, <2>4, <2>5 DEF Stack!StackNext, Phase
<1> QED
  BY <1>2, <1>3

\* Moving stackpointer down is the pop; the empty stack refuses.
LEMMA PopStep ==
    ASSUME HwInv, HwInv', NEW p \in Procs, PopMove(p) \/ PopEmpty(p)
    PROVE  Stack!StackNext
<1> USE Hw1Assumption
<1>1. p \in Stack!Callers
  BY DEF Procs, Stack!Callers
<1>2. CASE PopMove(p)
  <2>1. /\ hwPc[p] = "drop" /\ HwGoto(p, "unlock") /\ UNCHANGED <<stack, hwWord>>
        /\ stackpointer' = stackpointer - 1
    BY <1>2 DEF PopMove
  <2>2. /\ p \in Consumers /\ stackpointer \in 0 .. TopIndex
        /\ hwWord[p] = stack[stackpointer]
    BY <2>1 DEF HwInv, HwTypeOK, HalfWayInv
  <2>3. Depth = stackpointer + 1 /\ Len(Items) = stackpointer + 1
    BY <2>1, DepthInside, MappedType DEF Inside
  <2>4. Depth' = stackpointer
    <3>1. hwPc' = [hwPc EXCEPT ![p] = "unlock"] /\ \A q \in Procs : q # p => hwPc[q] # "store"
      BY <2>1 DEF HwGoto, HwInv, OwnerInv, Inside
    <3>2. \A q \in Procs : hwPc'[q] # "store"
      BY <3>1 DEF HwInv, HwTypeOK
    <3> QED
      BY <2>1, <2>2, <3>2 DEF Depth
  <2>5. Items[Len(Items)] = hwWord[p] /\ hwWord[p] \in Bytes \cup {0}
    <3>1. Len(Items) \in 1 .. Depth /\ Len(Items) - 1 = stackpointer
      BY <2>2, <2>3
    <3>2. Items[Len(Items)] = stack[Len(Items) - 1]
      BY <3>1 DEF Items
    <3>3. stack[stackpointer] \in Bytes \cup {0}
      BY <2>2 DEF HwInv, HwTypeOK
    <3> QED
      BY <2>2, <3>1, <3>2, <3>3
  <2>6. Items' = SubSeq(Items, 1, Len(Items) - 1)
    <3>1. [k \in 1 .. stackpointer |-> stack[k - 1]]
             = SubSeq([k \in 1 .. stackpointer + 1 |-> stack[k - 1]], 1, stackpointer)
      BY <2>2, LastEntry
    <3> QED
      BY <2>1, <2>2, <2>3, <2>4, <3>1 DEF Items
  <2>7. hwWord[p] # Sentinel
    BY <2>5, SentinelIsNoByte
  <2>8. PICK v : v = hwWord[p]
    OBVIOUS
  <2>9. UNCHANGED hwWord /\ hwWord[p] = v
    BY <2>1, <2>8
  <2>10. /\ Phase[p] = "asked" /\ Phase'[p] = "told"
        /\ Stack!Tell(p, IF p \in Consumers /\ v = Sentinel THEN -1 ELSE v)
    BY <2>1, <2>9, TellStep
  <2>11. Stack!Tell(p, v)
    BY <2>7, <2>10, <2>8
  <2>12. Items # << >>
    BY <2>2, <2>3
  <2>13. Stack!Pop(p)
    <3>1. Stack!Tell(p, Items[Len(Items)])
      <4>1. Items[Len(Items)] = v
        BY <2>5, <2>8
      <4> QED
        BY <2>11, <4>1 DEF Stack!Tell
    <3> QED
      BY <2>2, <2>6, <2>12, <3>1 DEF Stack!Pop, Items
  <2> QED
    BY <1>1, <2>10, <2>13 DEF Stack!StackNext, Phase
<1>3. CASE PopEmpty(p)
  <2>1. /\ hwPc[p] = "modify" /\ HwGoto(p, "unlock") /\ HwHolds(p, Sentinel)
        /\ p \in Consumers /\ stackpointer = -1
        /\ UNCHANGED <<stack, stackpointer>>
    BY <1>3 DEF PopEmpty, empty
  <2>2. Items = << >>
    BY <2>1, DepthInside, MappedType DEF Inside
  <2>3. Items' = Items
    BY <2>1, ItemsStay
  <2>4. Phase[p] = "asked" /\ Phase'[p] = "told" /\ Stack!Tell(p, -1)
    BY <2>1, TellStep
  <2>5. Stack!PopRefused(p)
    BY <2>1, <2>2, <2>3, <2>4 DEF Stack!PopRefused, Items
  <2> QED
    BY <1>1, <2>4, <2>5 DEF Stack!StackNext, Phase
<1> QED
  BY <1>2, <1>3

\* Moving stackpointer to -1 empties the stack.
LEMMA CleanStep ==
    ASSUME HwInv, HwInv', NEW p \in Procs, CleanAll(p)
    PROVE  Stack!StackNext
<1>1. /\ hwPc[p] = "modify" /\ HwGoto(p, "unlock") /\ UNCHANGED hwWord
      /\ p \in Cleaners /\ p \notin Consumers /\ stackpointer' = -1 /\ hwWord[p] = 0
  BY Hw1Assumption DEF CleanAll, HwInv, WordInv
<1>2. hwPc'[p] = "unlock"
  BY <1>1 DEF HwGoto, HwInv, HwTypeOK
<1>3. Depth' = 0
  <2>1. \A q \in Procs : hwPc'[q] # "store"
    BY <1>2 DEF HwInv, OwnerInv, Inside
  <2> QED
    BY <1>1, <2>1 DEF Depth
<1>4. Items' = << >>
  BY <1>3 DEF Items
<1>5. /\ Phase[p] = "asked" /\ Phase'[p] = "told"
      /\ Stack!Tell(p, IF p \in Consumers /\ 0 = Sentinel THEN -1 ELSE 0)
  BY <1>1, TellStep
<1>6. Stack!Tell(p, 0)
  BY <1>1, <1>5
<1>7. Stack!Empty(p)
  BY <1>1, <1>4, <1>6 DEF Stack!Empty, Items
<1>8. p \in Stack!Callers
  BY DEF Procs, Stack!Callers
<1> QED
  BY <1>5, <1>7, <1>8 DEF Stack!StackNext, Phase

\* Giving the mutex back is the return of the call.
LEMMA ReturnStep ==
    ASSUME HwInv, NEW p \in Procs, mutex_unlock(p)
    PROVE  Stack!StackNext
<1>1. /\ hwPc[p] = "unlock" /\ HwGoto(p, "idle") /\ HwHolds(p, 0)
      /\ UNCHANGED <<stack, stackpointer>>
  BY DEF mutex_unlock
<1>2. Phase[p] = "told"
  BY <1>1 DEF Phase
<1>3. Phase' = [Phase EXCEPT ![p] = IF "idle" = "idle" THEN "idle"
                                    ELSE IF "idle" = "unlock" THEN "told" ELSE "asked"]
  BY <1>1, PhaseMoves
<1>4. Phase' = [Phase EXCEPT ![p] = "idle"] /\ Phase'[p] = "idle"
  BY <1>3, MappedType
<1>5. Word' = [Word EXCEPT ![p] = IF "idle" = "drop" THEN 0
                   ELSE IF p \in Consumers /\ 0 = Sentinel THEN -1 ELSE 0]
  BY <1>1, WordMoves
<1>6. Word' = [Word EXCEPT ![p] = 0]
  BY <1>5, SentinelIsNoByte
<1>7. Items' = Items
  BY <1>1, ItemsStay
<1>8. Stack!Return(p)
  BY <1>2, <1>4, <1>6, <1>7 DEF Stack!Return, Items, Phase, Word
<1>9. p \in Stack!Callers
  BY DEF Procs, Stack!Callers
<1> QED
  BY <1>2, <1>4, <1>8, <1>9 DEF Stack!StackNext, Phase

\* Removing the module empties the stack while nobody is in a call.
LEMMA ResetStep == ASSUME HwInv, hw1_exit PROVE Stack!StackNext
<1>1. Depth' = 0
  BY DEF hw1_exit, Depth
<1>2. Items' = << >>
  BY <1>1 DEF Items
<1>3. Phase' = Phase /\ Word' = Word
  BY DEF hw1_exit, Phase, Word, hw1_result
<1>4. \A p \in Procs : Phase[p] = "idle"
  BY DEF hw1_exit, Phase
<1>5. Stack!Reset
  BY <1>2, <1>3, <1>4 DEF Stack!Reset, Stack!Callers, Procs, Items, Phase, Word
<1> QED
  BY <1>5 DEF Stack!StackNext

(* Initially the stack is empty and nobody is in a call.                   *)
LEMMA InitStack == HwInit => Stack!StackInit
<1> SUFFICES ASSUME HwInit PROVE Stack!StackInit
  OBVIOUS
<1>1. Depth = 0
  BY DEF HwInit, Depth
<1>2. Items = << >>
  BY <1>1 DEF Items
<1>3. Phase = [p \in Procs |-> "idle"]
  BY DEF HwInit, Phase
<1>4. Word = [p \in Procs |-> 0]
  BY SentinelIsNoByte DEF HwInit, Word, hw1_result
<1> QED
  BY <1>2, <1>3, <1>4 DEF Stack!StackInit, Stack!Callers, Procs, Items, Phase, Word

(* The driver implements the bounded stack, for any number of providers,   *)
(* consumers and cleaners and any size: each pop returns the byte pushed   *)
(* last and not popped since, although every push and pop touches          *)
(* stackpointer and stack in two separate steps (hw1_driver.c, modifyStack *)
(* between mutex_lock and mutex_unlock).                                   *)
THEOREM Hw1ImplementsStack == HwSpec => ImplementsStack
<1>1. HwInv /\ HwInv' /\ [HwNext \/ hw1_exit]_hwVars => [Stack!StackNext]_Stack!stackVars
  <2> SUFFICES ASSUME HwInv, HwInv', [HwNext \/ hw1_exit]_hwVars
               PROVE  [Stack!StackNext]_Stack!stackVars
    OBVIOUS
  <2>1. CASE UNCHANGED hwVars
    <3>1. Depth' = Depth
      BY <2>1 DEF hwVars, Depth
    <3>2. Items' = Items /\ Phase' = Phase /\ Word' = Word
      BY <2>1, <3>1 DEF hwVars, Items, Phase, Word, hw1_result
    <3> QED
      BY <3>2 DEF Stack!stackVars, Items, Phase, Word
  <2>2. CASE hw1_exit
    BY <2>2, ResetStep
  <2>3. ASSUME NEW p \in Procs, HwStep(p)
        PROVE  [Stack!StackNext]_Stack!stackVars
    <3>1. CASE hw1_write(p) \/ hw1_read(p) \/ hw1_ioctl(p)
      BY <3>1, AskStep
    <3>2. CASE mutex_lock(p) \/ PushMove(p) \/ PopLoad(p)
      <4>1. Items' = Items /\ Phase' = Phase /\ Word' = Word
        BY <3>2, HiddenStep
      <4> QED
        BY <4>1 DEF Stack!stackVars, Items, Phase, Word
    <3>3. CASE PushStore(p) \/ PushFull(p)
      BY <3>3, PushStep
    <3>4. CASE PopMove(p) \/ PopEmpty(p)
      BY <3>4, PopStep
    <3>5. CASE CleanAll(p)
      BY <3>5, CleanStep
    <3>6. CASE mutex_unlock(p)
      BY <3>6, ReturnStep
    <3> QED
      BY <2>3, <3>1, <3>2, <3>3, <3>4, <3>5, <3>6 DEF HwStep
  <2> QED
    BY <2>1, <2>2, <2>3 DEF HwNext
<1>2. HwSpec => []HwInv
  BY Hw1Invariant
<1> QED
  BY <1>1, <1>2, InitStack, PTL DEF HwSpec, ImplementsStack, Stack!StackSpec

(* The machine that loads any of the modules runs the driver as it is      *)
(* meant to: the other modules leave its memory alone.                     *)
LEMMA KernelRunsHw1 == KernelSpec => HwSpec
<1>1. KernelInit => HwInit
  BY DEF KernelInit
<1>2. [KernelNext]_allVars => [HwNext \/ hw1_exit]_hwVars
  BY DEF KernelNext, InList, InHw, InPm, InLeds, Halted, allVars
<1> QED
  BY <1>1, <1>2, PTL DEF KernelSpec, HwSpec

(* The driver implements the bounded stack on the machine that loads any   *)
(* of the modules, and removes and loads the driver at any time that no    *)
(* process is in a call of it (hw1_driver.c, hw1_exit and hw1_init).       *)
THEOREM KernelImplementsStack == KernelSpec => ImplementsStack
  BY KernelRunsHw1, Hw1ImplementsStack, PTL
=============================================================================
