------------------------------ MODULE ProxyProofs ------------------------------
(***************************************************************************)
(* Theorems about Proxy, for any number of forwarded ports.  What must     *)
(* happen eventually rests on fairness and is checked by TLC.              *)
(***************************************************************************)
EXTENDS Proxy, TLAPS

ProxyInv == ProxyTypeOK /\ NoKubectlIsLeft

(***************************************************************************)
(* What a step of one task leaves.                                         *)
(***************************************************************************)
LEMMA TaskMoves ==
    ASSUME ProxyInv, NEW f \in Forwards, UNCHANGED main,
           NEW state \in ForwardState, Becomes(f, state),
           kubectl' = [kubectl EXCEPT ![f] = IF state.at = "connected" THEN 1 ELSE 0]
    PROVE  ProxyInv'
<1> USE DEF ProxyInv, ProxyTypeOK, Becomes
<1>1. forward' \in [Forwards -> ForwardState]
  OBVIOUS
<1>2. kubectl' \in [Forwards -> 0..2]
  OBVIOUS
<1>3. NoKubectlIsLeft'
  BY DEF NoKubectlIsLeft, At
<1> QED
  BY <1>1, <1>2, <1>3

(***************************************************************************)
(* The fields of a task's state.                                           *)
(***************************************************************************)
Ats == {"unborn", "spawn", "connected", "backoff", "returned"}
Backoffs == {1, 2, 4, 8, 16, 30}
Clocks == 0..MAX_BACKOFF
Inboxes == {"absent", "empty", "message"}

\* What the fields of a forward can be, and that doubling a backoff keeps its bounds.
LEMMA Fields ==
    /\ ForwardState = [at : Ats, backoff : Backoffs, clock : Clocks, inbox : Inboxes]
    /\ "connected" \in Ats /\ "backoff" \in Ats /\ "returned" \in Ats /\ "spawn" \in Ats
    /\ "empty" \in Inboxes /\ "message" \in Inboxes
    /\ 0 \in Clocks /\ \A backoff \in Backoffs : backoff \in Clocks
    /\ INITIAL_BACKOFF \in Backoffs
    /\ \A backoff \in Backoffs :
         (IF backoff * 2 > MAX_BACKOFF THEN MAX_BACKOFF ELSE backoff * 2) \in Backoffs
BY DEF ForwardState, Ats, Backoffs, Clocks, Inboxes, MAX_BACKOFF, INITIAL_BACKOFF

(***************************************************************************)
(* A second passes.                                                        *)
(***************************************************************************)
LEMMA AgedFields ==
    ASSUME NEW state \in ForwardState
    PROVE  Aged(state) \in ForwardState /\ Aged(state).at = state.at
<1>1. /\ state.clock > 0 => state.clock - 1 \in Clocks
      /\ state.clock <= STABLE_THRESHOLD => state.clock + 1 \in Clocks
  <2>1. state.clock \in Clocks
    BY Fields
  <2> QED
    BY <2>1 DEF Clocks, MAX_BACKOFF, STABLE_THRESHOLD
<1>2. \A clock \in Clocks : /\ [state EXCEPT !.clock = clock] \in ForwardState
                           /\ [state EXCEPT !.clock = clock].at = state.at
  BY Fields
<1> QED
  BY <1>1, <1>2 DEF Aged

\* No step of a task breaks the invariant.
LEMMA TaskStepKeeps ==
    ASSUME ProxyInv, NEW f \in Forwards, TaskStep(f) \/ SpawnTask(f)
    PROVE  ProxyInv'
<1> DEFINE state == forward[f]
<1>1. /\ state \in ForwardState /\ state.backoff \in Backoffs
      /\ kubectl \in [Forwards -> 0..2]
      /\ kubectl[f] = IF state.at = "connected" THEN 1 ELSE 0
  BY Fields DEF ProxyInv, ProxyTypeOK, NoKubectlIsLeft, At
<1>2. UNCHANGED main
  BY DEF TaskStep, SpawnTask, Connect, SpawnFails, Disconnect, StopConnected, Reconnect,
         StopWaiting
<1>3. ASSUME NEW backoff \in Backoffs, WaitsFor(f, backoff),
             kubectl' = [kubectl EXCEPT ![f] = 0]
      PROVE  ProxyInv'
  <2> DEFINE next == [state EXCEPT !.at = "backoff", !.backoff = backoff, !.clock = backoff]
  <2>1. next \in ForwardState /\ next.at = "backoff"
    BY <1>1, Fields
  <2>2. Becomes(f, next)
    BY <1>3 DEF WaitsFor
  <2> HIDE DEF next
  <2> QED
    BY <1>2, <1>3, <2>1, <2>2, TaskMoves
<1>4. CASE Connect(f)
  <2> DEFINE next == [state EXCEPT !.at = "connected", !.clock = 0]
  <2>1. next \in ForwardState /\ next.at = "connected"
    BY <1>1, Fields
  <2>2. Becomes(f, next)
    BY <1>4 DEF Connect
  <2>3. kubectl' = [kubectl EXCEPT ![f] = 1]
    <3>1. kubectl[f] = 0
      BY <1>1, <1>4 DEF Connect, At
    <3> QED
      BY <1>4, <3>1 DEF Connect
  <2> HIDE DEF next
  <2> QED
    BY <1>2, <2>1, <2>2, <2>3, TaskMoves
<1>5. CASE SpawnFails(f)
  <2>1. kubectl' = [kubectl EXCEPT ![f] = 0]
    BY <1>1, <1>5 DEF SpawnFails, At
  <2> QED
    BY <1>1, <1>3, <1>5, <2>1 DEF SpawnFails
<1>6. CASE \E success \in BOOLEAN : Disconnect(f, success)
  <2>1. kubectl' = [kubectl EXCEPT ![f] = 0]
    BY <1>1, <1>6 DEF Disconnect, At
  <2>2. WaitsFor(f, INITIAL_BACKOFF) \/ WaitsFor(f, state.backoff)
    BY <1>6 DEF Disconnect
  <2> QED
    BY <1>1, <1>3, <2>1, <2>2, Fields
<1>7. CASE StopConnected(f) \/ StopWaiting(f)
  <2> DEFINE next == [state EXCEPT !.at = "returned", !.inbox = "empty"]
  <2>1. next \in ForwardState /\ next.at = "returned"
    BY <1>1, Fields
  <2>2. Becomes(f, next) /\ kubectl' = [kubectl EXCEPT ![f] = 0]
    BY <1>1, <1>7 DEF StopConnected, HearsConnected, StopWaiting, HearsSleeping, At
  <2> HIDE DEF next
  <2> QED
    BY <1>2, <2>1, <2>2, TaskMoves
<1>8. CASE Reconnect(f)
  <2> DEFINE next == [state EXCEPT
                        !.at = "spawn",
                        !.backoff = IF @ * 2 > MAX_BACKOFF THEN MAX_BACKOFF ELSE @ * 2]
  <2>1. next \in ForwardState /\ next.at = "spawn"
    BY <1>1, Fields
  <2>2. Becomes(f, next) /\ kubectl' = [kubectl EXCEPT ![f] = 0]
    BY <1>1, <1>8 DEF Reconnect, WakesUp, At
  <2> HIDE DEF next
  <2> QED
    BY <1>2, <2>1, <2>2, TaskMoves
<1>9. CASE SpawnTask(f)
  <2> DEFINE next == [state EXCEPT !.at = "spawn", !.inbox = "empty"]
  <2>1. next \in ForwardState /\ next.at = "spawn"
    BY <1>1, Fields
  <2>2. Becomes(f, next) /\ kubectl' = [kubectl EXCEPT ![f] = 0]
    BY <1>1, <1>9 DEF SpawnTask, At
  <2> HIDE DEF next
  <2> QED
    BY <1>2, <2>1, <2>2, TaskMoves
<1> QED
  BY <1>4, <1>5, <1>6, <1>7, <1>8, <1>9 DEF TaskStep

\* The invariant holds in every state.
LEMMA ProxyInvariant == ProxySpec => []ProxyInv
<1>1. ProxyInit => ProxyInv
  BY DEF ProxyInit, ProxyInv, ProxyTypeOK, NoKubectlIsLeft, At, ForwardState,
         ShutdownTimeout, INITIAL_BACKOFF, MAX_BACKOFF
<1>2. ProxyInv /\ [ProxyNext]_vars => ProxyInv'
  <2> SUFFICES ASSUME ProxyInv, [ProxyNext]_vars PROVE ProxyInv'
    OBVIOUS
  <2> USE DEF ProxyInv, ProxyTypeOK
  <2>1. CASE \E f \in Forwards : TaskStep(f) \/ SpawnTask(f)
    BY <2>1, TaskStepKeeps
  <2>2. CASE Listen
    BY <2>2 DEF Listen, NoKubectlIsLeft, At
  <2>3. CASE Shutdown
    <3>1. main' \in [at : {"starting", "waiting", "stopping", "exited"},
                     patience : 0..ShutdownTimeout]
      BY <2>3 DEF Shutdown
    <3>2. \A f \in Forwards : forward'[f] \in ForwardState /\ forward'[f].at = forward[f].at
      BY <2>3, Fields DEF Shutdown
    <3>3. forward' = [f \in Forwards |-> forward'[f]]
      BY <2>3 DEF Shutdown
    <3>4. forward' \in [Forwards -> ForwardState]
      BY <3>2, <3>3
    <3>5. NoKubectlIsLeft'
      BY <2>3, <3>2 DEF Shutdown, NoKubectlIsLeft, At
    <3> QED
      BY <2>3, <3>1, <3>4, <3>5 DEF Shutdown
  <2>4. CASE Exit
    <3>1. main' \in [at : {"starting", "waiting", "stopping", "exited"},
                     patience : 0..ShutdownTimeout]
      BY <2>4 DEF Exit
    <3>2. \A f \in Forwards : /\ forward'[f] \in ForwardState
                              /\ forward'[f].at = "returned" /\ kubectl'[f] = 0
      BY <2>4, Fields DEF Exit, NoKubectlIsLeft, At
    <3>3. /\ forward' = [f \in Forwards |-> forward'[f]]
          /\ kubectl' = [f \in Forwards |-> kubectl'[f]]
      BY <2>4 DEF Exit
    <3>4. forward' \in [Forwards -> ForwardState] /\ kubectl' \in [Forwards -> 0..2]
      BY <3>2, <3>3
    <3>5. NoKubectlIsLeft'
      BY <3>2 DEF NoKubectlIsLeft, At
    <3> QED
      BY <3>1, <3>4, <3>5
  <2>5. CASE Tick
    <3>1. main' \in [at : {"starting", "waiting", "stopping", "exited"},
                     patience : 0..ShutdownTimeout]
      <4>1. main' = [main EXCEPT !.patience =
                       IF main.at = "stopping" /\ @ > 0 THEN @ - 1 ELSE @]
        BY <2>5 DEF Tick
      <4> QED
        BY <4>1 DEF ShutdownTimeout
    <3>2. forward' = [f \in Forwards |-> Aged(forward[f])] /\ UNCHANGED kubectl
      BY <2>5 DEF Tick
    <3>3. \A f \in Forwards : /\ Aged(forward[f]) \in ForwardState
                              /\ Aged(forward[f]).at = forward[f].at
      BY AgedFields
    <3>4. forward' \in [Forwards -> ForwardState]
      BY <3>2, <3>3
    <3>5. NoKubectlIsLeft'
      BY <3>2, <3>3 DEF NoKubectlIsLeft, At
    <3> QED
      BY <3>1, <3>2, <3>4, <3>5
  <2>6. CASE UNCHANGED vars
    BY <2>6 DEF vars, NoKubectlIsLeft, At
  <2> QED
    BY <2>1, <2>2, <2>3, <2>4, <2>5, <2>6 DEF ProxyNext
<1> QED
  BY <1>1, <1>2, PTL DEF ProxySpec

(***************************************************************************)
(* The backoff stays between INITIAL_BACKOFF and MAX_BACKOFF, the timers   *)
(* in their ranges.                                                        *)
(***************************************************************************)
THEOREM ProxyTypes == ProxySpec => []ProxyTypeOK
<1>1. ProxyInv => ProxyTypeOK
  BY DEF ProxyInv
<1> QED
  BY <1>1, ProxyInvariant, PTL

(***************************************************************************)
(* No forward has two processes, and none is left behind when its task     *)
(* ends, whether it returned or was dropped.                               *)
(***************************************************************************)
THEOREM OneKubectlPerForward == ProxySpec => []NoKubectlIsLeft
<1>1. ProxyInv => NoKubectlIsLeft
  BY DEF ProxyInv
<1> QED
  BY <1>1, ProxyInvariant, PTL

-----------------------------------------------------------------------------
(* The shutdown.                                                           *)

(***************************************************************************)
(* What the receiver of a task holds: nothing before the shutdown, and the *)
(* message after it until the task returns.                                *)
(***************************************************************************)
Listening(f) ==
    /\ main.at = "starting" =>
          \/ At(f, "unborn")
          \/ forward[f].at \in {"spawn", "connected", "backoff"} /\ forward[f].inbox = "empty"
    /\ main.at = "waiting" =>
          forward[f].at \in {"spawn", "connected", "backoff"} /\ forward[f].inbox = "empty"
    /\ main.at = "stopping" =>
          \/ At(f, "returned")
          \/ /\ forward[f].at \in {"spawn", "connected", "backoff"}
             /\ forward[f].inbox = "message"

PromptInv ==
    /\ \A f \in Forwards : Listening(f)
    /\ main.at # "exited" => main.patience = ShutdownTimeout

(***************************************************************************)
(* While a task has not returned after the shutdown, no second passes.     *)
(***************************************************************************)
LEMMA NoTickWhileStopping ==
    ASSUME PromptInv, main.at = "stopping"
    PROVE  ~Tick
<1> SUFFICES ASSUME Tick PROVE FALSE
  OBVIOUS
<1>1. ~AllReturned /\ \A f \in Forwards : ~Proceeds(f)
  BY DEF Tick, Leaves
<1>2. PICK f \in Forwards : ~At(f, "returned")
  BY <1>1 DEF AllReturned
<1>3. forward[f].at \in {"spawn", "connected", "backoff"} /\ forward[f].inbox = "message"
  BY <1>2 DEF PromptInv, Listening
<1>4. Proceeds(f)
  BY <1>3 DEF Proceeds, At, HearsConnected, HearsSleeping
<1> QED
  BY <1>1, <1>4

(***************************************************************************)
(* Nothing of a task changes its receiver but the return and its birth.    *)
(***************************************************************************)
LEMMA TaskStepListens ==
    ASSUME ProxyTypeOK, PromptInv, NEW f \in Forwards, TaskStep(f) \/ SpawnTask(f)
    PROVE  PromptInv'
<1>1. UNCHANGED main
  BY DEF TaskStep, SpawnTask, Connect, SpawnFails, Disconnect, StopConnected, Reconnect,
         StopWaiting
<1>2. /\ forward \in [Forwards -> ForwardState]
      /\ forward[f] \in [at : Ats, backoff : Backoffs, clock : Clocks, inbox : Inboxes]
  BY Fields DEF ProxyTypeOK
<1>3. \A g \in Forwards \ {f} : forward'[g] = forward[g]
  BY <1>2 DEF TaskStep, SpawnTask, Connect, SpawnFails, Disconnect, StopConnected, Reconnect,
              StopWaiting, WaitsFor, Becomes
<1>4. CASE StopConnected(f) \/ StopWaiting(f)
  <2>1. forward[f].inbox = "message" /\ forward[f].at \in {"connected", "backoff"}
    BY <1>4 DEF StopConnected, HearsConnected, StopWaiting, HearsSleeping, At
  <2>2. At(f, "returned")'
    BY <1>2, <1>4 DEF StopConnected, StopWaiting, Becomes, At
  <2>3. Listening(f)'
    BY <1>1, <2>1, <2>2 DEF PromptInv, Listening, At
  <2> QED
    BY <1>1, <1>3, <2>3 DEF PromptInv, Listening, At
<1>5. CASE SpawnTask(f)
  <2>1. main.at = "starting" /\ forward'[f].at = "spawn" /\ forward'[f].inbox = "empty"
    BY <1>2, <1>5 DEF SpawnTask, Becomes
  <2>2. Listening(f)'
    BY <1>1, <2>1 DEF Listening, At
  <2> QED
    BY <1>1, <1>3, <2>2 DEF PromptInv, Listening, At
<1>6. CASE Connect(f) \/ SpawnFails(f) \/ Reconnect(f)
           \/ \E success \in BOOLEAN : Disconnect(f, success)
  <2>1. forward[f].at \in {"spawn", "connected", "backoff"}
    BY <1>6 DEF Connect, SpawnFails, Reconnect, WakesUp, Disconnect, At
  <2>2. /\ forward'[f].at \in {"spawn", "connected", "backoff"}
        /\ forward'[f].inbox = forward[f].inbox
    <3>1. ASSUME NEW backoff, WaitsFor(f, backoff)
          PROVE  forward'[f].at = "backoff" /\ forward'[f].inbox = forward[f].inbox
      BY <1>2, <3>1 DEF WaitsFor, Becomes
    <3>2. CASE Connect(f)
      BY <1>2, <3>2 DEF Connect, Becomes
    <3>3. CASE Reconnect(f)
      BY <1>2, <3>3 DEF Reconnect, Becomes
    <3>4. CASE SpawnFails(f) \/ \E success \in BOOLEAN : Disconnect(f, success)
      BY <3>1, <3>4 DEF SpawnFails, Disconnect
    <3> QED
      BY <1>6, <3>2, <3>3, <3>4
  <2>3. Listening(f)'
    BY <1>1, <2>1, <2>2 DEF PromptInv, Listening, At
  <2> QED
    BY <1>1, <1>3, <2>3 DEF PromptInv, Listening, At
<1> QED
  BY <1>4, <1>5, <1>6 DEF TaskStep

\* The invariant behind the prompt shutdown holds in every state.
LEMMA PromptInvariant == ProxySpec => []PromptInv
<1>1. ProxyInit => PromptInv
  BY DEF ProxyInit, PromptInv, Listening, At
<1>2. ProxyTypeOK /\ PromptInv /\ [ProxyNext]_vars => PromptInv'
  <2> SUFFICES ASSUME ProxyTypeOK, PromptInv, [ProxyNext]_vars PROVE PromptInv'
    OBVIOUS
  <2> USE DEF PromptInv
  <2>1. CASE \E f \in Forwards : TaskStep(f) \/ SpawnTask(f)
    BY <2>1, TaskStepListens
  <2>2. CASE Listen
    <3>1. main.at = "starting" /\ main'.at = "waiting" /\ main'.patience = main.patience
      BY <2>2 DEF Listen, ProxyTypeOK
    <3> QED
      BY <2>2, <3>1 DEF Listen, Listening, At
  <2>3. CASE Shutdown
    <3>1. main.at = "waiting" /\ main'.at = "stopping" /\ main'.patience = main.patience
      BY <2>3 DEF Shutdown, ProxyTypeOK
    <3>2. \A f \in Forwards : forward[f].inbox = "empty"
      BY <3>1 DEF Listening
    <3>3. \A f \in Forwards : forward'[f].at = forward[f].at /\ forward'[f].inbox = "message"
      BY <2>3, <3>2 DEF Shutdown, ProxyTypeOK, ForwardState
    <3> QED
      BY <3>1, <3>3 DEF Listening, At
  <2>4. CASE Exit
    <3>1. main'.at = "exited"
      BY <2>4 DEF Exit, ProxyTypeOK
    <3> QED
      BY <3>1 DEF Listening
  <2>5. CASE Tick
    <3>1. main.at = "waiting"
      BY <2>5, NoTickWhileStopping DEF Tick
    <3>2. main' = main
      BY <2>5, <3>1 DEF Tick, ProxyTypeOK
    <3>3. \A f \in Forwards : /\ forward'[f].at = forward[f].at
                              /\ forward'[f].inbox = forward[f].inbox
      BY <2>5 DEF Tick, Aged, ProxyTypeOK, ForwardState
    <3> QED
      BY <3>1, <3>2, <3>3 DEF Listening, At
  <2>6. CASE UNCHANGED vars
    BY <2>6 DEF vars, Listening, At
  <2> QED
    BY <2>1, <2>2, <2>3, <2>4, <2>5, <2>6 DEF ProxyNext
<1> QED
  BY <1>1, <1>2, ProxyTypes, PTL DEF ProxySpec

(***************************************************************************)
(* Every task hears of the shutdown wherever it is, and returns within the *)
(* second: the command's timeout is never what ends it.                    *)
(***************************************************************************)
THEOREM ShutdownWaitsForNoSleep == ProxySpec => []ShutdownIsPrompt
<1>1. PromptInv => ShutdownIsPrompt
  BY DEF PromptInv, ShutdownIsPrompt, ShutdownTimeout
<1> QED
  BY <1>1, PromptInvariant, PTL
=============================================================================
