------------------------------- MODULE Proxy -------------------------------
(***************************************************************************)
(* falconeri proxy: one task per forwarded port keeps a kubectl process    *)
(* running and reconnects with backoff; the main task waits for a signal,  *)
(* broadcasts the shutdown and gives the tasks five seconds to return.     *)
(*                                                                         *)
(* Times are seconds.  A task that can proceed does so within the second:  *)
(* time passes (Tick) only when every task sleeps or waits for its kubectl.*)
(* Not modelled: a signal before the handlers are installed, which ends    *)
(* the program as signals do.                                              *)
(***************************************************************************)
EXTENDS Naturals, FiniteSets

CONSTANT Forwards

VARIABLES
    main,      \* the command: where it is, how long it still waits
    forward,   \* each task: where it is, its backoff, its timer, its receiver
    kubectl    \* how many processes run for each forward

vars == <<main, forward, kubectl>>

INITIAL_BACKOFF  == 1
MAX_BACKOFF      == 30
STABLE_THRESHOLD == 10
ShutdownTimeout  == 5

(***************************************************************************)
(* clock  in the backoff, the seconds left; connected, the seconds since   *)
(*        the start, as far as the threshold can tell                      *)
(* inbox  the receiver of the broadcast                                    *)
(***************************************************************************)
ForwardState ==
    [at : {"unborn", "spawn", "connected", "backoff", "returned"},
     backoff : {1, 2, 4, 8, 16, 30}, clock : 0..MAX_BACKOFF,
     inbox : {"absent", "empty", "message"}]

ProxyTypeOK ==
    /\ main \in [at : {"starting", "waiting", "stopping", "exited"},
                 patience : 0..ShutdownTimeout]
    /\ forward \in [Forwards -> ForwardState]
    /\ kubectl \in [Forwards -> 0..2]

ProxyInit ==
    /\ main = [at |-> "starting", patience |-> ShutdownTimeout]
    /\ forward = [f \in Forwards |->
                    [at |-> "unborn", backoff |-> INITIAL_BACKOFF,
                     clock |-> 0, inbox |-> "absent"]]
    /\ kubectl = [f \in Forwards |-> 0]

-----------------------------------------------------------------------------
(* The tasks.                                                              *)

At(f, place) == forward[f].at = place

Becomes(f, state) == forward' = [forward EXCEPT ![f] = state]

\* The command is spawned and runs.
Connect(f) ==
    /\ At(f, "spawn")
    /\ Becomes(f, [forward[f] EXCEPT !.at = "connected", !.clock = 0])
    /\ kubectl' = [kubectl EXCEPT ![f] = @ + 1]
    /\ UNCHANGED main

WaitsFor(f, backoff) ==
    Becomes(f, [forward[f] EXCEPT !.at = "backoff", !.backoff = backoff,
                                  !.clock = backoff])

SpawnFails(f) ==
    /\ At(f, "spawn")
    /\ WaitsFor(f, forward[f].backoff)
    /\ UNCHANGED <<main, kubectl>>

\* Mutation: a clean exit of kubectl ends the task.
DisconnectForGood(f, success) ==
    /\ At(f, "connected")
    /\ IF success
       THEN Becomes(f, [forward[f] EXCEPT !.at = "returned"])
       ELSE WaitsFor(f, forward[f].backoff)
    /\ kubectl' = [kubectl EXCEPT ![f] = @ - 1]
    /\ UNCHANGED main

\* kubectl exits; only a success that came late resets the backoff.
Disconnect(f, success) ==
    /\ At(f, "connected")
    /\ IF success /\ forward[f].clock > STABLE_THRESHOLD
       THEN WaitsFor(f, INITIAL_BACKOFF)
       ELSE WaitsFor(f, forward[f].backoff)
    /\ kubectl' = [kubectl EXCEPT ![f] = @ - 1]
    /\ UNCHANGED main

\* The select of run_once finds the shutdown.
HearsConnected(f) == At(f, "connected") /\ forward[f].inbox = "message"

\* Mutation: kubectl is not killed when it is dropped.
StopConnectedOnly(f) ==
    /\ HearsConnected(f)
    /\ Becomes(f, [forward[f] EXCEPT !.at = "returned", !.inbox = "empty"])
    /\ UNCHANGED <<main, kubectl>>

\* The shutdown arrives; dropping the child kills it.
StopConnected(f) ==
    /\ HearsConnected(f)
    /\ Becomes(f, [forward[f] EXCEPT !.at = "returned", !.inbox = "empty"])
    /\ kubectl' = [kubectl EXCEPT ![f] = @ - 1]
    /\ UNCHANGED main

\* The sleep of the backoff is over.
WakesUp(f) == At(f, "backoff") /\ forward[f].clock = 0

\* Mutation: the backoff grows without a limit.
ReconnectUncapped(f) ==
    /\ WakesUp(f)
    /\ Becomes(f, [forward[f] EXCEPT !.at = "spawn", !.backoff = @ * 2])
    /\ UNCHANGED <<main, kubectl>>

Reconnect(f) ==
    /\ WakesUp(f)
    /\ Becomes(f, [forward[f] EXCEPT
                     !.at = "spawn",
                     !.backoff = IF @ * 2 > MAX_BACKOFF THEN MAX_BACKOFF ELSE @ * 2])
    /\ UNCHANGED <<main, kubectl>>

\* Mutation: the sleep of the backoff does not listen.
HearsAfterSleeping(f) == WakesUp(f) /\ forward[f].inbox = "message"

\* The select around the sleep of the backoff finds the shutdown.
HearsSleeping(f) == At(f, "backoff") /\ forward[f].inbox = "message"

StopWaiting(f) ==
    /\ HearsSleeping(f)
    /\ Becomes(f, [forward[f] EXCEPT !.at = "returned", !.inbox = "empty"])
    /\ UNCHANGED <<main, kubectl>>

-----------------------------------------------------------------------------
(* The command.                                                            *)

\* The receiver is made before its task.
SpawnTask(f) ==
    /\ main.at = "starting"
    /\ At(f, "unborn")
    /\ Becomes(f, [forward[f] EXCEPT !.at = "spawn", !.inbox = "empty"])
    /\ UNCHANGED <<main, kubectl>>

Listen ==
    /\ main.at = "starting"
    /\ \A f \in Forwards : ~At(f, "unborn")
    /\ main' = [main EXCEPT !.at = "waiting"]
    /\ UNCHANGED <<forward, kubectl>>

\* Ctrl-C or SIGTERM; a receiver gets what is sent while it exists.
Shutdown ==
    /\ main.at = "waiting"
    /\ main' = [main EXCEPT !.at = "stopping"]
    /\ forward' = [f \in Forwards |->
                     IF forward[f].inbox = "empty"
                     THEN [forward[f] EXCEPT !.inbox = "message"]
                     ELSE forward[f]]
    /\ UNCHANGED kubectl

AllReturned == \A f \in Forwards : At(f, "returned")

\* The join is over or timed out.
Leaves == main.at = "stopping" /\ (AllReturned \/ main.patience = 0)

\* The runtime drops the tasks that are left.
Exit ==
    /\ Leaves
    /\ main' = [main EXCEPT !.at = "exited"]
    /\ forward' = [f \in Forwards |-> [forward[f] EXCEPT !.at = "returned"]]
    /\ kubectl' = [f \in Forwards |->
                     IF At(f, "connected") THEN kubectl[f] - 1 ELSE kubectl[f]]

\* A task that can proceed does not sleep.
Proceeds(f) == At(f, "spawn") \/ WakesUp(f) \/ HearsConnected(f) \/ HearsSleeping(f)

Aged(state) ==
    CASE state.at = "backoff" /\ state.clock > 0 -> [state EXCEPT !.clock = @ - 1]
      [] state.at = "connected" /\ state.clock <= STABLE_THRESHOLD ->
           [state EXCEPT !.clock = @ + 1]
      [] OTHER -> state

Tick ==
    /\ main.at \in {"waiting", "stopping"}
    /\ ~Leaves
    /\ \A f \in Forwards : ~Proceeds(f)
    /\ forward' = [f \in Forwards |-> Aged(forward[f])]
    /\ main' = [main EXCEPT !.patience = IF main.at = "stopping" /\ @ > 0 THEN @ - 1 ELSE @]
    /\ UNCHANGED kubectl

TaskStep(f) ==
    \/ Connect(f)
    \/ SpawnFails(f)
    \/ \E success \in BOOLEAN : Disconnect(f, success)
    \/ StopConnected(f)
    \/ Reconnect(f)
    \/ StopWaiting(f)

ProxyNext ==
    \/ \E f \in Forwards : TaskStep(f) \/ SpawnTask(f)
    \/ Listen
    \/ Shutdown
    \/ Exit
    \/ Tick

(***************************************************************************)
(* The runtime polls every task that can proceed, and time passes.  No     *)
(* fairness for kubectl, which may run or fail to start for ever, nor for  *)
(* the signal.                                                             *)
(***************************************************************************)
ProxySpec ==
    /\ ProxyInit /\ [][ProxyNext]_vars
    /\ WF_vars(Tick) /\ WF_vars(Listen) /\ WF_vars(Exit)
    /\ \A f \in Forwards :
         /\ WF_vars(SpawnTask(f))
         /\ WF_vars(Connect(f) \/ SpawnFails(f))
         /\ WF_vars(Reconnect(f) \/ StopConnected(f) \/ StopWaiting(f))

-----------------------------------------------------------------------------
(* Properties.                                                             *)

(***************************************************************************)
(* Whatever the tasks do when the signal comes, they all return before the *)
(* timeout: the message finds a receiver in each, and the longest sleep is *)
(* cut short by it (proxy.rs, the two selects; run, the timeout).          *)
(***************************************************************************)
ShutdownIsPrompt == main.at = "stopping" /\ ~AllReturned => main.patience > 0

(***************************************************************************)
(* A forward has at most one kubectl, which would find its port taken      *)
(* otherwise, and none that nobody waits for (kill_on_drop).               *)
(***************************************************************************)
NoKubectlIsLeft ==
    \A f \in Forwards : kubectl[f] = IF At(f, "connected") THEN 1 ELSE 0

(***************************************************************************)
(* Until the shutdown a forward reconnects again and again, whatever way   *)
(* its kubectl ended (proxy.rs, "until shutdown").                         *)
(***************************************************************************)
ForwardsAreKeptUp ==
    \A f \in Forwards :
        []<>(forward[f].at \in {"spawn", "connected"} \/ main.at \in {"stopping", "exited"})

(***************************************************************************)
(* A shutdown ends with no kubectl running.                                *)
(***************************************************************************)
ShutdownEnds ==
    main.at = "stopping" ~> main.at = "exited" /\ \A f \in Forwards : kubectl[f] = 0
=============================================================================
