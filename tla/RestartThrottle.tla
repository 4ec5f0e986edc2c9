-------------------------- MODULE RestartThrottle --------------------------
(***************************************************************************)
(* SimpleSSHDService with a history of the restarts its waiter threads     *)
(* made, to state what the give-up rule of maybe_restart() (MIN_DURATION)  *)
(* amounts to over several restarts.  The history constrains nothing.  The *)
(* app process is not killed here: that would clear the statics the rule   *)
(* is made of.                                                             *)
(***************************************************************************)
EXTENDS SimpleSSHDService

VARIABLE
    restarts    \* times of the restarts since the user or Android last started sshd

throttleVars == <<vars, restarts>>

ThrottleInit == Init /\ restarts = <<>>

\* A waiter records the listener it restarted; the last two times are kept.
Restarted ==
    \E w \in Waiter :
        /\ Record(w)
        /\ restarts' = IF Len(restarts) = 2
                       THEN <<restarts[2], lnow[w]>>
                       ELSE Append(restarts, lnow[w])

\* A start that is not a restart.
StartedAfresh ==
    /\ Record(Main) \/ Adopt
    /\ restarts' = <<>>

Otherwise ==
    /\ \/ \E p \in Pid : Listener(p)
       \/ \E t \in Thread : \/ Take(t) \/ Kill(t) \/ Fork(t) \/ StartFailed(t)
                            \/ Reap(t) \/ MaybeRestart(t)
       \/ Dispatch \/ ReadPidfile \/ Clicked \/ Boot
    /\ UNCHANGED restarts

ThrottleNext == Restarted \/ StartedAfresh \/ Otherwise

ThrottleSpec == ThrottleInit /\ [][ThrottleNext]_throttleVars

\* A listener that keeps dying is not restarted for ever: once two restarts
\* followed each other within MIN_DURATION, no waiter decides on a third one
\* within MIN_DURATION of the second, whichever threads made them.  (Restarts
\* that the millisecond clock cannot tell apart are not counted: sshd_duration
\* = 0 is how maybe_restart() recognises a first start.)
GivesUp ==
    [][\A w \in Waiter :
          /\ MaybeRestart(w)
          /\ Len(restarts) = 2
          /\ restarts[1] < restarts[2]
          /\ restarts[2] - restarts[1] < MIN_DURATION
          /\ lnow[w] - restarts[2] < MIN_DURATION
          => pc'[w] = "idle"]_throttleVars
=============================================================================
