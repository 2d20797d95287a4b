----------------------------- MODULE XrayService -----------------------------
(***************************************************************************)
(* What the panel's Xray service promises to the rest of the panel, with   *)
(* no mutex, flag, goroutine, process object or configuration file: one    *)
(* Xray at most, brought up only by a restart, with the configuration that *)
(* restart read, and never while it is stopped.                            *)
(*                                                                         *)
(* XraySupervisor implements it as long as forks are prompt.               *)
(***************************************************************************)
CONSTANTS
    Templates,     \* values of the template
    InboundLists,  \* values of the list of enabled inbounds
    Nil            \* no configuration

Config == [tpl : Templates, inb : InboundLists]

VARIABLES
    saved,         \* the configuration in the database
    running,       \* the configuration of the Xray that serves, or Nil
    stopped,       \* the administrator stopped Xray and it has ended
    phase,         \* the restart in progress, if any
    hand           \* what that restart has read

vars == <<saved, running, stopped, phase, hand>>

Init ==
    /\ saved \in Config
    /\ running = Nil
    /\ stopped = FALSE
    /\ phase = "idle" /\ hand = Nil

\* A request changes one part of the configuration.
Save ==
    /\ saved' \in {[saved EXCEPT !.tpl = t] : t \in Templates}
              \cup {[saved EXCEPT !.inb = l] : l \in InboundLists}
    /\ UNCHANGED <<running, stopped, phase, hand>>

\* No restart is under way: a stop waits for the one that is, and ends Xray.
Stop ==
    /\ phase = "idle"
    /\ running' = Nil /\ stopped' = TRUE
    /\ UNCHANGED <<saved, phase, hand>>

BeginRestart ==
    /\ phase = "idle"
    /\ phase' = "template" /\ stopped' = FALSE
    /\ UNCHANGED <<saved, running, hand>>

\* The two parts are read one after the other.
ReadTemplate ==
    /\ phase = "template"
    /\ phase' = "inbounds" /\ hand' = saved
    /\ UNCHANGED <<saved, running, stopped>>

ReadInbounds ==
    /\ phase = "inbounds"
    /\ phase' = "start" /\ hand' = [hand EXCEPT !.inb = saved.inb]
    /\ UNCHANGED <<saved, running, stopped>>

\* The old Xray ends before the new one begins.
Start ==
    /\ phase = "start" /\ running = Nil
    /\ running' = hand
    /\ phase' = "idle" /\ hand' = Nil
    /\ UNCHANGED <<saved, stopped>>

\* A restart keeps the Xray that runs, or fails.
EndRestart ==
    /\ phase # "idle"
    /\ phase' = "idle" /\ hand' = Nil
    /\ UNCHANGED <<saved, running, stopped>>

\* Xray is killed by a restart, or exits by itself.
End ==
    /\ running # Nil
    /\ running' = Nil
    /\ UNCHANGED <<saved, stopped, phase, hand>>

Next ==
    \/ Save \/ Stop
    \/ BeginRestart \/ ReadTemplate \/ ReadInbounds \/ Start \/ EndRestart
    \/ End

Spec == Init /\ [][Next]_vars
=============================================================================
