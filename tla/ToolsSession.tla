---------------------------- MODULE ToolsSession ----------------------------
(***************************************************************************)
(* What startTools and stopTools promise one user: the tools are off, or   *)
(* they are on with what one start asked for, and a start never changes    *)
(* tools that are on: whoever wants others has to stop these first.        *)
(*                                                                         *)
(* UserTools is the detailed specification.                                *)
(***************************************************************************)
CONSTANTS
    Choices,    \* the runtimes and capabilities a start can ask for
    None        \* no tools

VARIABLE tools

Init == tools = None

Start(choice) == tools = None /\ tools' = choice

Stop == tools # None /\ tools' = None

Next == Stop \/ \E choice \in Choices : Start(choice)

Spec == Init /\ [][Next]_tools

=============================================================================
