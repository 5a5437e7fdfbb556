----------------------------- MODULE TerminalView -----------------------------
(***************************************************************************)
(* What the viewport promises: the text it shows of a terminal is that     *)
(* terminal's output from its first recovered line on, each line once and  *)
(* in order.  It may lag, and it may lose the terminal, but never skips.   *)
(***************************************************************************)
EXTENDS Naturals, Sequences

CONSTANTS Terminals, None

VARIABLES
  output,  \* how many lines each terminal has written
  viewing, \* the terminal that is viewed, or None
  screen   \* the lines shown, by number

Init == output = [t \in Terminals |-> 0] /\ viewing = None /\ screen = <<>>

Write(t) == output' = [output EXCEPT ![t] = @ + 1] /\ UNCHANGED <<viewing, screen>>

Open(t) == viewing' = t /\ screen' = <<>> /\ UNCHANGED output

(* The lines kept by tmux come at once ...                                 *)
Recover == /\ viewing # None /\ screen = <<>>
           /\ \E n \in 0 .. output[viewing] : screen' = [i \in 1 .. n |-> i]
           /\ UNCHANGED <<output, viewing>>

(* ... and what is written later line by line.                             *)
Show == /\ viewing # None /\ Len(screen) < output[viewing]
        /\ screen' = Append(screen, Len(screen) + 1)
        /\ UNCHANGED <<output, viewing>>

Lose == viewing' = None /\ UNCHANGED <<output, screen>>

Next == (\E t \in Terminals : Write(t) \/ Open(t)) \/ Recover \/ Show \/ Lose

Spec == Init /\ [][Next]_<<output, viewing, screen>>

(* What is on the screen is the beginning of the output, without a gap.    *)
Gapless ==
  /\ screen = [i \in 1 .. Len(screen) |-> i]
  /\ viewing # None => Len(screen) <= output[viewing]
=============================================================================
