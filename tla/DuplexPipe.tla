----------------------------- MODULE DuplexPipe -----------------------------
(***************************************************************************)
(* What a proxied TCP flow promises the two applications: two independent  *)
(* one-way pipes.  What a pipe gives is what was put in, in order, and it  *)
(* shows an end only after everything was given and the writer ended, or   *)
(* its relay closed the flow as a whole.  A pipe may stop at any time;     *)
(* nothing is promised about when.                                         *)
(***************************************************************************)
EXTENDS Naturals, Sequences

CONSTANT Writers   \* the ends of the flow, each the writer of one pipe

VARIABLES
    taken,   \* chunks taken from each writer
    ended,   \* the writer ended its pipe
    closed,  \* the writer's relay closed the flow without the writer's end
    given,   \* chunks given to the reader of each writer's pipe
    shown    \* the reader was shown the end

vars == <<taken, ended, closed, given, shown>>

Init ==
    /\ taken = [w \in Writers |-> 0]
    /\ ended = [w \in Writers |-> FALSE]
    /\ closed = [w \in Writers |-> FALSE]
    /\ given = [w \in Writers |-> <<>>]
    /\ shown = [w \in Writers |-> FALSE]

Take(w) ==
    /\ ~ended[w] /\ ~closed[w]
    /\ taken' = [taken EXCEPT ![w] = @ + 1]
    /\ UNCHANGED <<ended, closed, given, shown>>

End(w) ==
    /\ ~ended[w] /\ ~closed[w]
    /\ ended' = [ended EXCEPT ![w] = TRUE]
    /\ UNCHANGED <<taken, closed, given, shown>>

Close(w) ==
    /\ ~ended[w] /\ ~closed[w]
    /\ closed' = [closed EXCEPT ![w] = TRUE]
    /\ UNCHANGED <<taken, ended, given, shown>>

Give(w) ==
    /\ ~shown[w] /\ Len(given[w]) < taken[w]
    /\ given' = [given EXCEPT ![w] = Append(@, Len(@) + 1)]
    /\ UNCHANGED <<taken, ended, closed, shown>>

Show(w) ==
    /\ ~shown[w]
    /\ ended[w] \/ closed[w]
    /\ Len(given[w]) = taken[w]
    /\ shown' = [shown EXCEPT ![w] = TRUE]
    /\ UNCHANGED <<taken, ended, closed, given>>

Next == \E w \in Writers : Take(w) \/ End(w) \/ Close(w) \/ Give(w) \/ Show(w)

Spec == Init /\ [][Next]_vars
=============================================================================
