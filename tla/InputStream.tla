---------------------------- MODULE InputStream ----------------------------
(***************************************************************************)
(* What netplay promises to the emulated machine: the server decides the   *)
(* inputs of each player one after the other, and every read of a          *)
(* controller gets the next one, in order, none left out and none twice,   *)
(* until the connection is given up.  Two machines that start alike        *)
(* therefore stay alike.                                                   *)
(***************************************************************************)
EXTENDS Integers

CONSTANT Players

VARIABLES
    decided,  \* how many inputs of each player the server has decided
    given,    \* how many of them the machine has been given
    lost      \* the connection has been given up

streamVars == <<decided, given, lost>>

StreamInit ==
    /\ decided = [p \in Players |-> 0]
    /\ given = [p \in Players |-> 0]
    /\ lost = FALSE

Decide(p) ==
    /\ decided' = [decided EXCEPT ![p] = @ + 1]
    /\ UNCHANGED <<given, lost>>

Give(p) ==
    /\ given[p] < decided[p]
    /\ given' = [given EXCEPT ![p] = @ + 1]
    /\ UNCHANGED <<decided, lost>>

GiveUp == lost' = TRUE /\ UNCHANGED <<decided, given>>

StreamNext == (\E p \in Players : Decide(p) \/ Give(p)) \/ GiveUp

StreamSpec == StreamInit /\ [][StreamNext]_streamVars
=============================================================================
