------------------------------ MODULE Netplay ------------------------------
(***************************************************************************)
(* src/main/netplay.c: how a client of a netplay session gets the inputs   *)
(* of all players, from the registration to the end of the emulation.      *)
(*                                                                         *)
(* The server numbers the inputs of a player with a 32-bit counter and     *)
(* sends them in UDP packets, which may be lost, repeated, late or out of  *)
(* order.  The client keeps those it will need in a list per player and    *)
(* netplay_count, the number of the next one.  A read of a controller      *)
(* whose input is not there yet starts a thread that begs the server for   *)
(* it, while the emulation thread goes on receiving; after ten seconds the *)
(* thread gives the connection up.                                         *)
(*                                                                         *)
(* What the buttons are decides nothing, so the n-th input of a player is  *)
(* just n, and the server is how many inputs it has decided.  The packets  *)
(* on their way are not kept: as long as a packet is not too old, any      *)
(* input that was decided may be received at any time, any number of times *)
(* or never, which is all that UDP promises.  Sending (the own keys, the   *)
(* requests, the CP0 registers) changes nothing here.  The status byte is  *)
(* only reported to the user and is left out.                              *)
(***************************************************************************)
EXTENDS Integers, Sequences

CONSTANTS
    Players,       \* the players present
    Wrap,          \* 2^32 in the code
    Ahead,         \* how far the server decides ahead of this client
    MaxAge,        \* a packet older than this does not arrive any more
    BufferTarget,  \* l_buffer_target
    MaxInputs      \* bound on the inputs of a player

Half == Wrap \div 2

ASSUME NetplayAssumption ==
    /\ Wrap \in Nat /\ Wrap > 1 /\ Wrap = 2 * Half
    /\ Ahead \in 1 .. Half /\ MaxAge \in 0 .. Half
    /\ BufferTarget \in Nat /\ MaxInputs \in Nat

VARIABLES
    decided,  \* the inputs 0 .. decided[p] - 1 of player p exist (the server)
    count,    \* netplay_count
    list,     \* event_first: the recorded events, the latest first
    lag,      \* l_player_lag # 0
    canFF,    \* l_canFF
    limiter,  \* l_MainSpeedLimit
    resting,  \* what the limiter is outside fast-forwards: what the session found, and
              \* on from the first fast-forward (history)
    channel,  \* l_udpChannel # -1
    main,     \* where the emulation thread is in netplay_get_input
    thread,   \* where netplay_require_response is
    given,    \* how many inputs the machine was given
    last,     \* the input it was given last, -1 at first (history)
    stop      \* the emulation was told to stop

speed == <<canFF, limiter, resting>>
vars == <<decided, count, list, lag, speed, channel, main, thread, given, last, stop>>

NoPlayer == 0
Idle == [at |-> "idle", p |-> NoPlayer]
Modulo(n) == n % Wrap

\* netplay_start, and main_run for the counters and lists.  The limiter is as the
\* front-end or an earlier ROM left it: nothing resets it.
Init ==
    /\ decided = [p \in Players |-> 0]
    /\ count = [p \in Players |-> 0]
    /\ list = [p \in Players |-> <<>>]
    /\ lag = [p \in Players |-> FALSE]
    /\ canFF = FALSE /\ limiter \in BOOLEAN /\ resting = limiter
    /\ channel = TRUE
    /\ main = Idle /\ thread = "none"
    /\ given = [p \in Players |-> 0] /\ last = [p \in Players |-> -1]
    /\ stop = FALSE

-----------------------------------------------------------------------------
(* The server: it decides the next input of a player.                       *)
ServerDecides(p) ==
    /\ decided[p] < MaxInputs
    /\ decided[p] < given[p] + Ahead
    /\ decided' = [decided EXCEPT ![p] = @ + 1]
    /\ UNCHANGED <<count, list, lag, speed, channel, main, thread, given, last, stop>>

-----------------------------------------------------------------------------
(* The list of events.                                                      *)

\* check_valid.
CheckValid(p, c) == \E i \in 1 .. Len(list[p]) : list[p][i].count = c

Valid(p) == CheckValid(p, count[p])

\* An event that has happened already lies behind netplay_count; unsigned
\* subtraction, so it also works across the wrap-around.  Outdated_Signed compares
\* the counters instead.
Outdated_Signed(p, c) == c < count[p]
Outdated(p, c) == Modulo(c - count[p]) > (Wrap - 1) \div 2

\* netplay_process calls this for every event of a packet; it is the same whether
\* the packet answers a request or not.
Receiving == main.at \in {"process", "wait"}

ProcessEvent(p, n) ==
    LET c == Modulo(n) IN
    /\ Receiving
    /\ list' = IF Outdated(p, c) \/ CheckValid(p, c) THEN list
               ELSE [list EXCEPT ![p] = <<[count |-> c, input |-> n]>> \o @]
    /\ UNCHANGED <<decided, count, lag, speed, channel, main, thread, given, last, stop>>

\* The header of an answer tells how far this client lags behind the leader.
ProcessLag(p, behind) ==
    /\ Receiving
    /\ lag' = [lag EXCEPT ![p] = behind]
    /\ UNCHANGED <<decided, count, list, speed, channel, main, thread, given, last, stop>>

-----------------------------------------------------------------------------
(* Reading a controller: netplay_get_input.                                 *)

StartRead(p) ==
    /\ main.at = "idle"
    /\ given[p] < MaxInputs
    /\ main' = [at |-> "process", p |-> p]
    /\ UNCHANGED <<decided, count, list, lag, speed, channel, thread, given, last, stop>>

\* main_set_speedlimiter does nothing in a netplay session unless l_canFF is set.
SetSpeedLimiter(on, ff) == IF ff THEN on ELSE limiter

\* A client that is behind and has more events than the target may run at full
\* speed; otherwise the limiter comes back, before l_canFF is cleared.
\* Speed_ClearedFirst clears l_canFF first.
Speed_ClearedFirst(p) ==
    IF lag[p] /\ Len(list[p]) > BufferTarget
    THEN canFF' = TRUE /\ limiter' = SetSpeedLimiter(FALSE, TRUE)
    ELSE canFF' = FALSE /\ limiter' = SetSpeedLimiter(TRUE, FALSE)

Speed(p) ==
    IF lag[p] /\ Len(list[p]) > BufferTarget
    THEN canFF' = TRUE /\ limiter' = SetSpeedLimiter(FALSE, TRUE)
    ELSE limiter' = SetSpeedLimiter(TRUE, canFF) /\ canFF' = FALSE

\* M64CMD_CORE_STATE_SET with M64CORE_SPEED_LIMITER, from the front-end.
CoreStateSet(on) ==
    /\ limiter' = SetSpeedLimiter(on, canFF)
    /\ UNCHANGED <<decided, count, list, lag, canFF, resting, channel, main, thread, given,
                   last, stop>>

\* netplay_get_input looks for the event with the right number, and
\* netplay_delete_event takes it out of the list.  First_Latest takes the event that
\* arrived last.
First_Latest(p) == 1
First(p) == CHOOSE i \in 1 .. Len(list[p]) :
               /\ list[p][i].count = count[p]
               /\ \A j \in 1 .. i - 1 : list[p][j].count # count[p]

Delete(s, i) == [j \in 1 .. Len(s) - 1 |-> IF j < i THEN s[j] ELSE s[j + 1]]

\* The event is used, deleted, and the counter goes on, modulo 2^32.
TakeEvent(p) ==
    /\ last' = [last EXCEPT ![p] = list[p][First(p)].input]
    /\ given' = [given EXCEPT ![p] = @ + 1]
    /\ list' = [list EXCEPT ![p] = Delete(@, First(p))]
    /\ count' = [count EXCEPT ![p] = Modulo(@ + 1)]
    /\ UNCHANGED stop

\* "Lost connection to server": no keys, and the emulation stops.
LoseConnection == stop' = TRUE /\ UNCHANGED <<last, given, list, count>>

\* The rest of netplay_get_input up to the point where it must wait: the request,
\* the speed, netplay_ensure_valid.
EnsureValid ==
    LET p == main.p IN
    /\ main.at = "process"
    /\ Speed(p) /\ resting' = (resting \/ canFF')
    /\ \/ Valid(p) /\ TakeEvent(p) /\ main' = Idle /\ UNCHANGED thread
       \/ ~Valid(p) /\ ~channel /\ LoseConnection /\ main' = Idle /\ UNCHANGED thread
       \/ /\ ~Valid(p) /\ channel
          /\ main' = [main EXCEPT !.at = "wait"] /\ thread' = "check"
          /\ UNCHANGED <<last, given, list, count, stop>>
    /\ UNCHANGED <<decided, lag, channel>>

\* The loop around netplay_process ends.
LeaveWait ==
    /\ main.at = "wait"
    /\ Valid(main.p) \/ ~channel
    /\ main' = [main EXCEPT !.at = "join"]
    /\ UNCHANGED <<decided, count, list, lag, speed, channel, thread, given, last, stop>>

\* SDL_WaitThread: what the thread returned decides.
JoinThread ==
    /\ main.at = "join"
    /\ \/ thread = "ok" /\ Valid(main.p) /\ TakeEvent(main.p)
       \/ thread = "lost" /\ LoseConnection
    /\ main' = Idle /\ thread' = "none"
    /\ UNCHANGED <<decided, lag, speed, channel>>

\* The emulation ends, told so here or by the user.
EndEmulation ==
    /\ main.at = "idle"
    /\ main' = [Idle EXCEPT !.at = "ended"]
    /\ UNCHANGED <<decided, count, list, lag, speed, channel, thread, given, last, stop>>

-----------------------------------------------------------------------------
(* The thread: netplay_require_response.                                    *)

ThreadCheck ==
    /\ thread = "check"
    /\ thread' = IF Valid(main.p) THEN "ok" ELSE "ask"
    /\ UNCHANGED <<decided, count, list, lag, speed, channel, main, given, last, stop>>

\* Not yet: ask the server and sleep.
ThreadAsk ==
    /\ thread = "ask"
    /\ thread' = "check"
    /\ UNCHANGED <<decided, count, list, lag, speed, channel, main, given, last, stop>>

\* The ten seconds are over.  ThreadTimeout_KeepsChannel does not tell the emulation
\* thread; ThreadTimeout_Succeeds returns 1.
ThreadTimeout_KeepsChannel ==
    /\ thread = "ask"
    /\ thread' = "lost"
    /\ UNCHANGED <<decided, count, list, lag, speed, channel, main, given, last, stop>>

ThreadTimeout_Succeeds ==
    /\ thread = "ask"
    /\ thread' = "ok" /\ channel' = FALSE
    /\ UNCHANGED <<decided, count, list, lag, speed, main, given, last, stop>>

ThreadTimeout ==
    /\ thread = "ask"
    /\ thread' = "lost" /\ channel' = FALSE
    /\ UNCHANGED <<decided, count, list, lag, speed, main, given, last, stop>>

MainStep == EnsureValid \/ LeaveWait \/ JoinThread
ThreadStep == ThreadCheck \/ ThreadAsk \/ ThreadTimeout

\* What the network may still bring.
InFlight(p) == {n \in 0 .. decided[p] - 1 : n >= given[p] - MaxAge}

Next ==
    \/ \E p \in Players :
          \/ ServerDecides(p) \/ StartRead(p)
          \/ \E n \in InFlight(p) : ProcessEvent(p, n)
          \/ \E behind \in BOOLEAN : ProcessLag(p, behind)
    \/ \E on \in BOOLEAN : CoreStateSet(on)
    \/ MainStep \/ EndEmulation
    \/ ThreadStep

Spec == Init /\ [][Next]_vars

\* Both threads run, and the clock reaches the time-out.  Nothing is assumed of
\* the network or of the server.
FairSpec == /\ Spec
            /\ WF_vars(MainStep)
            /\ WF_vars(ThreadStep)
            /\ SF_vars(ThreadTimeout)

-----------------------------------------------------------------------------
(* Properties.                                                              *)

\* The types of the variables.
TypeOK ==
    /\ decided \in [Players -> 0 .. MaxInputs] /\ given \in [Players -> 0 .. MaxInputs]
    /\ count \in [Players -> 0 .. Wrap - 1]
    /\ list \in [Players -> Seq([count : 0 .. Wrap - 1, input : Nat])]
    /\ lag \in [Players -> BOOLEAN] /\ last \in [Players -> {-1} \cup Nat]
    /\ canFF \in BOOLEAN /\ limiter \in BOOLEAN /\ resting \in BOOLEAN
    /\ channel \in BOOLEAN /\ stop \in BOOLEAN
    /\ main \in [at : {"idle", "process", "wait", "join", "ended"},
                 p : Players \cup {NoPlayer}]
    /\ thread \in {"none", "check", "ask", "ok", "lost"}

\* Whatever the network repeats or delays, the list of a player holds only inputs
\* that are still to come, each of them once, under the right number.
ListSound ==
    \A p \in Players :
        /\ count[p] = Modulo(given[p])
        /\ \A i \in 1 .. Len(list[p]) :
              /\ list[p][i].input \in given[p] .. decided[p] - 1
              /\ list[p][i].count = Modulo(list[p][i].input)
              /\ \A j \in 1 .. i - 1 : list[p][j].input # list[p][i].input

\* When the thread says that the event is there, the emulation thread finds it: its
\* search of the list has no end test.
TakeFinds == (main.at = "join" /\ thread = "ok") => Valid(main.p)

\* A fast-forward that the server's answer allowed leaves the speed limiter on, whatever
\* the front-end set it to meanwhile and although main_set_speedlimiter refuses to change
\* it outside one; and before the first one it is as the session found it.
LimiterRestored == canFF \/ limiter = resting

\* Every read gives the next input of the server: the client implements
\* InputStream, with the input that was handed over last as the measure.
Stream == INSTANCE InputStream WITH given <- [p \in Players |-> last[p] + 1],
                                    lost <- ~channel
InputsInOrder == Stream!StreamSpec

\* The emulation thread never waits for ever in netplay_get_input, even if the
\* server has gone.
ReadReturns == (main.at \in {"process", "wait", "join"}) ~> (main.at = "idle")
=============================================================================
