---------------------------- MODULE MCSavestates ----------------------------
(* Instances of Savestates for TLC. *)
EXTENDS Savestates

R(kind, type, fname) == [kind |-> kind, type |-> type, fname |-> fname]

SlotRequests == {R("load", "m64p", "NULL"), R("save", "m64p", "NULL")}
NativeRequests == SlotRequests \cup {R("load", "unknown", "a"), R("save", "m64p", "a")}
\* Names of different formats differ.
AllRequests == NativeRequests \cup
    {R("save", "pj64_zip", "z"), R("save", "pj64_unc", "u"), R("load", "unknown", "u")}

\* Key handlers on the emulation thread, and a file system that never fails.
Keys == [autoInc |-> FALSE, otherThread |-> FALSE, fromCallback |-> FALSE,
         writesFail |-> FALSE, maxRequests |-> 3]
\* Another thread and callbacks, full disks, and the slot moves on after a save.
Hostile == [autoInc |-> TRUE, otherThread |-> TRUE, fromCallback |-> TRUE,
            writesFail |-> TRUE, maxRequests |-> 2]
KeysOnly == {Keys}
BothWays == {Keys, Hostile, [Hostile EXCEPT !.writesFail = FALSE]}
FullDisk == {[Keys EXCEPT !.writesFail = TRUE, !.maxRequests = 2]}
Thread == {[Keys EXCEPT !.otherThread = TRUE, !.maxRequests = 2]}

NoFiles == {}
\* One slot with a file under its old name, one with a file of PJ64.
EarlierFiles == {<<0, "old">>, <<1, "pj64_zip">>}
=============================================================================
