----------------------------- MODULE RwMonitor -----------------------------
(***************************************************************************)
(* What ngx_rwlock promises to the code that takes it: a reader enters     *)
(* while no writer is in, a writer while nobody is in, a writer may become *)
(* a reader without anyone coming between.  Who is killed inside stays in. *)
(***************************************************************************)
EXTENDS FiniteSets

CONSTANT Proc

VARIABLES readersIn, writersIn

vars == <<readersIn, writersIn>>

Init == readersIn = {} /\ writersIn = {}

EnterRead(p) ==
    /\ writersIn = {}
    /\ readersIn' = readersIn \cup {p}
    /\ UNCHANGED writersIn

EnterWrite(p) ==
    /\ writersIn = {} /\ readersIn = {}
    /\ writersIn' = {p}
    /\ UNCHANGED readersIn

Leave(p) ==
    /\ p \in readersIn \cup writersIn
    /\ readersIn' = readersIn \ {p}
    /\ writersIn' = writersIn \ {p}

Downgrade(p) ==
    /\ p \in writersIn
    /\ writersIn' = writersIn \ {p}
    /\ readersIn' = readersIn \cup {p}

Next == \E p \in Proc : EnterRead(p) \/ EnterWrite(p) \/ Leave(p) \/ Downgrade(p)

Spec == Init /\ [][Next]_vars
=============================================================================
