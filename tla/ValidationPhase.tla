--------------------------- MODULE ValidationPhase ---------------------------
(***************************************************************************)
(* What the ValidationPhase docstring of rex/contracts.py promises about a *)
(* production run, whatever happens around it: discovery is closed by      *)
(* binding one finalist, that finalist alone consumes the official-        *)
(* validation capability, once, and after that the phase is terminal.      *)
(***************************************************************************)
CONSTANTS Candidates, None

VARIABLES
    phase,     \* the one-way lifecycle
    finalist,  \* the experiment bound when discovery closed
    consumed   \* experiments whose official result has been recorded

phaseVars == <<phase, finalist, consumed>>

Init == phase = "DISCOVERY" /\ finalist = None /\ consumed = {}

Lock(e) ==
    /\ phase = "DISCOVERY"
    /\ phase' = "FINALIST_LOCKED"
    /\ finalist' = e
    /\ UNCHANGED consumed

Consume ==
    /\ phase = "FINALIST_LOCKED"
    /\ consumed = {}
    /\ consumed' = {finalist}
    /\ UNCHANGED <<phase, finalist>>

Conclude ==
    /\ phase = "FINALIST_LOCKED"
    /\ consumed = {finalist}
    /\ phase' = "OFFICIAL_EVALUATED"
    /\ UNCHANGED <<finalist, consumed>>

Next == (\E e \in Candidates : Lock(e)) \/ Consume \/ Conclude

Spec == Init /\ [][Next]_phaseVars

=============================================================================
