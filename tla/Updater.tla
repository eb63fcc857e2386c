------------------------------ MODULE Updater ------------------------------
(***************************************************************************)
(* What gateway/ota_agent.hpp promises the cloud and the vehicle, without  *)
(* the worker's statements and without its download and backup files:      *)
(* triggers are taken one at a time in the order they came; the active     *)
(* slot is left alone until the image the trigger asks for can be written; *)
(* and what the cloud is told of a trigger is so at the moment it is told. *)
(***************************************************************************)
EXTENDS Naturals, Sequences

CONSTANTS
    Images,
    Factory,   \* the image the vehicle is delivered with
    Triggers,
    ImageOf,   \* the image a trigger asks for, or something that is no image
    Torn,      \* content of a slot that is no complete image
    None       \* no content; no trigger

VARIABLES
    issued,    \* triggers the vehicle was sent
    waiting,   \* those to be taken, in order
    job,       \* the last one taken
    phase,     \* what is being done for it
    slot,      \* content of the active slot
    settled,   \* what a power loss cannot take from it
    found,     \* what the slot held when the job was taken
    told       \* what the cloud knows of each trigger

vars == <<issued, waiting, job, phase, slot, settled, found, told>>

\* The reports of an update that is under way, in their order.
Progress == <<"MANIFEST_RECEIVED", "DOWNLOADING", "VERIFYING", "INSTALLING">>

Init ==
    /\ issued = {}
    /\ waiting = <<>>
    /\ job = None
    /\ phase = "idle"
    /\ slot \in {Factory, None}
    /\ settled = slot
    /\ found = slot
    /\ told = [t \in Triggers |-> "UNREPORTED"]

Ask(t) ==
    /\ phase # "off"
    /\ t \notin issued
    /\ issued' = issued \cup {t}
    /\ waiting' = Append(waiting, t)
    /\ UNCHANGED <<settled, job, phase, slot, found, told>>

Begin ==
    /\ phase = "idle"
    /\ waiting # <<>>
    /\ job' = Head(waiting)
    /\ waiting' = Tail(waiting)
    /\ found' = slot
    /\ phase' = "preparing"
    /\ UNCHANGED <<settled, issued, slot, told>>

\* The cloud hears it, or does not.
Tell(state) == told' \in {told, [told EXCEPT ![job] = state]}

TellProgress(k) ==
    /\ phase = "preparing"
    /\ told[job] \in {"UNREPORTED"} \cup {Progress[j] : j \in 1..(k - 1)}
    /\ Tell(Progress[k])
    /\ UNCHANGED <<settled, issued, waiting, job, phase, slot, found>>

\* An update ends with a report, which can only be a true one.
End(from, state) ==
    /\ phase = from
    /\ phase' = "idle"
    /\ told[job] \notin {"COMPLETE", "FAILED", "ROLLED_BACK"}
    /\ Tell(state)
    /\ UNCHANGED <<settled, issued, waiting, job, slot, found>>

Refuse == End("preparing", "FAILED") /\ slot = found

\* It is known which image will be written, and that it is the one asked for.
BeginWriting ==
    /\ phase = "preparing"
    /\ ImageOf[job] \in Images
    /\ slot = found
    /\ slot' \in {slot, Torn}
    /\ phase' = "writing"
    /\ UNCHANGED <<settled, issued, waiting, job, found, told>>

EndWriting ==
    /\ phase = "writing"
    /\ slot' = ImageOf[job]
    /\ phase' = "written"
    /\ UNCHANGED <<settled, issued, waiting, job, found, told>>

\* The way back, which may fail.
Restore ==
    /\ phase = "writing"
    /\ slot' \in {Torn, found}
    /\ UNCHANGED <<settled, issued, waiting, job, phase, found, told>>

Complete == End("written", "COMPLETE") /\ slot = ImageOf[job]

GiveUp == End("writing", "ROLLED_BACK") /\ slot \in {Torn, found}

Off ==
    /\ phase' = "off"
    /\ job' = None
    /\ waiting' = <<>>
    /\ UNCHANGED <<issued, found, told>>

\* The process dies, at any time, and forgets what it has not begun.
Die == Off /\ UNCHANGED <<slot, settled>>

Settle ==
    /\ settled' = slot
    /\ UNCHANGED <<issued, waiting, job, phase, slot, found, told>>

\* The power fails: a slot that has settled stays what it is.
LosePower ==
    /\ Off
    /\ slot' \in IF slot = settled THEN {slot} ELSE {slot, settled, Torn}
    /\ settled' = slot'

Restart ==
    /\ phase = "off"
    /\ phase' = "idle"
    /\ UNCHANGED <<settled, issued, waiting, job, slot, found, told>>

Next ==
    \/ \E t \in Triggers : Ask(t)
    \/ Begin
    \/ \E k \in DOMAIN Progress : TellProgress(k)
    \/ Refuse \/ BeginWriting \/ EndWriting \/ Restore \/ Complete \/ GiveUp
    \/ Die \/ Restart \/ Settle \/ LosePower

Spec == Init /\ [][Next]_vars
=============================================================================
