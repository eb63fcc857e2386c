---------------------------- MODULE SignalDecoder ----------------------------
(***************************************************************************)
(* From a frame on the bus to signals: can_layer/can_reader.cpp translates *)
(* the kernel's frame, can_layer/signal_decoder.cpp loads the DBC file and *)
(* extracts from a frame the signals the DBC file puts in it.              *)
(*                                                                         *)
(* A byte is the set of its bits that are 1, and so is a 64-bit integer.   *)
(* Scale, offset and unit are left out: they are applied to the integer.   *)
(***************************************************************************)
EXTENDS Integers, Sequences

CONSTANTS
    Files,        \* DBC files, each the sequence of its lines
    Wanted,       \* signal_names
    Frames,       \* frames as the kernel hands them out
    Leftovers,    \* what the data of a CanFrame may hold before it is written
    MaxId,        \* CAN_EFF_MASK, the largest id of a frame
    None          \* "no frame", "no signal"

Byte == SUBSET (0..7)
Data == [0..7 -> Byte]
Word == SUBSET (0..63)

\* BO_ and SG_, and lines that match neither pattern.  A message with 29-bit ids has
\* a number above MaxId: its id plus the flag in bit 31.  A line "converts" if std::stoul and
\* std::stod take its numbers; the patterns let longer ones pass, and a scale without a digit.
BO == [kind : {"BO"}, number : Nat, converts : BOOLEAN]
SG == [kind : {"SG"}, name : STRING, start_bit : 0..63, length : 1..64,
       is_little_endian : BOOLEAN, is_signed : BOOLEAN, converts : BOOLEAN]
Line == BO \cup SG \cup [kind : {"other"}]

KernelFrame == [id : 0..MaxId, extended : BOOLEAN, remote : BOOLEAN, can_dlc : 0..8, data : Data]

\* A DBC file for frames of 8 bytes: a definition that converts lies in them.
ASSUME ConstantsAssumption ==
    /\ Files \subseteq Seq(Line)
    /\ Wanted \subseteq STRING
    /\ Frames \subseteq KernelFrame
    /\ Leftovers \subseteq Data
    /\ MaxId \in Nat
    /\ None \notin STRING

VARIABLES
    file, line,       \* the DBC file, and the next line of it that load() reads
    current_can_id,   \* of load()
    signals,          \* signals_: definitions by name
    bus,              \* the kernel's frame
    frame,            \* the CanFrame made of it
    pc,               \* where load() or decode() stands
    todo,             \* signals decode() has still to look at
    name, i, raw,     \* the signal it looks at, the next bit of it, and what was found
    results

loading == <<file, line, current_can_id, signals>>
extracting == <<name, i, raw>>
vars == <<loading, bus, frame, pc, todo, extracting, results>>

SignalDef == [can_id : Nat, start_bit : 0..255, length : 0..255,
              is_little_endian : BOOLEAN, is_signed : BOOLEAN]
CanFrame == [can_id : 0..MaxId, dlc : 0..8, data : Data]
DecodedSignal == [name : Wanted, raw_signed : Word]

TypeOK ==
    /\ file \in Files
    /\ line \in 1..(Len(file) + 1)
    /\ current_can_id \in Nat
    /\ DOMAIN signals \subseteq Wanted
    /\ \A n \in DOMAIN signals : signals[n] \in SignalDef
    /\ bus \in Frames \cup {None}
    /\ frame \in CanFrame \cup {None}
    /\ pc \in {"load", "failed", "terminated", "idle", "pick", "bits", "sign"}
    /\ todo \subseteq DOMAIN signals
    /\ name \in todo \cup {None}
    /\ i \in 0..64
    /\ raw \in Word
    /\ results \in Seq(DecodedSignal)

Init ==
    /\ file \in Files
    /\ line = 1
    /\ current_can_id = 0
    /\ signals = [n \in {} |-> None]
    /\ bus = None /\ frame = None
    /\ pc = "load"
    /\ todo = {}
    /\ name = None /\ i = 0 /\ raw = {}
    /\ results = <<>>

-----------------------------------------------------------------------------
(* load() *)

OpenFails ==
    /\ pc = "load"
    /\ line = 1
    /\ pc' = "failed"
    /\ UNCHANGED <<loading, bus, frame, todo, extracting, results>>

Reading(kind) ==
    /\ pc = "load"
    /\ line <= Len(file)
    /\ file[line].kind = kind
    /\ line' = line + 1
    /\ UNCHANGED <<file, bus, frame, pc, todo, extracting, results>>

ReadMessage ==
    /\ Reading("BO")
    /\ file[line].converts
    /\ current_can_id' = file[line].number
    /\ UNCHANGED signals

\* Positions are cast to uint8_t, which takes nothing from those in a frame of 8 bytes.
Definition(sg, can_id) ==
    [can_id |-> can_id, start_bit |-> sg.start_bit % 256, length |-> sg.length % 256,
     is_little_endian |-> sg.is_little_endian, is_signed |-> sg.is_signed]

ReadSignalKeepFirst ==      \* mutation
    LET sg == file[line] IN
    /\ Reading("SG")
    /\ sg.name \in Wanted /\ sg.converts
    /\ signals' = IF sg.name \in DOMAIN signals THEN signals
                  ELSE [n \in DOMAIN signals \cup {sg.name} |->
                          IF n = sg.name THEN Definition(sg, current_can_id) ELSE signals[n]]
    /\ UNCHANGED current_can_id

\* signals_[name] = def, in place of an earlier definition of that name.
ReadSignal ==
    LET sg == file[line] IN
    /\ Reading("SG")
    /\ sg.name \in Wanted /\ sg.converts
    /\ signals' = [n \in DOMAIN signals \cup {sg.name} |->
                     IF n = sg.name THEN Definition(sg, current_can_id) ELSE signals[n]]
    /\ UNCHANGED current_can_id

SkipLine ==
    /\ \/ Reading("other")
       \/ Reading("SG") /\ file[line].name \notin Wanted
    /\ UNCHANGED <<current_can_id, signals>>

\* Nobody catches what std::stoul or std::stod throws: the gateway is terminated.
ConversionThrows ==
    /\ pc = "load"
    /\ line <= Len(file)
    /\ \/ file[line].kind = "BO"
       \/ file[line].kind = "SG" /\ file[line].name \in Wanted
    /\ ~file[line].converts
    /\ pc' = "terminated"
    /\ UNCHANGED <<loading, bus, frame, todo, extracting, results>>

LoadDone ==
    /\ pc = "load"
    /\ line > Len(file)
    /\ pc' = "idle"
    /\ UNCHANGED <<loading, bus, frame, todo, extracting, results>>

-----------------------------------------------------------------------------
(* CanReader::run() *)

TranslatedWithFlags(kernel, leftover) ==      \* mutation
    [can_id |-> IF kernel.extended THEN kernel.id + MaxId + 1 ELSE kernel.id, dlc |-> kernel.can_dlc,
     data |-> [k \in 0..7 |-> IF k < kernel.can_dlc THEN kernel.data[k] ELSE leftover[k]]]

\* The flags are masked off, can_dlc bytes are copied, the others keep what they hold.
Translated(kernel, leftover) ==
    [can_id |-> kernel.id, dlc |-> kernel.can_dlc,
     data |-> [k \in 0..7 |-> IF k < kernel.can_dlc THEN kernel.data[k] ELSE leftover[k]]]

\* The frame goes through can_frame_q to main, which decodes it.
Receive ==
    /\ pc = "idle"
    /\ \E kernel \in Frames, leftover \in Leftovers :
          bus' = kernel /\ frame' = Translated(kernel, leftover)
    /\ pc' = "pick"
    /\ todo' = DOMAIN signals
    /\ UNCHANGED <<loading, extracting, results>>

-----------------------------------------------------------------------------
(* decode() *)

SkipSignalAndBreak ==      \* mutation
    /\ pc = "pick"
    /\ \E n \in todo : signals[n].can_id # frame.can_id
    /\ todo' = {}
    /\ UNCHANGED <<loading, bus, frame, pc, extracting, results>>

\* The order of an unordered_map is any.
SkipSignal ==
    /\ pc = "pick"
    /\ \E n \in todo :
          /\ signals[n].can_id # frame.can_id
          /\ todo' = todo \ {n}
    /\ UNCHANGED <<loading, bus, frame, pc, extracting, results>>

PickSignal ==
    /\ pc = "pick"
    /\ \E n \in todo :
          /\ signals[n].can_id = frame.can_id
          /\ name' = n
    /\ i' = 0
    /\ raw' = {}
    /\ pc' = "bits"
    /\ UNCHANGED <<loading, bus, frame, todo, results>>

bit_pos == (signals[name].start_bit + i) % 256
byte_idx == bit_pos \div 8
bit_idx == bit_pos % 8

ExtractBit ==
    /\ pc = "bits"
    /\ i < signals[name].length
    /\ byte_idx < frame.dlc
    /\ raw' = IF bit_idx \in frame.data[byte_idx] THEN raw \cup {i} ELSE raw
    /\ i' = i + 1
    /\ UNCHANGED <<loading, bus, frame, pc, todo, name, results>>

\* The whole signal is there, or it extends beyond the data and is cut short.
EndOfBits ==
    /\ pc = "bits"
    /\ i < signals[name].length => byte_idx >= frame.dlc
    /\ pc' = "sign"
    /\ UNCHANGED <<loading, bus, frame, todo, extracting, results>>

SignExtendedAbove(def, bits) ==      \* mutation
    IF def.is_signed /\ def.length - 1 \in bits
    THEN bits \cup ((def.length + 1)..63) ELSE bits

\* raw | ~(sign_bit - 1)
SignExtended(def, bits) ==
    IF def.is_signed /\ def.length - 1 \in bits
    THEN bits \cup ((def.length - 1)..63) ELSE bits

PushSignal ==
    /\ pc = "sign"
    /\ results' = Append(results, [name |-> name,
                                   raw_signed |-> SignExtended(signals[name], raw)])
    /\ todo' = todo \ {name}
    /\ name' = None /\ i' = 0 /\ raw' = {}
    /\ pc' = "pick"
    /\ UNCHANGED <<loading, bus, frame>>

\* main takes the results, and the next frame finds decode() as it was.
Return ==
    /\ pc = "pick"
    /\ todo = {}
    /\ bus' = None /\ frame' = None
    /\ results' = <<>>
    /\ pc' = "idle"
    /\ UNCHANGED <<loading, todo, extracting>>

Load == OpenFails \/ ReadMessage \/ ReadSignal \/ SkipLine \/ ConversionThrows \/ LoadDone

Decode == SkipSignal \/ PickSignal \/ ExtractBit \/ EndOfBits \/ PushSignal \/ Return

Next == Load \/ Receive \/ Decode

Spec == Init /\ [][Next]_vars

-----------------------------------------------------------------------------
(* Safety *)

Defines(k, n) == file[k].kind = "SG" /\ file[k].name = n

\* Line k is in the block of the message with this id; 0 before the first message.
InBlockOf(k, can_id) ==
    \E b \in 0..k :
        /\ \A l \in (b + 1)..k : file[l].kind # "BO"
        /\ IF b = 0 THEN can_id = 0 ELSE file[b].kind = "BO" /\ can_id = file[b].number

LastDefines(k, n) == Defines(k, n) /\ \A l \in (k + 1)..(line - 1) : ~Defines(l, n)

\* The table holds of each wanted signal the last definition in the lines read so far,
\* with the message whose block that line is in.
TableMatchesFile ==
    /\ \A n \in Wanted, k \in 1..(line - 1) : Defines(k, n) => n \in DOMAIN signals
    /\ \A n \in DOMAIN signals : \E k \in 1..(line - 1) :
          /\ LastDefines(k, n)
          /\ InBlockOf(k, signals[n].can_id)
          /\ signals[n] = Definition(file[k], signals[n].can_id)

\* A bit of a frame as it is on the bus; there are none past its data.
BitOf(kernel, pos) == pos < 8 * kernel.can_dlc /\ pos % 8 \in kernel.data[pos \div 8]

\* The integer of a signal: from bit 0 on the bits of the frame from start_bit on, 0 where
\* the frame is too short, and above them copies of the topmost one if it is signed.
SignalBits(def, kernel) ==
    {b \in 0..63 : \/ b < def.length /\ BitOf(kernel, def.start_bit + b)
                   \/ /\ b >= def.length /\ def.is_signed
                      /\ BitOf(kernel, def.start_bit + def.length - 1)}

\* What decode() returns for a signal is what its definition makes of the frame on the bus:
\* what the CanFrame held before, and what other signals hold, does not get into it.
BitsAsDefined ==
    \A k \in DOMAIN results :
        results[k].raw_signed = SignalBits(signals[results[k].name], bus)

\* decode() "returns all signals found in this frame": when it returns, each signal
\* of a message with the frame's id is in the result once, and no other is.
AllSignalsOnce ==
    pc = "pick" /\ todo = {} =>
        /\ \A n \in DOMAIN signals :
              signals[n].can_id = bus.id <=> \E k \in DOMAIN results : results[k].name = n
        /\ \A k, l \in DOMAIN results : results[k].name = results[l].name => k = l
=============================================================================
