------------------------- MODULE SignalDecoderProofs -------------------------
(***************************************************************************)
(* Theorems about SignalDecoder, for any DBC file, any frames and whatever *)
(* the CanFrame held before: the table matches the file, and a decoded     *)
(* signal has the bits the frame had on the bus.                           *)
(*                                                                         *)
(* The bits need the loop's invariant: what is found of a signal so far    *)
(* are the first i bits from start_bit on, and a loop that ends early ends *)
(* where the frame does.                                                   *)
(***************************************************************************)
EXTENDS SignalDecoder, TLAPS

\* The message in whose block the next line is.
CurrentMessage == InBlockOf(line - 1, current_can_id)

Busy == pc \in {"bits", "sign"}

\* A definition read from a line has its positions.
InFrame == \A n \in DOMAIN signals : signals[n].start_bit \in 0..63 /\ signals[n].length \in 1..64

FrameOfBus ==
    IF pc \in {"pick", "bits", "sign"}
    THEN bus \in Frames /\ \E leftover \in Leftovers : frame = Translated(bus, leftover)
    ELSE bus = None /\ frame = None /\ results = <<>>

BitsSoFar ==
    IF Busy
    THEN /\ name \in todo /\ signals[name].can_id = frame.can_id
         /\ i <= signals[name].length
         /\ raw = {b \in 0..(i - 1) : BitOf(bus, signals[name].start_bit + b)}
         /\ pc = "sign" => i = signals[name].length \/ signals[name].start_bit + i >= 8 * bus.can_dlc
    ELSE name = None /\ i = 0 /\ raw = {}

\* The signals looked at so far are in the result if they are of the frame's message.
ResultsSoFar ==
    pc \in {"pick", "bits", "sign"} =>
        /\ \A n \in DOMAIN signals \ todo :
              signals[n].can_id = bus.id => \E k \in DOMAIN results : results[k].name = n
        /\ \A k \in DOMAIN results : /\ results[k].name \in DOMAIN signals \ todo
                                     /\ signals[results[k].name].can_id = bus.id
        /\ \A k, l \in DOMAIN results : results[k].name = results[l].name => k = l

LoadInv == TypeOK /\ InFrame /\ CurrentMessage /\ TableMatchesFile

DecodeInv == FrameOfBus /\ BitsSoFar /\ ResultsSoFar /\ BitsAsDefined

LEMMA LineFacts ==
    ASSUME NEW f \in Files, NEW k \in 1..Len(f)
    PROVE  /\ f[k] \in Line
           /\ Len(f) \in Nat
           /\ f[k].kind = "BO" => f[k].number \in Nat
           /\ f[k].kind = "SG" => f[k] \in SG
<1>1. f \in Seq(Line)
  BY ConstantsAssumption DEF ConstantsAssumption
<1>2. f[k] \in Line
  BY <1>1
<1>3. f[k].kind = "BO" => f[k] \in BO
  BY <1>2 DEF Line, BO, SG
<1>4. f[k].kind = "SG" => f[k] \in SG
  BY <1>2 DEF Line, BO, SG
<1>. QED
  BY <1>1, <1>2, <1>3, <1>4 DEF BO

LEMMA DefinitionFacts ==
    ASSUME NEW sg \in SG, NEW can_id \in Nat
    PROVE  /\ Definition(sg, can_id) \in SignalDef
           /\ Definition(sg, can_id).start_bit \in 0..63
           /\ Definition(sg, can_id).length \in 1..64
<1>1. sg.start_bit \in 0..63 /\ sg.length \in 1..64
      /\ sg.is_little_endian \in BOOLEAN /\ sg.is_signed \in BOOLEAN
  BY DEF SG
<1>2. sg.start_bit % 256 = sg.start_bit /\ sg.length % 256 = sg.length
  BY <1>1
<1>. QED
  BY <1>1, <1>2 DEF Definition, SignalDef

LEMMA TranslatedFacts ==
    ASSUME NEW kernel \in Frames, NEW leftover \in Leftovers
    PROVE  /\ Translated(kernel, leftover) \in CanFrame
           /\ kernel.can_dlc \in 0..8
           /\ kernel.id \in 0..MaxId
           /\ Translated(kernel, leftover).can_id = kernel.id
           /\ Translated(kernel, leftover).dlc = kernel.can_dlc
           /\ \A k \in 0..(kernel.can_dlc - 1) :
                 Translated(kernel, leftover).data[k] = kernel.data[k]
<1>1. kernel \in KernelFrame /\ leftover \in Data
  BY ConstantsAssumption DEF ConstantsAssumption
<1>2. /\ kernel.can_dlc \in 0..8 /\ kernel.id \in 0..MaxId
      /\ \A k \in 0..7 : kernel.data[k] \in Byte /\ leftover[k] \in Byte
  BY <1>1 DEF KernelFrame, Data
<1>3. [k \in 0..7 |-> IF k < kernel.can_dlc THEN kernel.data[k] ELSE leftover[k]] \in Data
  BY <1>2 DEF Data
<1>. QED
  BY <1>2, <1>3 DEF Translated, CanFrame

LEMMA InitInv ==
    ASSUME Init
    PROVE  LoadInv /\ DecodeInv
<1>1. \A f \in Files : Len(f) \in Nat
  BY ConstantsAssumption DEF ConstantsAssumption
<1>2. TypeOK
  BY <1>1 DEF Init, TypeOK, Word
<1>3. InFrame /\ CurrentMessage /\ TableMatchesFile
  BY DEF Init, InFrame, CurrentMessage, InBlockOf, TableMatchesFile
<1>4. DecodeInv
  BY DEF Init, DecodeInv, FrameOfBus, BitsSoFar, ResultsSoFar, BitsAsDefined, Busy
<1>. QED
  BY <1>2, <1>3, <1>4 DEF LoadInv

-----------------------------------------------------------------------------
(* load(): a step reads one line. *)

LEMMA ReadingFacts ==
    ASSUME LoadInv, NEW kind, Reading(kind)
    PROVE  /\ line \in Nat /\ line >= 1 /\ line' = line + 1
           /\ line' \in 1..(Len(file) + 1)
           /\ line' - 1 = line
           /\ file' = file
           /\ file[line].kind = kind
           /\ kind = "BO" => file[line].number \in Nat
           /\ kind = "SG" => file[line] \in SG
<1>1. file \in Files /\ line \in 1..(Len(file) + 1)
  BY DEF LoadInv, TypeOK
<1>2. Len(file) \in Nat
  BY <1>1, ConstantsAssumption DEF ConstantsAssumption
<1>3. line \in 1..Len(file)
  BY <1>1, <1>2 DEF Reading
<1>. QED
  BY <1>1, <1>2, <1>3, LineFacts DEF Reading

\* A line that is not a message stays in the block.
LEMMA BlockGoesOn ==
    ASSUME LoadInv, NEW kind, Reading(kind), kind # "BO", UNCHANGED current_can_id
    PROVE  CurrentMessage'
<1>1. PICK b \in 0..(line - 1) :
        /\ \A l \in (b + 1)..(line - 1) : file[l].kind # "BO"
        /\ IF b = 0 THEN current_can_id = 0
           ELSE file[b].kind = "BO" /\ current_can_id = file[b].number
  BY Zenon DEF LoadInv, CurrentMessage, InBlockOf
<1>2. b \in 0..line /\ \A l \in (b + 1)..line : l = line \/ l \in (b + 1)..(line - 1)
  BY <1>1, ReadingFacts
<1>3. \A l \in (b + 1)..line : file[l].kind # "BO"
  BY <1>1, <1>2, ReadingFacts
<1>4. InBlockOf(line, current_can_id)
  BY <1>1, <1>2, <1>3 DEF InBlockOf
<1>. QED
  BY <1>4, ReadingFacts DEF CurrentMessage, InBlockOf

\* A line that defines no signal leaves a table that matches as it is.
LEMMA TableGoesOn ==
    ASSUME LoadInv, NEW kind, Reading(kind), UNCHANGED signals,
           \A n \in Wanted : ~Defines(line, n)
    PROVE  TableMatchesFile'
<1>1. \A k : k \in 1..line <=> k = line \/ k \in 1..(line - 1)
  BY ReadingFacts
<1>2. ASSUME NEW n \in Wanted, NEW k \in 1..line, Defines(k, n)
      PROVE  n \in DOMAIN signals
  BY <1>1, <1>2 DEF LoadInv, TableMatchesFile
<1>3. ASSUME NEW n \in DOMAIN signals
      PROVE  \E k \in 1..line :
               /\ Defines(k, n) /\ \A l \in (k + 1)..line : ~Defines(l, n)
               /\ InBlockOf(k, signals[n].can_id)
               /\ signals[n] = Definition(file[k], signals[n].can_id)
  <2>1. n \in Wanted
    BY DEF LoadInv, TypeOK
  <2>2. PICK k \in 1..(line - 1) :
           /\ LastDefines(k, n)
           /\ InBlockOf(k, signals[n].can_id)
           /\ signals[n] = Definition(file[k], signals[n].can_id)
    BY Zenon DEF LoadInv, TableMatchesFile
  <2>3. \A l \in (k + 1)..line : l = line \/ l \in (k + 1)..(line - 1)
    BY ReadingFacts
  <2>. QED
    BY <1>1, <2>1, <2>2, <2>3 DEF LastDefines
<1>4. file' = file /\ signals' = signals /\ line' - 1 = line
  BY ReadingFacts
<1>. QED
  BY <1>2, <1>3, <1>4 DEF TableMatchesFile, LastDefines, Defines, InBlockOf

LEMMA ReadMessageInv ==
    ASSUME LoadInv, ReadMessage
    PROVE  LoadInv'
<1>. USE DEF ReadMessage
<1>1. Reading("BO") /\ UNCHANGED signals
  OBVIOUS
<1>2. file[line].kind = "BO" /\ file[line].number \in Nat
  BY <1>1, ReadingFacts
<1>3. TypeOK'
  BY <1>1, <1>2, ReadingFacts DEF Reading, extracting, LoadInv, TypeOK
<1>4. InFrame'
  BY <1>1 DEF LoadInv, InFrame
<1>5. CurrentMessage'
  <2>1. line \in 0..line /\ line # 0 /\ \A l \in (line + 1)..line : FALSE
    BY <1>1, ReadingFacts
  <2>. QED
    BY <2>1, <1>1, <1>2, ReadingFacts DEF CurrentMessage, InBlockOf
<1>6. TableMatchesFile'
  BY <1>1, <1>2, TableGoesOn DEF Defines
<1>. QED
  BY <1>3, <1>4, <1>5, <1>6 DEF LoadInv

LEMMA SkipLineInv ==
    ASSUME LoadInv, SkipLine
    PROVE  LoadInv'
<1>1. UNCHANGED <<current_can_id, signals>>
  BY DEF SkipLine
<1>2. PICK kind \in {"other", "SG"} : Reading(kind)
  BY DEF SkipLine
<1>3. kind = "SG" => file[line].name \notin Wanted
  BY <1>2 DEF SkipLine, Reading
<1>4. TypeOK'
  BY <1>1, <1>2, ReadingFacts DEF Reading, extracting, LoadInv, TypeOK
<1>5. InFrame'
  BY <1>1 DEF LoadInv, InFrame
<1>6. CurrentMessage'
  BY <1>1, <1>2, BlockGoesOn
<1>7. TableMatchesFile'
  BY <1>1, <1>2, <1>3, ReadingFacts, TableGoesOn DEF Defines
<1>. QED
  BY <1>4, <1>5, <1>6, <1>7 DEF LoadInv

LEMMA ReadSignalInv ==
    ASSUME LoadInv, ReadSignal
    PROVE  LoadInv'
<1>. DEFINE sg == file[line]
<1>. DEFINE def == Definition(sg, current_can_id)
<1>1. Reading("SG") /\ sg.name \in Wanted /\ UNCHANGED current_can_id
  BY DEF ReadSignal
<1>2. sg \in SG /\ sg.kind = "SG" /\ current_can_id \in Nat
  BY <1>1, ReadingFacts DEF LoadInv, TypeOK
<1>3. def \in SignalDef /\ def.start_bit \in 0..63 /\ def.length \in 1..64
  BY <1>2, DefinitionFacts
<1>4. /\ DOMAIN signals' = DOMAIN signals \cup {sg.name}
      /\ signals'[sg.name] = def
      /\ \A n \in DOMAIN signals : n # sg.name => signals'[n] = signals[n]
  BY DEF ReadSignal
<1>. HIDE DEF def
<1>5. TypeOK'
  <2>1. \A n \in DOMAIN signals' : signals'[n] \in SignalDef
    BY <1>3, <1>4 DEF LoadInv, TypeOK
  <2>2. DOMAIN signals' \subseteq Wanted /\ DOMAIN signals \subseteq DOMAIN signals'
    BY <1>1, <1>4 DEF LoadInv, TypeOK
  <2>. QED
    BY <1>1, <2>1, <2>2, ReadingFacts DEF Reading, extracting, LoadInv, TypeOK
<1>6. InFrame'
  BY <1>3, <1>4 DEF LoadInv, InFrame
<1>7. CurrentMessage'
  BY <1>1, BlockGoesOn
<1>8. TableMatchesFile'
  <2>1. \A k : k \in 1..line <=> k = line \/ k \in 1..(line - 1)
    BY <1>1, ReadingFacts
  <2>2. ASSUME NEW n \in Wanted, NEW k \in 1..line, Defines(k, n)
        PROVE  n \in DOMAIN signals'
    <3>1. CASE k = line
      BY <2>2, <3>1, <1>4 DEF Defines
    <3>2. CASE k \in 1..(line - 1)
      BY <2>2, <3>2, <1>4 DEF LoadInv, TableMatchesFile
    <3>. QED
      BY <2>1, <3>1, <3>2
  <2>3. ASSUME NEW n \in DOMAIN signals'
        PROVE  \E k \in 1..line :
                 /\ Defines(k, n) /\ \A l \in (k + 1)..line : ~Defines(l, n)
                 /\ InBlockOf(k, signals'[n].can_id)
                 /\ signals'[n] = Definition(file[k], signals'[n].can_id)
    <3>1. CASE n = sg.name
      <4>1. line \in 1..line /\ \A l \in (line + 1)..line : FALSE
        BY <1>1, ReadingFacts
      <4>2. Defines(line, n)
        BY <1>2, <3>1 DEF Defines
      <4>3. signals'[n].can_id = current_can_id /\ signals'[n] = Definition(file[line], current_can_id)
        BY <1>4, <3>1 DEF def, Definition
      <4>4. InBlockOf(line, current_can_id)
        BY <1>1, <1>7, ReadingFacts DEF CurrentMessage, InBlockOf
      <4>. QED
        BY <4>1, <4>2, <4>3, <4>4
    <3>2. CASE n # sg.name
      <4>1. n \in DOMAIN signals /\ signals'[n] = signals[n]
        BY <3>2, <1>4
      <4>2. PICK k \in 1..(line - 1) :
               /\ LastDefines(k, n)
               /\ InBlockOf(k, signals[n].can_id)
               /\ signals[n] = Definition(file[k], signals[n].can_id)
        BY <4>1, Zenon DEF LoadInv, TableMatchesFile
      <4>3. \A l \in (k + 1)..line : l = line \/ l \in (k + 1)..(line - 1)
        BY <1>1, ReadingFacts
      <4>4. ~Defines(line, n)
        BY <3>2 DEF Defines
      <4>. QED
        BY <2>1, <4>1, <4>2, <4>3, <4>4 DEF LastDefines
    <3>. QED
      BY <3>1, <3>2
  <2>4. file' = file /\ line' - 1 = line
    BY <1>1, ReadingFacts
  <2>. QED
    BY <2>2, <2>3, <2>4 DEF TableMatchesFile, LastDefines, Defines, InBlockOf
<1>. QED
  BY <1>5, <1>6, <1>7, <1>8 DEF LoadInv

\* A step that reads no line.
LEMMA LoadedInv ==
    ASSUME LoadInv, UNCHANGED loading, TypeOK'
    PROVE  LoadInv'
<1>1. file' = file /\ line' = line /\ current_can_id' = current_can_id /\ signals' = signals
  BY DEF loading
<1>2. InFrame' /\ CurrentMessage'
  BY <1>1 DEF LoadInv, InFrame, CurrentMessage, InBlockOf
<1>3. TableMatchesFile'
  BY <1>1 DEF LoadInv, TableMatchesFile, LastDefines, Defines, InBlockOf
<1>. QED
  BY <1>2, <1>3 DEF LoadInv

\* Loading comes before the first frame.
LEMMA LoadDecodeInv ==
    ASSUME DecodeInv, Load
    PROVE  DecodeInv'
<1>1. pc = "load" /\ pc' \in {"load", "failed", "terminated", "idle"}
  BY DEF Load, OpenFails, ReadMessage, ReadSignal, SkipLine, ConversionThrows, LoadDone, Reading
<1>2. UNCHANGED <<bus, frame, name, i, raw, results>>
  BY DEF Load, OpenFails, ReadMessage, ReadSignal, SkipLine, ConversionThrows, LoadDone, Reading,
         extracting
<1>. QED
  BY <1>1, <1>2 DEF DecodeInv, FrameOfBus, BitsSoFar, ResultsSoFar, BitsAsDefined, Busy

-----------------------------------------------------------------------------
(* decode() *)

LEMMA FrameFacts ==
    ASSUME TypeOK, FrameOfBus, pc \in {"pick", "bits", "sign"}
    PROVE  /\ bus \in Frames /\ bus.can_dlc \in 0..8 /\ bus.id \in 0..MaxId
           /\ frame.can_id = bus.id /\ frame.dlc = bus.can_dlc
           /\ \A k \in 0..(bus.can_dlc - 1) : frame.data[k] = bus.data[k]
  BY TranslatedFacts DEF FrameOfBus

\* Of the bits from start_bit on, position i is bit bit_idx of byte byte_idx.
LEMMA PositionFacts ==
    ASSUME NEW start \in 0..63, NEW k \in 0..63
    PROVE  /\ (start + k) % 256 = start + k
           /\ (start + k) \div 8 \in 0..15
           /\ (start + k) % 8 \in 0..7
           /\ \A dlc \in 0..8 : (start + k) \div 8 < dlc <=> start + k < 8 * dlc
<1>1. start + k \in 0..126
  OBVIOUS
<1>2. \A p \in 0..126 : p % 256 = p /\ p \div 8 \in 0..15 /\ p % 8 \in 0..7
  OBVIOUS
<1>3. \A p \in 0..126, dlc \in 0..8 : p \div 8 < dlc <=> p < 8 * dlc
  OBVIOUS
<1>. QED
  BY <1>1, <1>2, <1>3

\* What has been decoded of a frame stays.
LEMMA DecodedStays ==
    ASSUME BitsAsDefined, UNCHANGED <<bus, signals, results>>
    PROVE  BitsAsDefined'
<1>1. \A p : BitOf(bus, p)' <=> BitOf(bus, p)
  BY DEF BitOf
<1>2. ASSUME NEW k \in DOMAIN results
      PROVE  LET def == signals[results[k].name]
             IN  results[k].raw_signed =
                   {b \in 0..63 : \/ b < def.length /\ BitOf(bus, def.start_bit + b)
                                  \/ /\ b >= def.length /\ def.is_signed
                                     /\ BitOf(bus, def.start_bit + def.length - 1)}
  BY DEF BitsAsDefined, SignalBits
<1>. QED
  BY <1>1, <1>2 DEF BitsAsDefined, SignalBits

LEMMA ReceiveInv ==
    ASSUME LoadInv, DecodeInv, Receive
    PROVE  TypeOK' /\ DecodeInv'
<1>1. PICK kernel \in Frames, leftover \in Leftovers :
         bus' = kernel /\ frame' = Translated(kernel, leftover)
  BY DEF Receive
<1>2. /\ pc = "idle" /\ pc' = "pick" /\ todo' = DOMAIN signals
      /\ UNCHANGED <<file, line, current_can_id, signals, name, i, raw, results>>
  BY DEF Receive, loading, extracting
<1>3. results = <<>> /\ name = None /\ i = 0 /\ raw = {}
  BY <1>2 DEF DecodeInv, FrameOfBus, BitsSoFar, Busy
<1>4. TypeOK'
  BY <1>1, <1>2, <1>3, TranslatedFacts DEF LoadInv, TypeOK, Word
<1>. QED
  BY <1>1, <1>2, <1>3, <1>4 DEF DecodeInv, FrameOfBus, BitsSoFar, ResultsSoFar, BitsAsDefined, Busy

LEMMA SkipSignalInv ==
    ASSUME LoadInv, DecodeInv, SkipSignal
    PROVE  TypeOK' /\ DecodeInv'
<1>1. PICK n \in todo : signals[n].can_id # frame.can_id /\ todo' = todo \ {n}
  BY DEF SkipSignal
<1>2. /\ pc = "pick"
      /\ UNCHANGED <<file, line, current_can_id, signals, bus, frame, pc, name, i, raw, results>>
  BY DEF SkipSignal, loading, extracting
<1>3. name = None /\ TypeOK'
  BY <1>1, <1>2 DEF LoadInv, TypeOK, DecodeInv, BitsSoFar, Busy
<1>4. signals[n].can_id # bus.id
  BY <1>1, <1>2, FrameFacts DEF LoadInv, DecodeInv
<1>5. ResultsSoFar'
  BY <1>1, <1>2, <1>4 DEF DecodeInv, ResultsSoFar
<1>6. FrameOfBus' /\ BitsSoFar'
  BY <1>2 DEF DecodeInv, FrameOfBus, BitsSoFar, Busy
<1>7. BitsAsDefined'
  BY <1>2, DecodedStays DEF DecodeInv
<1>. QED
  BY <1>3, <1>5, <1>6, <1>7 DEF DecodeInv

LEMMA PickSignalInv ==
    ASSUME LoadInv, DecodeInv, PickSignal
    PROVE  TypeOK' /\ DecodeInv'
<1>1. PICK n \in todo : signals[n].can_id = frame.can_id /\ name' = n
  BY DEF PickSignal
<1>2. /\ pc = "pick" /\ pc' = "bits" /\ i' = 0 /\ raw' = {}
      /\ UNCHANGED <<file, line, current_can_id, signals, bus, frame, todo, results>>
  BY DEF PickSignal, loading
<1>3. TypeOK'
  BY <1>1, <1>2 DEF LoadInv, TypeOK, Word
<1>4. n \in DOMAIN signals /\ signals[n].length \in 1..64
  BY <1>1 DEF LoadInv, TypeOK, InFrame
<1>5. BitsSoFar'
  <2>1. {b \in 0..(0 - 1) : BitOf(bus, signals[n].start_bit + b)} = {}
    OBVIOUS
  <2>. QED
    BY <1>1, <1>2, <1>4, <2>1 DEF BitsSoFar, Busy, BitOf
<1>6. FrameOfBus' /\ ResultsSoFar'
  BY <1>2 DEF DecodeInv, FrameOfBus, ResultsSoFar
<1>7. BitsAsDefined'
  BY <1>2, DecodedStays DEF DecodeInv
<1>. QED
  BY <1>3, <1>5, <1>6, <1>7 DEF DecodeInv

LEMMA ExtractBitInv ==
    ASSUME LoadInv, DecodeInv, ExtractBit
    PROVE  TypeOK' /\ DecodeInv'
<1>. DEFINE start == signals[name].start_bit
<1>1. /\ pc = "bits" /\ i < signals[name].length /\ byte_idx < frame.dlc
      /\ raw' = IF bit_idx \in frame.data[byte_idx] THEN raw \cup {i} ELSE raw
      /\ i' = i + 1
      /\ UNCHANGED <<file, line, current_can_id, signals, bus, frame, pc, todo, name, results>>
  BY DEF ExtractBit, loading
<1>2. name \in todo /\ name \in DOMAIN signals /\ signals[name].can_id = frame.can_id
      /\ raw = {b \in 0..(i - 1) : BitOf(bus, start + b)}
  BY <1>1 DEF LoadInv, TypeOK, DecodeInv, BitsSoFar, Busy
<1>3. start \in 0..63 /\ signals[name].length \in 1..64 /\ i \in 0..64
  BY <1>2 DEF LoadInv, InFrame, TypeOK
<1>4. i \in 0..63 /\ i + 1 \in 0..64 /\ i + 1 <= signals[name].length
  BY <1>1, <1>3
<1>. HIDE DEF start
<1>5. byte_idx = (start + i) \div 8 /\ bit_idx = (start + i) % 8
  <2>1. bit_pos = (start + i) % 256 /\ (start + i) % 256 = start + i
    BY <1>3, <1>4, PositionFacts DEF bit_pos, start
  <2>. QED
    BY <2>1 DEF byte_idx, bit_idx
<1>6. start + i < 8 * bus.can_dlc /\ byte_idx \in 0..(bus.can_dlc - 1)
  BY <1>1, <1>3, <1>4, <1>5, PositionFacts, FrameFacts DEF LoadInv, DecodeInv
<1>7. bit_idx \in frame.data[byte_idx] <=> BitOf(bus, start + i)
  BY <1>1, <1>5, <1>6, FrameFacts DEF BitOf, LoadInv, DecodeInv
<1>8. raw' = {b \in 0..i : BitOf(bus, start + b)}
  BY <1>1, <1>2, <1>4, <1>7
<1>9. TypeOK'
  <2>1. raw' \in Word
    BY <1>4, <1>8 DEF Word
  <2>. QED
    BY <1>1, <1>4, <2>1 DEF LoadInv, TypeOK
<1>10. BitsSoFar'
  <2>1. \A p : BitOf(bus, p)' <=> BitOf(bus, p)
    BY <1>1 DEF BitOf
  <2>2. start' = start /\ i' - 1 = i
    BY <1>1, <1>4 DEF start
  <2>. QED
    BY <1>1, <1>2, <1>4, <1>8, <2>1, <2>2 DEF BitsSoFar, Busy, start
<1>11. FrameOfBus' /\ ResultsSoFar'
  BY <1>1 DEF DecodeInv, FrameOfBus, ResultsSoFar
<1>12. BitsAsDefined'
  BY <1>1, DecodedStays DEF DecodeInv
<1>. QED
  BY <1>9, <1>10, <1>11, <1>12 DEF DecodeInv

LEMMA EndOfBitsInv ==
    ASSUME LoadInv, DecodeInv, EndOfBits
    PROVE  TypeOK' /\ DecodeInv'
<1>. DEFINE start == signals[name].start_bit
<1>1. /\ pc = "bits" /\ pc' = "sign"
      /\ i < signals[name].length => byte_idx >= frame.dlc
      /\ UNCHANGED <<file, line, current_can_id, signals, bus, frame, todo, name, i, raw, results>>
  BY DEF EndOfBits, loading, extracting
<1>2. name \in DOMAIN signals /\ i <= signals[name].length
  BY <1>1 DEF LoadInv, TypeOK, DecodeInv, BitsSoFar, Busy
<1>3. start \in 0..63 /\ signals[name].length \in 1..64 /\ i \in 0..64
  BY <1>2 DEF LoadInv, InFrame, TypeOK
<1>4. i = signals[name].length \/ start + i >= 8 * bus.can_dlc
  <2>. SUFFICES ASSUME i < signals[name].length
                PROVE  start + i >= 8 * bus.can_dlc
    BY <1>2, <1>3
  <2>. HIDE DEF start
  <2>1. i \in 0..63
    BY <1>3
  <2>2. byte_idx = (start + i) \div 8
    BY <1>3, <2>1, PositionFacts DEF byte_idx, bit_pos, start
  <2>3. ~((start + i) \div 8 < bus.can_dlc) /\ bus.can_dlc \in 0..8
    BY <1>1, <1>3, <2>1, <2>2, PositionFacts, FrameFacts DEF LoadInv, DecodeInv
  <2>4. ~(start + i < 8 * bus.can_dlc)
    BY <1>3, <2>1, <2>3, PositionFacts
  <2>. QED
    BY <1>3, <2>1, <2>3, <2>4
<1>5. TypeOK'
  BY <1>1 DEF LoadInv, TypeOK
<1>6. BitsSoFar'
  BY <1>1, <1>4 DEF DecodeInv, BitsSoFar, Busy, BitOf
<1>7. FrameOfBus' /\ ResultsSoFar'
  BY <1>1 DEF DecodeInv, FrameOfBus, ResultsSoFar
<1>8. BitsAsDefined'
  BY <1>1, DecodedStays DEF DecodeInv
<1>. QED
  BY <1>5, <1>6, <1>7, <1>8 DEF DecodeInv

\* At its end the loop has found all there is of the signal.
LEMMA AllBitsFound ==
    ASSUME LoadInv, DecodeInv, pc = "sign"
    PROVE  LET def == signals[name]
           IN  SignExtended(def, raw) =
                 {b \in 0..63 : \/ b < def.length /\ BitOf(bus, def.start_bit + b)
                                \/ /\ b >= def.length /\ def.is_signed
                                   /\ BitOf(bus, def.start_bit + def.length - 1)}
<1>. DEFINE def == signals[name]
<1>. DEFINE start == def.start_bit
<1>. DEFINE length == def.length
<1>1. /\ name \in DOMAIN signals /\ i <= length
      /\ raw = {b \in 0..(i - 1) : BitOf(bus, start + b)}
      /\ i = length \/ start + i >= 8 * bus.can_dlc
  BY DEF LoadInv, TypeOK, DecodeInv, BitsSoFar, Busy
<1>2. start \in 0..63 /\ length \in 1..64 /\ i \in 0..64
  BY <1>1 DEF LoadInv, InFrame, TypeOK
<1>3. bus.can_dlc \in 0..8
  BY FrameFacts DEF LoadInv, DecodeInv
<1>. HIDE DEF start, length
<1>4. ASSUME NEW b \in i..(length - 1)
      PROVE  ~BitOf(bus, start + b)
  <2>1. start + b >= 8 * bus.can_dlc
    BY <1>1, <1>2, <1>3
  <2>. QED
    BY <1>2, <1>3, <2>1 DEF BitOf
<1>5. raw = {b \in 0..(length - 1) : BitOf(bus, start + b)}
  BY <1>1, <1>2, <1>4
<1>6. length - 1 \in raw <=> BitOf(bus, start + length - 1)
  <2>1. length - 1 \in 0..(length - 1) /\ start + (length - 1) = start + length - 1
    BY <1>2
  <2>. QED
    BY <1>5, <2>1
<1>. DEFINE Sign == def.is_signed /\ BitOf(bus, start + length - 1)
<1>. DEFINE Bits == {b \in 0..63 : \/ b < length /\ BitOf(bus, start + b)
                                  \/ /\ b >= length /\ def.is_signed
                                     /\ BitOf(bus, start + length - 1)}
<1>7. SignExtended(def, raw) = IF Sign THEN raw \cup ((length - 1)..63) ELSE raw
  BY <1>6 DEF SignExtended, length
<1>. HIDE DEF def
<1>8. CASE Sign
  <2>1. raw \cup ((length - 1)..63) = Bits
    <3>1. \A b \in 0..63 : b \in Bits <=> b \in raw \/ b >= length
      BY <1>2, <1>5, <1>8
    <3>2. length - 1 \in raw
      BY <1>6, <1>8
    <3>3. \A b : b \in raw => b \in 0..63
      BY <1>2, <1>5
    <3>4. \A b : b \in (length - 1)..63 <=> b \in 0..63 /\ (b = length - 1 \/ b >= length)
      BY <1>2
    <3>5. \A b : b \in Bits => b \in 0..63
      OBVIOUS
    <3>. HIDE DEF Bits
    <3>. QED
      BY <3>1, <3>2, <3>3, <3>4, <3>5
  <2>. QED
    BY <1>7, <1>8, <2>1 DEF def, start, length
<1>9. CASE ~Sign
  <2>1. raw = Bits
    <3>1. \A b \in 0..63 : b \in Bits <=> b < length /\ BitOf(bus, start + b)
      BY <1>9
    <3>2. \A b : b \in 0..(length - 1) <=> b \in 0..63 /\ b < length
      BY <1>2
    <3>3. \A b : b \in Bits => b \in 0..63
      OBVIOUS
    <3>. HIDE DEF Bits
    <3>. QED
      BY <1>5, <3>1, <3>2, <3>3
  <2>2. SignExtended(def, raw) = raw
    <3>. HIDE DEF Sign
    <3>. QED
      BY <1>7, <1>9
  <2>. QED
    BY <2>1, <2>2 DEF def, start, length
<1>. QED
  BY <1>8, <1>9

LEMMA PushSignalInv ==
    ASSUME LoadInv, DecodeInv, PushSignal
    PROVE  TypeOK' /\ DecodeInv'
<1>. DEFINE sig == [name |-> name, raw_signed |-> SignExtended(signals[name], raw)]
<1>1. /\ pc = "sign" /\ pc' = "pick" /\ results' = Append(results, sig) /\ todo' = todo \ {name}
      /\ name' = None /\ i' = 0 /\ raw' = {}
      /\ UNCHANGED <<file, line, current_can_id, signals, bus, frame>>
  BY DEF PushSignal, loading
<1>2. name \in todo /\ name \in DOMAIN signals /\ signals[name].can_id = bus.id
  BY <1>1, FrameFacts DEF LoadInv, TypeOK, DecodeInv, BitsSoFar, Busy
<1>3. sig \in DecodedSignal
  <2>1. SignExtended(signals[name], raw) \in Word
    BY <1>1, AllBitsFound DEF Word
  <2>. QED
    BY <1>2, <2>1 DEF DecodedSignal, LoadInv, TypeOK
<1>4. sig.name = name /\ sig.raw_signed = SignExtended(signals[name], raw)
  OBVIOUS
<1>. HIDE DEF sig
<1>5. results \in Seq(DecodedSignal) /\ Len(results) \in Nat
  BY DEF LoadInv, TypeOK
<1>6. /\ results' \in Seq(DecodedSignal)
      /\ DOMAIN results' = DOMAIN results \cup {Len(results) + 1}
      /\ Len(results) + 1 \notin DOMAIN results
      /\ results'[Len(results) + 1] = sig
      /\ \A k \in DOMAIN results : results'[k] = results[k]
  BY <1>1, <1>3, <1>5
<1>7. TypeOK'
  BY <1>1, <1>6 DEF LoadInv, TypeOK, Word
<1>8. FrameOfBus' /\ BitsSoFar'
  BY <1>1 DEF DecodeInv, FrameOfBus, BitsSoFar, Busy
<1>9. ResultsSoFar'
  <2>1. /\ \A n \in DOMAIN signals \ todo :
             signals[n].can_id = bus.id => \E k \in DOMAIN results : results[k].name = n
        /\ \A k \in DOMAIN results : /\ results[k].name \in DOMAIN signals \ todo
                                     /\ signals[results[k].name].can_id = bus.id
        /\ \A k, l \in DOMAIN results : results[k].name = results[l].name => k = l
    BY <1>1 DEF DecodeInv, ResultsSoFar
  <2>2. \A n \in DOMAIN signals \ (todo \ {name}) :
           signals[n].can_id = bus.id => \E k \in DOMAIN results' : results'[k].name = n
    BY <1>4, <1>6, <2>1
  <2>3. \A k \in DOMAIN results' : /\ results'[k].name \in DOMAIN signals \ (todo \ {name})
                                   /\ signals[results'[k].name].can_id = bus.id
    BY <1>2, <1>4, <1>6, <2>1
  <2>4. \A k, l \in DOMAIN results' : results'[k].name = results'[l].name => k = l
    BY <1>2, <1>4, <1>6, <2>1
  <2>. QED
    BY <1>1, <2>2, <2>3, <2>4 DEF ResultsSoFar
<1>10. BitsAsDefined'
  <2>1. \A p : BitOf(bus, p)' <=> BitOf(bus, p)
    BY <1>1 DEF BitOf
  <2>2. ASSUME NEW k \in DOMAIN results'
        PROVE  LET def == signals[results'[k].name]
               IN  results'[k].raw_signed =
                     {b \in 0..63 : \/ b < def.length /\ BitOf(bus, def.start_bit + b)
                                    \/ /\ b >= def.length /\ def.is_signed
                                       /\ BitOf(bus, def.start_bit + def.length - 1)}
    <3>1. CASE k \in DOMAIN results
      <4>1. BitsAsDefined /\ results'[k] = results[k]
        BY <1>6, <3>1 DEF DecodeInv
      <4>. QED
        BY <3>1, <4>1 DEF BitsAsDefined, SignalBits
    <3>2. CASE k = Len(results) + 1
      BY <1>1, <1>4, <1>6, <3>2, AllBitsFound
    <3>. QED
      BY <1>6, <3>1, <3>2
  <2>. QED
    BY <1>1, <2>1, <2>2 DEF BitsAsDefined, SignalBits
<1>. QED
  BY <1>7, <1>8, <1>9, <1>10 DEF DecodeInv

LEMMA ReturnInv ==
    ASSUME LoadInv, DecodeInv, Return
    PROVE  TypeOK' /\ DecodeInv'
<1>1. /\ pc = "pick" /\ pc' = "idle" /\ bus' = None /\ frame' = None /\ results' = <<>>
      /\ UNCHANGED <<file, line, current_can_id, signals, todo, name, i, raw>>
  BY DEF Return, loading, extracting
<1>2. TypeOK'
  BY <1>1 DEF LoadInv, TypeOK
<1>. QED
  BY <1>1, <1>2 DEF DecodeInv, FrameOfBus, BitsSoFar, ResultsSoFar, BitsAsDefined, Busy

LEMMA NextInv ==
    ASSUME LoadInv, DecodeInv, [Next]_vars
    PROVE  LoadInv' /\ DecodeInv'
<1>1. CASE OpenFails \/ ConversionThrows \/ LoadDone
  <2>1. UNCHANGED <<file, line, current_can_id, signals, bus, frame, todo, name, i, raw, results>>
        /\ pc' \in {"failed", "terminated", "idle"} /\ Load /\ UNCHANGED loading
    BY <1>1 DEF OpenFails, ConversionThrows, LoadDone, Load, loading, extracting
  <2>2. TypeOK'
    BY <2>1 DEF LoadInv, TypeOK
  <2>. QED
    BY <2>1, <2>2, LoadedInv, LoadDecodeInv
<1>2. CASE ReadMessage
  BY <1>2, ReadMessageInv, LoadDecodeInv DEF Load
<1>3. CASE ReadSignal
  BY <1>3, ReadSignalInv, LoadDecodeInv DEF Load
<1>4. CASE SkipLine
  BY <1>4, SkipLineInv, LoadDecodeInv DEF Load
<1>5. CASE Receive
  BY <1>5, ReceiveInv, LoadedInv DEF Receive
<1>6. CASE SkipSignal
  BY <1>6, SkipSignalInv, LoadedInv DEF SkipSignal
<1>7. CASE PickSignal
  BY <1>7, PickSignalInv, LoadedInv DEF PickSignal
<1>8. CASE ExtractBit
  BY <1>8, ExtractBitInv, LoadedInv DEF ExtractBit
<1>9. CASE EndOfBits
  BY <1>9, EndOfBitsInv, LoadedInv DEF EndOfBits
<1>10. CASE PushSignal
  BY <1>10, PushSignalInv, LoadedInv DEF PushSignal
<1>11. CASE Return
  BY <1>11, ReturnInv, LoadedInv DEF Return
<1>12. CASE UNCHANGED vars
  <2>1. UNCHANGED <<file, line, current_can_id, signals, bus, frame, pc, todo, name, i, raw, results>>
        /\ UNCHANGED loading
    BY <1>12 DEF vars, loading, extracting
  <2>2. TypeOK'
    BY <2>1 DEF LoadInv, TypeOK
  <2>3. FrameOfBus'
    BY <2>1 DEF DecodeInv, FrameOfBus
  <2>4. BitsSoFar'
    <3>1. \A p : BitOf(bus, p)' <=> BitOf(bus, p)
      BY <2>1 DEF BitOf
    <3>. QED
      BY <2>1, <3>1 DEF DecodeInv, BitsSoFar, Busy
  <2>5. ResultsSoFar' /\ BitsAsDefined'
    BY <2>1, DecodedStays DEF DecodeInv, ResultsSoFar
  <2>. QED
    BY <2>1, <2>2, <2>3, <2>4, <2>5, LoadedInv DEF DecodeInv
<1>. QED
  BY <1>1, <1>2, <1>3, <1>4, <1>5, <1>6, <1>7, <1>8, <1>9, <1>10, <1>11, <1>12
     DEF Next, Load, Decode

LEMMA Invariance == Spec => [](LoadInv /\ DecodeInv)
<1>1. Init => LoadInv /\ DecodeInv
  BY InitInv
<1>2. (LoadInv /\ DecodeInv) /\ [Next]_vars => (LoadInv /\ DecodeInv)'
  BY NextInv
<1>. QED
  BY <1>1, <1>2, PTL DEF Spec

-----------------------------------------------------------------------------
(* The theorems *)

\* Every variable of load(), of the frame's translation and of decode() has its type;
\* no bit position leaves the 64 bits of a frame and no shift the 64 bits of an integer.
THEOREM TypeCorrect == Spec => []TypeOK
<1>1. LoadInv => TypeOK
  BY DEF LoadInv
<1>. QED
  BY <1>1, Invariance, PTL

\* Whatever the order of the file's lines, load() keeps of every wanted signal the last
\* definition, with the id of the message in whose block it is.
THEOREM TableCorrect == Spec => []TableMatchesFile
<1>1. LoadInv => TableMatchesFile
  BY DEF LoadInv
<1>. QED
  BY <1>1, Invariance, PTL

\* decode() extracts of a signal exactly the bits the frame had on the bus, whatever its
\* position, length and sign, and whatever the CanFrame held before.
THEOREM BitsCorrect == Spec => []BitsAsDefined
<1>1. DecodeInv => BitsAsDefined
  BY DEF DecodeInv
<1>. QED
  BY <1>1, Invariance, PTL

\* In whatever order decode() looks at the signals, it returns each signal of the frame's
\* message once, and no other.
THEOREM ResultsComplete == Spec => []AllSignalsOnce
<1>1. LoadInv /\ DecodeInv => AllSignalsOnce
  BY FrameFacts DEF LoadInv, DecodeInv, ResultsSoFar, AllSignalsOnce
<1>. QED
  BY <1>1, Invariance, PTL
=============================================================================
