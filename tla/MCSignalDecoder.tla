--------------------------- MODULE MCSignalDecoder ---------------------------
(* A small instance of SignalDecoder: files with one signal in many layouts,  *)
(* and files of up to four lines in any order with two messages, a name        *)
(* defined in either, and lines to be skipped.                                *)
EXTENDS SignalDecoder
LOCAL INSTANCE FiniteSetsExt

Message(n) == [kind |-> "BO", number |-> n, converts |-> TRUE]
Signal(n, start, len, signed) ==
    [kind |-> "SG", name |-> n, start_bit |-> start, length |-> len,
     is_little_endian |-> TRUE, is_signed |-> signed, converts |-> TRUE]

\* The same line with a number that is too long.
Overlong(l) == [l EXCEPT !.converts = FALSE]

MCMaxId == 7
ExtendedFlag == 8
MCWanted == {"SPEED", "GEAR"}

Layouts == {<<Message(1), Signal("SPEED", start, len, signed)>> :
              start \in {0, 3, 7, 8, 13}, len \in {1, 2, 5, 8, 9, 11}, signed \in BOOLEAN}

Lines == {Message(1), Message(2), Message(1 + ExtendedFlag), Signal("SPEED", 4, 3, TRUE),
          Signal("GEAR", 0, 2, FALSE), Overlong(Signal("DOOR", 0, 1, FALSE)), [kind |-> "other"]}

\* A load that such a line ends.
Throwing == {<<Message(1), Signal("SPEED", 4, 3, TRUE), Overlong(l)>> :
               l \in {Message(2), Signal("SPEED", 0, 1, FALSE), Signal("GEAR", 0, 2, FALSE)}}

MCFiles == Layouts \cup Throwing \cup UNION {[1..n -> Lines] : n \in 0..4}

Bytes(b0, b1, b2) == [k \in 0..7 |-> CASE k = 0 -> b0 [] k = 1 -> b1 [] k = 2 -> b2 [] OTHER -> {}]

Payloads == {Bytes(0..7, 0..7, 0..7), Bytes({}, {}, {}), Bytes({0, 2, 4, 6}, {1, 3, 5, 7}, {0, 7}),
             Bytes({7}, {0}, {1}), Bytes({3, 4}, {7}, {0})}

Frame(id, extended, remote, dlc, data) ==
    [id |-> id, extended |-> extended, remote |-> remote, can_dlc |-> dlc, data |-> data]

MCFrames == {Frame(1, FALSE, FALSE, dlc, data) : dlc \in 0..3, data \in Payloads}
       \cup {Frame(1, TRUE, FALSE, 2, Bytes(0..7, {}, {})), Frame(1, FALSE, TRUE, 2, Bytes({}, {}, {})),
             Frame(2, FALSE, FALSE, 1, Bytes({5}, {}, {}))}

MCLeftovers == {Bytes({}, {}, {}), Bytes(0..7, 0..7, 0..7)}

-----------------------------------------------------------------------------
(* The reference for SignalBits *)

Number(bits) == MapThenSumSet(LAMBDA b : 2^b, bits)

\* int64_t in two's complement.
Int64(bits) == IF 63 \in bits THEN -1 - Number((0..63) \ bits) ELSE Number(bits)

\* SignalBits in numbers, as the DBC format defines a signal in Intel byte order: the frame is
\* a number of 8 * dlc bits, of which the signal is a part.  Not in reach: the other byte
\* order, which load() notes and decode() ignores, and unsigned integers of 64 bits.
ASSUME SignalBitsAreTheNumber ==
    \A lines \in Layouts, kernel \in MCFrames :
        LET def == lines[2]
            payload == Number({pos \in 0..63 : BitOf(kernel, pos)})
            value == (payload \div 2^def.start_bit) % 2^def.length
        IN  Int64(SignalBits(def, kernel)) =
               IF def.is_signed /\ value >= 2^(def.length - 1)
               THEN value - 2^def.length ELSE value
=============================================================================
