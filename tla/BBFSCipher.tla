----------------------------- MODULE BBFSCipher -----------------------------
(***************************************************************************)
(* The cipher of project4/bbfs.c: bb_write adds a key to each byte and     *)
(* rotates it, bb_read undoes both, and every request loads the keys from  *)
(* ee516.conf first.  The loops treat every byte alike, so one byte of a   *)
(* file stands for all.  A byte is its unsigned value.                     *)
(***************************************************************************)
EXTENDS Integers

CONSTANTS
    CHAR_BIT,   \* 8
    Additions,  \* the first values that ee516.conf may hold
    Shifts      \* the second values

ASSUME CipherConstants ==
    /\ CHAR_BIT \in Nat \ {0}
    /\ Additions \subseteq Nat
    /\ Shifts \subseteq Nat

UCHAR == 2 ^ CHAR_BIT
Bytes == 0 .. UCHAR - 1

Keys == [forAddition : Additions, forShift : Shifts]
NoFile == [forAddition |-> -1, forShift |-> -1]   \* missing or negative values

VARIABLES
    conf,            \* the keys in ee516.conf
    encryptEnabled,
    key,             \* forAddition and forShift as loaded last
    text,            \* the byte that bb_write took over from a program, -1 before
    stored,          \* the byte in the file
    used,            \* the keys it was written with
    got              \* the byte read last, -1 if none since the last write

vars == <<conf, encryptEnabled, key, text, stored, used, got>>

Off == [forAddition |-> 0, forShift |-> 0]

Init ==
    /\ conf \in Keys \cup {NoFile}
    /\ encryptEnabled = 0 /\ key = Off
    /\ text = -1 /\ stored = -1 /\ used = Off /\ got = -1

----------------------------------------------------------------------------
ShiftRight(x, n) == x \div 2 ^ n
ShiftLeft(x, n)  == (x * 2 ^ n) % UCHAR

\* Slip: the bits that fall off the end are lost.
applyBitshiftDrops(target, direction, shift, size) ==
    IF direction > 0 THEN ShiftRight(target, shift % size)
                     ELSE ShiftLeft(target, shift % size)

\* The two parts share no bit, so | is +.
applyBitshift(target, direction, shift, size) ==
    LET modres == shift % size
    IN  IF direction > 0
        THEN ShiftRight(target, modres) + ShiftLeft(target, CHAR_BIT - modres)
        ELSE ShiftLeft(target, modres) + ShiftRight(target, CHAR_BIT - modres)

Encrypt(x, k) == applyBitshift((x + k.forAddition) % UCHAR, 1, k.forShift, CHAR_BIT)

\* Slip: the key is taken off before the rotation.
DecryptSwapped(x, k) == applyBitshift((x - k.forAddition) % UCHAR, -1, k.forShift, CHAR_BIT)

Decrypt(x, k) == (applyBitshift(x, -1, k.forShift, CHAR_BIT) - k.forAddition) % UCHAR

\* Zero keys switch the cipher off and leave the old ones in place; a file
\* that is missing or malformed changes nothing.
loadPolicyFromFile ==
    /\ encryptEnabled' = IF conf = NoFile THEN encryptEnabled
                         ELSE IF conf = Off THEN 0 ELSE 1
    /\ key' = IF conf \in {NoFile, Off} THEN key ELSE conf
    /\ UNCHANGED conf

\* A byte behind a zero byte of the same request is not copied, and calloc
\* has left a zero in its place.
strncpy(x, afterZero) == IF afterZero THEN 0 ELSE x

\* What may then stand in the buffer, whatever the program wrote.
intermediateBuf == {strncpy(x, afterZero) : x \in Bytes, afterZero \in BOOLEAN}

bb_write ==
    /\ loadPolicyFromFile
    /\ text' \in intermediateBuf
    /\ stored' = IF encryptEnabled' = 1 THEN Encrypt(text', key') ELSE text'
    /\ used' = IF encryptEnabled' = 1 THEN key' ELSE Off
    /\ got' = -1

bb_read ==
    /\ stored # -1
    /\ loadPolicyFromFile
    /\ got' = IF encryptEnabled' = 1 THEN Decrypt(stored, key') ELSE stored
    /\ UNCHANGED <<text, stored, used>>

\* The user edits, removes or restores ee516.conf.
EditConf ==
    /\ conf' \in (Keys \cup {NoFile}) \ {conf}
    /\ UNCHANGED <<encryptEnabled, key, text, stored, used>>
    /\ got' = -1

Next == bb_write \/ bb_read \/ EditConf

Spec == Init /\ [][Next]_vars

----------------------------------------------------------------------------
InForce == IF encryptEnabled = 1 THEN key ELSE Off

SameKeys(k, l) == /\ k.forAddition % UCHAR = l.forAddition % UCHAR
                  /\ k.forShift % CHAR_BIT = l.forShift % CHAR_BIT

(* bb_read returns what bb_write took, which is what it was given but for  *)
(* the bytes behind a zero byte, through every history of ee516.conf, when *)
(* the keys in force are the ones of the write up to the width of a byte;  *)
(* and with an addition that differs under the same rotation it never does.*)
ReadBack ==
    got # -1 =>
        /\ SameKeys(InForce, used) => got = text
        /\ InForce.forShift % CHAR_BIT = used.forShift % CHAR_BIT /\ got = text
              => SameKeys(InForce, used)

Bit(x, n) == (x \div 2 ^ n) % 2

(* applyBitshift is a rotation: bit n of the stored byte is bit n + shift  *)
(* of the sum, counted around the byte, so that no bit of the text is lost.*)
RotatesBits ==
    stored # -1 =>
        \A n \in 0 .. CHAR_BIT - 1 :
            Bit(stored, n) = Bit((text + used.forAddition) % UCHAR,
                                 (n + used.forShift) % CHAR_BIT)
=============================================================================
