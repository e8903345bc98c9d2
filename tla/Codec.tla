------------------------------- MODULE Codec -------------------------------
(***************************************************************************)
(* The byte helpers of src/pkg/common: XORBytes (xor.go) and the hex       *)
(* Encode and Decode (hexutil.go).  src/pkg/utils/utils.go holds a         *)
(* verbatim copy of both, which these definitions model as well.           *)
(*                                                                         *)
(* They are pure functions, modelled as operators.  The spec records the  *)
(* call made, with an input from a bounded set, and what it returned; an *)
(* initial state is a call, and its one step the return.  TLC so checks   *)
(* every input of the set against a reference definition.                 *)
(*                                                                         *)
(* A byte is an integer of 0..255.  A string is a sequence of one-char    *)
(* strings.  XORBytes is modelled on the memory that starts at dst:        *)
(* positions 1..len(dst) are dst, and the positions after them belong to  *)
(* whatever the allocator put there.                                        *)
(***************************************************************************)
EXTENDS Integers, Sequences, SequencesExt, Bitwise

CONSTANTS
    WordSize,   \* unsafe.Sizeof(uintptr(0)): 8 on 64-bit, 4 on 386
    ByteVals,   \* the byte values the inputs are made of
    MaxLen,     \* the longest byte slice passed to XORBytes or Encode
    HexChars,   \* the characters the strings passed to Decode are made of
    MaxStrLen,  \* the longest string passed to Decode
    Garbage     \* a byte value no XOR of ByteVals gives: unwritten memory

VARIABLES
    call,       \* the call made, with its arguments
    done,       \* whether it has returned
    out         \* what it returned

vars == <<call, done, out>>

Panic == "panic"

-----------------------------------------------------------------------------
(* XORBytes.                                                               *)

\* n := len(a), lowered to len(b).
XorLen(a, b) == IF Len(b) < Len(a) THEN Len(b) ELSE Len(a)

\* dst[i] = a[i] ^ b[i] for the 0-based positions lo..hi-1 of the memory.
XorRange(mem, a, b, lo, hi) ==
    [k \in DOMAIN mem |-> IF lo < k /\ k <= hi THEN a[k] ^^ b[k] ELSE mem[k]]

(***************************************************************************)
(* safeXORBytes: a byte loop over 0..n-1.  dst[i] is bounds checked, so  *)
(* a dst shorter than n panics at i = len(dst), the bytes before written.  *)
(***************************************************************************)
safeXORBytes(mem, ld, a, b) ==
    LET n == XorLen(a, b)
    IN IF ld < n THEN [mem |-> XorRange(mem, a, b, 0, ld), ret |-> Panic]
       ELSE [mem |-> XorRange(mem, a, b, 0, n), ret |-> n]

\* Mutant: the tail loop starts one byte after the last word.
fastXORBytesTailLate(mem, ld, a, b) ==
    LET n == XorLen(a, b)
        w == n \div WordSize
        tail == n - (n % WordSize) + 1
        words == XorRange(mem, a, b, 0, w * WordSize)
        stop == IF ld > tail THEN ld ELSE tail
    IN IF w > ld THEN [mem |-> XorRange(mem, a, b, 0, ld * WordSize), ret |-> Panic]
       ELSE IF stop < n THEN [mem |-> XorRange(words, a, b, tail, stop), ret |-> Panic]
       ELSE [mem |-> XorRange(words, a, b, tail, n), ret |-> n]

(***************************************************************************)
(* fastXORBytes: w = n / wordSize words XORed through the slices          *)
(* reinterpreted as []uintptr, then the bytes from n - n%wordSize to n.    *)
(* The reinterpreted dw keeps len(dst) as its length, counted in words:   *)
(* dw[i] panics only at i = len(dst), and the words below that are        *)
(* written in full, past the end of dst when dst is shorter than n.  The  *)
(* tail loop is bounds checked per byte, as in safeXORBytes.              *)
(***************************************************************************)
fastXORBytes(mem, ld, a, b) ==
    LET n == XorLen(a, b)
        w == n \div WordSize
        tail == n - (n % WordSize)
        words == XorRange(mem, a, b, 0, w * WordSize)
        stop == IF ld > tail THEN ld ELSE tail    \* the first tail byte outside dst
    IN IF w > ld THEN [mem |-> XorRange(mem, a, b, 0, ld * WordSize), ret |-> Panic]
       ELSE IF stop < n THEN [mem |-> XorRange(words, a, b, tail, stop), ret |-> Panic]
       ELSE [mem |-> XorRange(words, a, b, tail, n), ret |-> n]

\* XORBytes: the fast version where the architecture supports unaligned
\* access (386, amd64, ppc64, ppc64le, s390x), the safe one elsewhere.
XORBytes(unaligned, mem, ld, a, b) ==
    IF unaligned THEN fastXORBytes(mem, ld, a, b) ELSE safeXORBytes(mem, ld, a, b)

-----------------------------------------------------------------------------
(* Encode and Decode.                                                      *)

Lower == <<"0", "1", "2", "3", "4", "5", "6", "7", "8", "9",
           "a", "b", "c", "d", "e", "f">>
Upper == <<"A", "B", "C", "D", "E", "F">>

\* encoding/hex fromHexChar: the value of a hex digit of either case.
IsHexChar(c) == (\E i \in 1..16 : Lower[i] = c) \/ (\E i \in 1..6 : Upper[i] = c)
FromHexChar(c) ==
    IF \E i \in 1..16 : Lower[i] = c THEN (CHOOSE i \in 1..16 : Lower[i] = c) - 1
    ELSE (CHOOSE i \in 1..6 : Upper[i] = c) + 9

\* Encode: hex.Encode, two lower-case digits per byte, high digit first;
\* no "0x" is put in front.
Encode(b) ==
    FlattenSeq([i \in 1..Len(b) |-> <<Lower[b[i] \div 16 + 1], Lower[(b[i] % 16) + 1]>>])

\* The errors: those of hexutil.go, and those hex.DecodeString gives.
ErrEmptyString == "ErrEmptyString"
ErrMissingPrefix == "ErrMissingPrefix"
ErrSyntax == "ErrSyntax"
ErrOddLength == "ErrOddLength"
ErrUint64Range == "ErrUint64Range"
InvalidByteError == "InvalidByteError"
ErrLength == "ErrLength"
Nil == "nil"

(***************************************************************************)
(* hex.DecodeString: the digits are decoded in pairs, and an invalid digit *)
(* of a pair ends it with InvalidByteError.  A single digit left over is  *)
(* InvalidByteError when it is not a digit, and ErrLength otherwise.  The *)
(* bytes decoded before the error are returned with it.                     *)
(***************************************************************************)
RECURSIVE DecodePairs(_, _)
DecodePairs(src, acc) ==
    CASE Len(src) = 0 -> [bytes |-> acc, err |-> Nil]
      [] Len(src) = 1 -> [bytes |-> acc, err |-> IF IsHexChar(src[1]) THEN ErrLength
                                                 ELSE InvalidByteError]
      [] ~IsHexChar(src[1]) \/ ~IsHexChar(src[2]) -> [bytes |-> acc, err |-> InvalidByteError]
      [] OTHER -> DecodePairs(SubSeq(src, 3, Len(src)),
                              Append(acc, 16 * FromHexChar(src[1]) + FromHexChar(src[2])))

\* Mutant: only a lower-case x is a prefix.
has0xPrefixLower(input) == Len(input) >= 2 /\ input[1] = "0" /\ input[2] = "x"

has0xPrefix(input) == Len(input) >= 2 /\ input[1] = "0" /\ input[2] \in {"x", "X"}

\* mapError: the strconv.NumError kinds (which hex never returns), then
\* hex.InvalidByteError and hex.ErrLength; any other error unchanged.
mapError(err) ==
    CASE err = "strconv.ErrRange" -> ErrUint64Range
      [] err = "strconv.ErrSyntax" -> ErrSyntax
      [] err = InvalidByteError -> ErrSyntax
      [] err = ErrLength -> ErrOddLength
      [] OTHER -> err

\* Decode: the checks of the input, then hex.DecodeString of input[2:].
Decode(input) ==
    IF input = <<>> THEN [bytes |-> <<>>, err |-> ErrEmptyString]
    ELSE IF ~has0xPrefix(input) THEN [bytes |-> <<>>, err |-> ErrMissingPrefix]
    ELSE LET r == DecodePairs(SubSeq(input, 3, Len(input)), <<>>)
         IN [bytes |-> r.bytes, err |-> IF r.err = Nil THEN Nil ELSE mapError(r.err)]

-----------------------------------------------------------------------------
(* The calls.                                                              *)

Bytes == SeqOf(ByteVals, MaxLen)

\* The calls a caller can make: XORBytes into a dst of length ld on a build
\* of either kind (the memory unwritten), Encode, Decode.
Calls ==
    [op : {"xor"}, a : Bytes, b : Bytes, ld : 0..MaxLen, unaligned : BOOLEAN,
     mem : {[k \in 1..MaxLen |-> Garbage]}]
    \cup [op : {"encode"}, b : Bytes]
    \cup [op : {"decode"}, s : SeqOf(HexChars, MaxStrLen)]

CallXORBytes ==
    /\ call.op = "xor" /\ ~done
    /\ out' = XORBytes(call.unaligned, call.mem, call.ld, call.a, call.b)
    /\ done' = TRUE
    /\ UNCHANGED call

CallEncode ==
    /\ call.op = "encode" /\ ~done
    /\ out' = Encode(call.b)
    /\ done' = TRUE
    /\ UNCHANGED call

CallDecode ==
    /\ call.op = "decode" /\ ~done
    /\ out' = Decode(call.s)
    /\ done' = TRUE
    /\ UNCHANGED call

Init == call \in Calls /\ done = FALSE /\ out = [ret |-> "none"]

Next == CallXORBytes \/ CallEncode \/ CallDecode

Spec == Init /\ [][Next]_vars

-----------------------------------------------------------------------------
(* Properties.                                                             *)

(***************************************************************************)
(* XORBytes into a dst at least as long as the shorter input returns its  *)
(* length and leaves dst[i] = a[i] XOR b[i] below it and every other byte *)
(* as it was, on either build: the word loop and the byte tail of          *)
(* fastXORBytes meet at n - n%wordSize with no byte skipped or repeated.   *)
(***************************************************************************)
XorMatchesReference ==
    call.op = "xor" /\ done /\ call.ld >= XorLen(call.a, call.b) =>
        LET n == XorLen(call.a, call.b)
        IN out = [mem |-> [k \in 1..MaxLen |->
                             IF k <= n THEN call.a[k] ^^ call.b[k] ELSE call.mem[k]],
                  ret |-> n]

\* The decoding the comment and the error messages of hexutil.go describe:
\* "0x" or "0X", then an even number of hex digits, two per byte.
RefDecode(s) ==
    LET digits == SubSeq(s, 3, Len(s))
        digit(c, v) == c = Lower[v + 1] \/ (v >= 10 /\ c = Upper[v - 9])
        val(c) == CHOOSE v \in 0..15 : digit(c, v)
    IN CASE s = <<>> -> [err |-> ErrEmptyString]
         [] ~(Len(s) >= 2 /\ s[1] = "0" /\ (s[2] = "x" \/ s[2] = "X")) -> [err |-> ErrMissingPrefix]
         [] \E i \in DOMAIN digits : ~\E v \in 0..15 : digit(digits[i], v) -> [err |-> ErrSyntax]
         [] Len(digits) % 2 = 1 -> [err |-> ErrOddLength]
         [] OTHER -> [err |-> Nil,
                      bytes |-> [i \in 1..Len(digits) \div 2 |->
                                    16 * val(digits[2 * i - 1]) + val(digits[2 * i])]]

(***************************************************************************)
(* Decode accepts exactly the strings of that form, returns their bytes,  *)
(* and classifies every other string by the error hexutil.go names for    *)
(* it: an invalid digit anywhere is ErrSyntax, also in a string of odd    *)
(* length, and a prefix with a capital X is a prefix.                       *)
(***************************************************************************)
DecodeMatchesReference ==
    call.op = "decode" /\ done =>
        /\ out.err = RefDecode(call.s).err
        /\ out.err = Nil => out.bytes = RefDecode(call.s).bytes
=============================================================================
