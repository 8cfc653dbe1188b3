------------------------------ MODULE Framing ------------------------------
(***************************************************************************)
(* How hub messages are cut out of a transport message: the length prefix  *)
(* of binary frames (framing/binary.rs), the record separator of text      *)
(* frames (framing/text.rs), and the handshake response in front of the    *)
(* first messages (handshake.rs).                                          *)
(*                                                                         *)
(* A transport message is a sequence of units.  A unit is a pair of a tag  *)
(* and a value: <<"byte", n>> is a byte whose number matters, the others   *)
(* belong to the payloads.  An outcome is Ok(v) or Err.                    *)
(***************************************************************************)
EXTENDS Naturals, Sequences, FiniteSets, SequencesExt

CONSTANTS
  Base,       \* 128: a byte of the prefix carries a digit below Base, and Base more if another byte follows
  MaxPrefix,  \* 5: MAX_LENGTH_PREFIX_SIZE
  LastMax     \* 7: the largest last byte of a prefix of MaxPrefix bytes

ASSUME FramingAssumption == {Base, MaxPrefix, LastMax} \subseteq Nat \ {0}

Ok(v) == <<"ok", v>>
Err == <<"err">>
IsErr(r) == r[1] = "err"
None == <<>>
Some(v) == <<v>>

\* The ? operator: the value if none of the steps it is made of failed, and
\* what is next if one step did not.
Try(steps, value) == IF \E i \in DOMAIN steps : IsErr(steps[i]) THEN Err ELSE Ok(value)
Then(step, Rest(_)) == IF IsErr(step) THEN Err ELSE Rest(step[2])
UnwrapOr(r, default) == IF IsErr(r) THEN default ELSE r[2]
-----------------------------------------------------------------------------
Byte(n) == <<"byte", n>>

\* The number of a byte; what a payload unit would be as a byte is left open.
Number(unit) == IF unit[1] = "byte" THEN unit[2] ELSE 0

Drop(s, n) == SubSeq(s, n + 1, Len(s))

RECURSIVE LengthPrefix(_)
LengthPrefix(size) ==
  IF size < Base
  THEN <<Byte(size)>>
  ELSE <<Byte((size % Base) + Base)>> \o LengthPrefix(size \div Base)

BinaryWrite(payload) == LengthPrefix(Len(payload)) \o payload

\* How many bytes of the input are read as a prefix.
PrefixSize(input) ==
  LET limit == IF Len(input) < MaxPrefix THEN Len(input) ELSE MaxPrefix
  IN CHOOSE n \in 1..limit :
       /\ n = limit \/ Number(input[n]) < Base
       /\ \A i \in 1..n - 1 : Number(input[i]) >= Base

\* size |= (byte_read & 0x7f) << NUM_BITS_TO_SHIFT[num_bytes]
PrefixValue(prefix) ==
  FoldRight(LAMBDA unit, size : (Number(unit) % Base) + Base * size, prefix, 0)

\* The prefix at the start of the input: its length and the size it announces.
ReadPrefix(input) ==
  LET n == PrefixSize(input)
      last == Number(input[n])
  IN IF \/ last >= Base /\ n < MaxPrefix       \* CannotReadSize
        \/ n = MaxPrefix /\ last > LastMax     \* MessageTooLarge
     THEN Err
     ELSE Ok(<<n, PrefixValue(SubSeq(input, 1, n))>>)

RECURSIVE BinaryParse(_)
BinaryParse(input) ==
  IF input = <<>> THEN Ok(<<>>)
  ELSE Then(ReadPrefix(input), LAMBDA prefix :
         LET upTo == prefix[1] + prefix[2]
         IN IF Len(input) < upTo THEN Err   \* IncompleteMessage
            ELSE Then(BinaryParse(Drop(input, upTo)), LAMBDA rest :
                   Ok(<<SubSeq(input, prefix[1] + 1, upTo)>> \o rest)))
-----------------------------------------------------------------------------
Separator == <<"separator">>

TextWrite(output) == Append(output, Separator)

\* The position of the first separator, one past the end if there is none.
FirstSeparator(input) ==
  CHOOSE n \in 1..Len(input) + 1 :
    /\ n <= Len(input) => input[n] = Separator
    /\ \A i \in 1..n - 1 : input[i] # Separator

RECURSIVE Split(_)
Split(input) ==
  IF input = <<>> THEN <<>>
  ELSE LET n == FirstSeparator(input)
           part == SubSeq(input, 1, n - 1)
       IN (IF part = <<>> THEN <<>> ELSE <<part>>) \o Split(Drop(input, n))

TextParse(input) ==
  IF input = <<>> \/ input[Len(input)] # Separator THEN Err ELSE Ok(Split(input))
-----------------------------------------------------------------------------
\* split_text_handshake() and split_binary_handshake(): the response with its
\* separator, and what follows it, if anything does.
SplitHandshake(data) ==
  LET n == FirstSeparator(data)
  IN IF n > Len(data) THEN Err
     ELSE Ok([response |-> SubSeq(data, 1, n),
              remaining |-> IF n < Len(data) THEN Some(Drop(data, n)) ELSE None])
=============================================================================
