-------------------------------- MODULE Extrema --------------------------------
(***************************************************************************)
(* The state of min and max over the texts of `->>` (jsono_optimizer.cpp). *)
(*                                                                         *)
(* While all texts of a state are canonical numbers of one width it keeps  *)
(* the number, and from the first other text on it keeps a text.  A text   *)
(* that does not fit inline lies in a buffer that the state owns, so every *)
(* fold is of a cell: a state and the buffers that are allocated.          *)
(*                                                                         *)
(* A text is a sequence of bytes, of which Base are the digits.            *)
(***************************************************************************)
EXTENDS Integers, SequencesExt

CONSTANTS
  Zero, Base,     \* the byte '0', the number of digits, at least two
  MaxNumber,      \* the greatest uint64
  InlineLength,   \* string_t::INLINE_LENGTH
  Buffers         \* what can be allocated, positive numbers

Inline == 0    \* no buffer

\* What a text is: a sequence of bytes.
Bytes == Seq(Nat)

\* There are two digits at least, and a buffer is no sign of an inline text.
ExtremaAssumption ==
  /\ Zero \in Nat /\ Base \in Nat /\ Base >= 2
  /\ MaxNumber \in Nat /\ InlineLength \in Nat
  /\ Buffers \subseteq Nat \ {Inline}

EmptyExtrema ==
  [has_value |-> FALSE, numeric_mode |-> TRUE, value |-> 0, width |-> 0,
   text |-> <<>>, buffer |-> Inline]

-----------------------------------------------------------------------------
(* Texts and numbers. *)

Before(x, y) ==
  \E n \in 0 .. Len(y) - 1 :
    /\ IsPrefix(SubSeq(y, 1, n), x)
    /\ Len(x) = n \/ x[n + 1] < y[n + 1]

TextWins(kind, current, candidate) ==
  IF kind = "min" THEN Before(candidate, current) ELSE Before(current, candidate)

NumberWins(kind, current, candidate) ==
  IF kind = "min" THEN candidate < current ELSE candidate > current

\* The number that the first bytes of a text are, for any number of them.
Read(text) ==
  LET read[n \in 0 .. Len(text)] ==
        IF n = 0 THEN 0 ELSE read[n - 1] * Base + text[n] - Zero
  IN read

NumberOf(text) == Read(text)[Len(text)]

\* Wrong: a number with leading zeros is one, too.
TryParseUnsignedIntegerText(text) ==
  /\ text # <<>>
  /\ Range(text) \subseteq Zero .. Zero + Base - 1
  /\ NumberOf(text) <= MaxNumber

TryParseCanonicalUnsignedIntegerText(text) ==
  /\ text # <<>>
  /\ Range(text) \subseteq Zero .. Zero + Base - 1
  /\ Len(text) > 1 => text[1] # Zero
  /\ NumberOf(text) <= MaxNumber

Rendered[n \in 0 .. MaxNumber] ==
  IF n < Base THEN <<Zero + n>> ELSE Append(Rendered[n \div Base], Zero + (n % Base))

-----------------------------------------------------------------------------
(* Folds. *)

OwnsText(state) == ~state.numeric_mode /\ state.has_value /\ state.buffer # Inline

DestroyText(cell) ==
  IF OwnsText(cell.state) THEN [cell EXCEPT !.live = @ \ {cell.state.buffer}] ELSE cell

AssignExtremaText(cell, text) ==
  LET freed == DestroyText(cell)
      buffer == IF Len(text) <= InlineLength THEN Inline
                ELSE CHOOSE b \in Buffers : b \notin freed.live
  IN [state |-> [freed.state EXCEPT !.text = text, !.buffer = buffer],
      live |-> freed.live \cup ({buffer} \ {Inline})]

EnsureExtremaStringMode(cell) ==
  IF ~cell.state.numeric_mode THEN cell
  ELSE LET assigned == AssignExtremaText(cell, Rendered[cell.state.value])
       IN [assigned EXCEPT !.state.numeric_mode = FALSE]

FoldStringExtrema(cell, kind, candidate) ==
  IF ~cell.state.has_value
  THEN AssignExtremaText([cell EXCEPT !.state.has_value = TRUE, !.state.numeric_mode = FALSE],
                         candidate)
  ELSE LET text == EnsureExtremaStringMode(cell)
       IN IF TextWins(kind, text.state.text, candidate) THEN AssignExtremaText(text, candidate)
          ELSE text

FoldNumericExtrema(cell, kind, candidate, width) ==
  IF ~cell.state.has_value
  THEN [cell EXCEPT !.state.has_value = TRUE, !.state.numeric_mode = TRUE,
                    !.state.value = candidate, !.state.width = width]
  ELSE IF cell.state.numeric_mode /\ cell.state.width = width
  THEN IF NumberWins(kind, cell.state.value, candidate)
       THEN [cell EXCEPT !.state.value = candidate] ELSE cell
  ELSE FoldStringExtrema(cell, kind, Rendered[candidate])

FoldVarcharExtrema(cell, kind, candidate) ==
  IF cell.state.numeric_mode /\ TryParseCanonicalUnsignedIntegerText(candidate)
  THEN FoldNumericExtrema(cell, kind, NumberOf(candidate), Len(candidate))
  ELSE FoldStringExtrema(cell, kind, candidate)

\* Wrong: the first text is taken over with its buffer.
FoldStateAdopting(cell, source, kind) ==
  IF ~source.has_value THEN cell
  ELSE IF ~cell.state.has_value THEN [cell EXCEPT !.state = source]
  ELSE IF source.numeric_mode
  THEN FoldNumericExtrema(cell, kind, source.value, source.width)
  ELSE FoldStringExtrema(cell, kind, source.text)

FoldStateExtrema(cell, source, kind) ==
  IF ~source.has_value THEN cell
  ELSE IF source.numeric_mode
  THEN FoldNumericExtrema(cell, kind, source.value, source.width)
  ELSE FoldStringExtrema(cell, kind, source.text)

FinalizeExtrema(state, null) ==
  IF ~state.has_value THEN null
  ELSE IF state.numeric_mode THEN Rendered[state.value] ELSE state.text
=============================================================================
